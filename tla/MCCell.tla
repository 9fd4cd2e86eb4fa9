-------------------------------- MODULE MCCell --------------------------------
(* The instance of Cell that TLC checks: one reader has the source itself, the *)
(* other a Map that takes two values for one.                                  *)
EXTENDS Cell, TLC

CONSTANTS f1, f2, v1, v2, v3

MCThrough ==
    (f1 :> [v \in Values |-> v]) @@ (f2 :> [v \in Values |-> IF v = v3 THEN v1 ELSE v])
==============================================================================
