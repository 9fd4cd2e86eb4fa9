------------------------------- MODULE MCFlatten -------------------------------
(* The instances of Flatten that TLC checks; the cfgs give the sets. *)
EXTENDS Flatten
==============================================================================
