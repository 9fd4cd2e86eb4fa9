----------------------------- MODULE MCForwarding -----------------------------
(* A network for TLC: n1 forwards to n2, by a pair of a forwarder and a sink;  *)
(* a NullListener may come to n1, and to n2 a late listener that ends in the   *)
(* same sink, which is then reached in two ways.                               *)
EXTENDS Forwarding, TLC

CONSTANTS n1, n2, s1, l1, l2, l3

MCFrom == (l1 :> n1) @@ (l2 :> n1) @@ (l3 :> n2)
MCTo == (l1 :> {n2, s1}) @@ (l2 :> {}) @@ (l3 :> {s1})
MCRegistered == {l1}
MCRank == (n1 :> 1) @@ (n2 :> 0)
==============================================================================
