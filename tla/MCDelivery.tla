------------------------------ MODULE MCDelivery ------------------------------
(* The instance of Delivery that TLC checks; the cfg gives the sets. *)
EXTENDS Delivery
==============================================================================
