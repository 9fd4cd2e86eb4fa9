------------------------------ MODULE MCNotifier ------------------------------
(* The instance of Notifier that TLC checks; the cfg gives the sets. *)
EXTENDS Notifier
==============================================================================
