------------------------------ MODULE MCWakeFlag ------------------------------
(* The instance of WakeFlag that TLC checks; the cfg gives the listeners. *)
EXTENDS WakeFlag
==============================================================================
