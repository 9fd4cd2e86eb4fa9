------------------------------ MODULE Broadcast ------------------------------
(***************************************************************************)
(* What a Notifier promises to the users of the Listen trait, with no      *)
(* vector, capacity or lock in sight: a set of members, and for every      *)
(* notification in progress the members that are still owed its batch.     *)
(*                                                                         *)
(*   - A notification is owed to exactly those that were members when it   *)
(*     began, each is given the batch once, and nobody joins or leaves it. *)
(*   - A member leaves only because it is dead, or because the notifier is *)
(*     closed; closing waits for the notifications in progress.            *)
(*                                                                         *)
(* Notifier.tla is shown to implement this specification.                  *)
(***************************************************************************)

CONSTANTS Threads,      \* the callers
          Listeners     \* the listener values the callers register

VARIABLES open,         \* close() has not been called
          members,      \* the registered listeners
          owed,         \* per thread, the members its notification has not reached
          alive         \* per listener, what receive() answers

bvars == <<open, members, owed, alive>>

Init ==
    /\ open = TRUE
    /\ members = {}
    /\ owed = [t \in Threads |-> {}]
    /\ alive = [l \in Listeners |-> TRUE]

NothingOwed == \A t \in Threads : owed[t] = {}

Begin(t) ==
    /\ open /\ owed[t] = {}
    /\ owed' = [owed EXCEPT ![t] = members]
    /\ UNCHANGED <<open, members, alive>>

Deliver(t, l) ==
    /\ l \in owed[t]
    /\ owed' = [owed EXCEPT ![t] = @ \ {l}]
    /\ UNCHANGED <<open, members, alive>>

Join(l) ==
    /\ open /\ l \notin members /\ NothingOwed
    /\ members' = members \cup {l}
    /\ UNCHANGED <<open, owed, alive>>

Leave(l) ==
    /\ l \in members /\ ~alive[l] /\ NothingOwed
    /\ members' = members \ {l}
    /\ UNCHANGED <<open, owed, alive>>

Close ==
    /\ NothingOwed
    /\ open' = FALSE
    /\ members' = {}
    /\ UNCHANGED <<owed, alive>>

Die(l) ==
    /\ alive' = [alive EXCEPT ![l] = FALSE]
    /\ UNCHANGED <<open, members, owed>>

Renew(l) ==
    /\ l \notin members
    /\ alive' = [alive EXCEPT ![l] = TRUE]
    /\ UNCHANGED <<open, members, owed>>

Next ==
    \/ \E t \in Threads : Begin(t)
    \/ \E t \in Threads, l \in Listeners : Deliver(t, l)
    \/ \E l \in Listeners : Join(l) \/ Leave(l) \/ Die(l) \/ Renew(l)
    \/ Close

Spec == Init /\ [][Next]_bvars
==============================================================================
