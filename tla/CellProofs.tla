------------------------------ MODULE CellProofs ------------------------------
(***************************************************************************)
(* Proofs about Cell.tla, for every number of writers and flags, every set *)
(* of values and every function of a Map.                                  *)
(***************************************************************************)
EXTENDS Cell, TLAPS

(* Expansions used together: the actions of the notifier inside the cell. *)
USE CellAssumption DEF notifier, clients, Register

(* What each step does to the variables, without the disjunctions of Next. *)
LEMMA NextCases ==
  ASSUME [Next]_vars
  PROVE  \/ \E w \in Writers, v \in Values :
              \/ Set(w, v) \/ SetIfUnequal(w, v) \/ UpdateSet(w, v)
         \/ \E w \in Writers : UpdateGet(w) \/ Notify(w) \/ Return(w)
         \/ \E w \in Writers, f \in Flags : Deliver(w, f)
         \/ DropCell
         \/ \E f \in Flags : \/ ListenSource(f) \/ GetAndClear(f) \/ Get(f)
                             \/ DropFlag(f) \/ Forget(f)
         \/ UNCHANGED vars
  BY DEF Next, WriterStep, ReaderStep

(* The three calls that replace the value do it in one of two states. *)
LEMMA ReplaceCases ==
  ASSUME TypeOK, NEW w \in Writers, NEW v \in Values,
         Set(w, v) \/ SetIfUnequal(w, v) \/ UpdateSet(w, v)
  PROVE  owned /\ writer[w] \in {"idle", "update"} /\ Replace(w, v)
  BY DEF TypeOK, Set, SetIfUnequal, UpdateSet

(* A new Cell and idle clients are well typed. *)
LEMMA InitTypeOK == Init => TypeOK
  BY DEF Init, TypeOK, Notifier!Init, WriterSteps, ReaderSteps

(* Every step keeps the types. *)
LEMMA NextTypeOK == TypeOK /\ [Next]_vars => TypeOK'
<1> SUFFICES ASSUME TypeOK, [Next]_vars PROVE TypeOK'
    OBVIOUS
<1>1. ASSUME NEW w \in Writers, NEW v \in Values,
             Set(w, v) \/ SetIfUnequal(w, v) \/ UpdateSet(w, v)
      PROVE  TypeOK'
  <2>1. owned /\ writer[w] \in {"idle", "update"} /\ Replace(w, v)
        BY <1>1, ReplaceCases
  <2>. QED BY <2>1 DEF TypeOK, Replace, Goto, WriterSteps
<1>2. ASSUME NEW w \in Writers, UpdateGet(w) PROVE TypeOK'
      BY <1>2 DEF TypeOK, UpdateGet, Goto, WriterSteps
<1>3. ASSUME NEW w \in Writers, Notify(w) PROVE TypeOK'
      BY <1>3 DEF TypeOK, Notify, Goto, WriterSteps, Notifier!Begin
<1>4. ASSUME NEW w \in Writers, Return(w) PROVE TypeOK'
      BY <1>4 DEF TypeOK, Return, Goto, WriterSteps
<1>5. ASSUME NEW w \in Writers, NEW f \in Flags, Deliver(w, f) PROVE TypeOK'
  <2>1. flag' \in [Flags -> BOOLEAN]
        BY <1>5, Zenon DEF TypeOK, Deliver
  <2>. QED BY <1>5, <2>1 DEF TypeOK, Deliver, Notifier!Deliver
<1>6. ASSUME DropCell PROVE TypeOK'
      BY <1>6 DEF TypeOK, DropCell, Notifier!Close, Notifier!NothingOwed
<1>7. ASSUME NEW f \in Flags, ListenSource(f) PROVE TypeOK'
      BY <1>7 DEF TypeOK, ListenSource, ReaderSteps, Notifier!Join, Notifier!NothingOwed
<1>8. ASSUME NEW f \in Flags, GetAndClear(f) PROVE TypeOK'
      BY <1>8 DEF TypeOK, GetAndClear, ReaderSteps
<1>9. ASSUME NEW f \in Flags, Get(f) PROVE TypeOK'
      BY <1>9 DEF TypeOK, Get, ReaderSteps, Mapped, Stored, Outputs
<1>10. ASSUME NEW f \in Flags, DropFlag(f) PROVE TypeOK'
      BY <1>10 DEF TypeOK, DropFlag, Notifier!Die
<1>11. ASSUME NEW f \in Flags, Forget(f) PROVE TypeOK'
      BY <1>11 DEF TypeOK, Forget, Notifier!Leave, Notifier!NothingOwed
<1>12. ASSUME UNCHANGED vars PROVE TypeOK'
      BY <1>12 DEF TypeOK, vars
<1>. QED BY <1>1, <1>2, <1>3, <1>4, <1>5, <1>6, <1>7, <1>8, <1>9, <1>10, <1>11,
            <1>12, NextCases

(* Type correctness; among it, that no call of set() finds its notifier      *)
(* closed.                                                                   *)
THEOREM TypeCorrect == Spec => []TypeOK
<1>1. Init => TypeOK
      BY InitTypeOK
<1>2. TypeOK /\ [Next]_vars => TypeOK'
      BY NextTypeOK
<1>. QED BY <1>1, <1>2, PTL DEF Spec

(* With no readers yet, nobody is owed a notification. *)
LEMMA InitNoticeOwed == Init => NoticeOwed
  BY DEF Init, NoticeOwed, AtRest

(* A step that leaves everything alone that the notice is about, but may     *)
(* register listeners, cannot disturb it.                                    *)
LEMMA NextNoticeOwed == TypeOK /\ NoticeOwed /\ [Next]_vars => NoticeOwed'
<1> SUFFICES ASSUME TypeOK, NoticeOwed, [Next]_vars PROVE NoticeOwed'
    OBVIOUS
<1>1. ASSUME NEW w \in Writers, NEW v \in Values,
             Set(w, v) \/ SetIfUnequal(w, v) \/ UpdateSet(w, v)
      PROVE  NoticeOwed'
  <2>1. owned /\ writer[w] \in {"idle", "update"} /\ Replace(w, v)
        BY <1>1, ReplaceCases
  <2>2. writer'[w] = "notify"
        BY <2>1 DEF TypeOK, Replace, Goto
  <2>. QED BY <2>1, <2>2 DEF Mapped, Stored, NoticeOwed, AtRest, Replace
<1>2. ASSUME NEW w \in Writers, UpdateGet(w) PROVE NoticeOwed'
      BY <1>2 DEF Mapped, Stored, TypeOK, NoticeOwed, AtRest, UpdateGet, Goto
<1>3. ASSUME NEW w \in Writers, Notify(w) PROVE NoticeOwed'
  <2>1. /\ owned /\ owned' /\ members' = members /\ owed'[w] = members
        /\ \A u \in Writers \ {w} : owed'[u] = owed[u] /\ writer'[u] = writer[u]
        BY <1>3 DEF TypeOK, Notify, Goto, Notifier!Begin
  <2>2. ASSUME NEW f \in Flags, AtRest(f)', seen'[f] # Mapped(f)'
        PROVE  f \in owed'[w]
        BY <1>3, <2>1, <2>2 DEF Mapped, Stored, NoticeOwed, AtRest, Notify, Notifier!Begin
  <2>. QED BY <1>3, <2>1, <2>2 DEF Mapped, Stored, NoticeOwed, Notify, Notifier!Begin
<1>4. ASSUME NEW w \in Writers, Return(w) PROVE NoticeOwed'
      BY <1>4 DEF Mapped, Stored, TypeOK, NoticeOwed, AtRest, Return, Goto
<1>5. ASSUME NEW w \in Writers, NEW f \in Flags, Deliver(w, f) PROVE NoticeOwed'
  <2>1. \A g \in Flags \ {f} : flag'[g] = flag[g]
        BY <1>5 DEF TypeOK, Deliver
  <2>2. alive[f] => flag'[f]
        BY <1>5, Zenon DEF TypeOK, Deliver
  <2>3. \A u \in Writers : owed[u] \ {f} \subseteq owed'[u]
        BY <1>5 DEF TypeOK, Deliver, Notifier!Deliver
  <2>4. UNCHANGED <<owned, value, members, alive, writer, reader, seen>>
        BY <1>5 DEF Deliver, Notifier!Deliver
  <2>5. ASSUME NEW g \in Flags, AtRest(g)', seen'[g] # Mapped(g)'
        PROVE  \E u \in Writers : writer'[u] = "notify" \/ g \in owed'[u]
    <3>1. g # f
          BY <2>2, <2>4, <2>5 DEF AtRest
    <3>2. PICK u \in Writers : writer[u] = "notify" \/ g \in owed[u]
          BY <2>1, <2>4, <2>5, <3>1 DEF Mapped, Stored, NoticeOwed, AtRest
    <3>. QED BY <2>3, <2>4, <3>1, <3>2
  <2>. QED BY <2>4, <2>5 DEF NoticeOwed
<1>6. ASSUME DropCell PROVE NoticeOwed'
      BY <1>6 DEF Mapped, Stored, TypeOK, NoticeOwed, AtRest, DropCell, Notifier!Close
<1>7. ASSUME NEW f \in Flags, ListenSource(f) PROVE NoticeOwed'
  <2>1. /\ reader' = [reader EXCEPT ![f] = "get"]
        /\ UNCHANGED <<owned, value, owed, alive, writer, flag, seen>>
        /\ members \subseteq members'
        /\ owned => f \in members'
        BY <1>7 DEF TypeOK, ListenSource, Notifier!Join
  <2>. QED BY <2>1 DEF Mapped, Stored, TypeOK, NoticeOwed, AtRest
<1>8. ASSUME NEW f \in Flags, GetAndClear(f) PROVE NoticeOwed'
      BY <1>8 DEF Mapped, Stored, TypeOK, NoticeOwed, AtRest, GetAndClear
<1>9. ASSUME NEW f \in Flags, Get(f) PROVE NoticeOwed'
      BY <1>9 DEF Mapped, Stored, TypeOK, NoticeOwed, AtRest, Get
<1>10. ASSUME NEW f \in Flags, DropFlag(f) PROVE NoticeOwed'
      BY <1>10 DEF Mapped, Stored, TypeOK, NoticeOwed, AtRest, DropFlag, Notifier!Die
<1>11. ASSUME NEW f \in Flags, Forget(f) PROVE NoticeOwed'
      BY <1>11 DEF Mapped, Stored, TypeOK, NoticeOwed, AtRest, Forget, Notifier!Leave
<1>12. ASSUME UNCHANGED vars PROVE NoticeOwed'
      BY <1>12 DEF Mapped, Stored, NoticeOwed, AtRest, vars
<1>. QED BY <1>1, <1>2, <1>3, <1>4, <1>5, <1>6, <1>7, <1>8, <1>9, <1>10, <1>11,
            <1>12, NextCases

(* At every moment a reader at rest with an old value is owed a notification *)
(* by a call in progress.                                                    *)
THEOREM NoticeOwedHolds == Spec => []NoticeOwed
<1>1. Init => NoticeOwed
      BY InitNoticeOwed
<1>2. TypeOK /\ NoticeOwed /\ [Next]_vars => NoticeOwed'
      BY NextNoticeOwed
<1>. QED BY <1>1, <1>2, TypeCorrect, PTL DEF Spec

(* No change goes unnoticed: once the calls in progress are over, a reader   *)
(* whose flag is clear has the current value.                                *)
THEOREM NoChangeUnnoticedHolds == Spec => []NoChangeUnnoticed
<1>1. TypeOK /\ NoticeOwed => NoChangeUnnoticed
      BY DEF TypeOK, NoticeOwed, NoChangeUnnoticed
<1>. QED BY <1>1, TypeCorrect, NoticeOwedHolds, PTL

(* A notifier once closed stays so, and takes no more listeners.             *)
LEMMA NextNoListenerRetained ==
    TypeOK /\ NoListenerRetained /\ [Next]_vars => NoListenerRetained'
<1> SUFFICES ASSUME TypeOK, NoListenerRetained, [Next]_vars, ~owned'
             PROVE  members' = {}
    BY DEF NoListenerRetained
<1>1. CASE owned
      BY <1>1 DEF Next, WriterStep, ReaderStep, Set, SetIfUnequal, UpdateGet, UpdateSet,
                  Replace, Notify, Deliver, Return, DropCell, ListenSource, GetAndClear,
                  Get, DropFlag, Forget, Notifier!Close, vars
<1>2. CASE ~owned
  <2>1. members = {} /\ ~open
        BY <1>2 DEF TypeOK, NoListenerRetained
  <2>. QED BY <1>2, <2>1 DEF Next, WriterStep, ReaderStep, Set, SetIfUnequal, UpdateGet,
                  UpdateSet, Replace, Notify, Deliver, Return, DropCell, ListenSource,
                  GetAndClear, Get, DropFlag, Forget, Notifier!Begin, Notifier!Deliver,
                  Notifier!Join, Notifier!Leave, Notifier!Die, vars
<1>. QED BY <1>1, <1>2

(* Dropping the Cell frees the listeners of its sources, for good.           *)
THEOREM NoListenerRetainedHolds == Spec => []NoListenerRetained
<1>1. Init => NoListenerRetained
      BY DEF Init, NoListenerRetained
<1>2. TypeOK /\ NoListenerRetained /\ [Next]_vars => NoListenerRetained'
      BY NextNoListenerRetained
<1>. QED BY <1>1, <1>2, TypeCorrect, PTL DEF Spec
==============================================================================
