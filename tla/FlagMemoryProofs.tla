--------------------------- MODULE FlagMemoryProofs ---------------------------
(***************************************************************************)
(* Theorems about FlagMemory: type correctness, and that a reader sees what*)
(* it was told of.  The second rests on CarryOK, which says where a view   *)
(* that covers the notification is kept until the reader has it: in the    *)
(* flag, in the lock of the notifier, or in the thread.                    *)
(***************************************************************************)
EXTENDS FlagMemory, SequenceTheorems, TLAPS

(* A write makes the history longer by one. *)
LEMMA WriteEffect ==
    ASSUME TypeOK, NEW w \in Writers, NEW v \in Values, Write(w, v)
    PROVE  /\ xs' \in Seq(Values) /\ xs' # <<>>
           /\ Now' = Now + 1 /\ Now \in Nat \ {0}
           /\ view' \in [Writers \cup Flags -> 1..Now']
           /\ \A t \in Writers \cup Flags : view'[t] >= view[t]
           /\ view'[w] = Now'
  <1>1. /\ xs' \in Seq(Values) /\ xs' # <<>>
        /\ Now' = Now + 1 /\ Now \in Nat \ {0}
      BY DEF TypeOK, Write, Now
  <1>. QED BY <1>1 DEF TypeOK, Write

(* What was in the range of the history stays in it. *)
LEMMA GrowthPreservesType ==
    ASSUME TypeOK, NEW w \in Writers, NEW v \in Values, Write(w, v),
           UNCHANGED <<storage, kind, owed, notifier, flag, reader, seen,
                       settled, told, armed>>,
           local' \in Values,
           writer' \in [Writers -> {"idle", "local", "notify", "deliver"}],
           LocalAgrees'
    PROVE  TypeOK'
  <1>1. /\ xs' \in Seq(Values) /\ xs' # <<>>
        /\ Now' = Now + 1 /\ Now \in Nat \ {0}
        /\ view' \in [Writers \cup Flags -> 1..Now']
      BY WriteEffect
  <1>2. \A n : n \in 1..Now => n \in 1..Now'
      BY <1>1
  <1>3. flag' \in [Flags -> [value : BOOLEAN, view : 1..Now', of : 1..Now']]
    <2>1. [value : BOOLEAN, view : 1..Now, of : 1..Now]
            \subseteq [value : BOOLEAN, view : 1..Now', of : 1..Now']
        BY <1>2
    <2>. QED BY <2>1 DEF TypeOK
  <1>4. /\ lockView' \in 1..Now' /\ settled' \in 1..Now' /\ writeView' \in 1..lockView'
        /\ seen' \in [Flags -> 1..Now'] /\ told' \in [Flags -> 1..Now']
      BY <1>2 DEF TypeOK, notifier
  <1>. QED BY <1>1, <1>3, <1>4 DEF TypeOK, notifier

(* The two ways to set an unequal value only, which write or leave all as it is. *)
LEMMA IfUnequalWrites ==
    ASSUME NEW w, NEW v, SetIfUnequal(w, v)
    PROVE  Write(w, v) /\ (UNCHANGED writer \/ Goto(w, "notify"))
  BY DEF SetIfUnequal, AtomicIfUnequal, LockIfUnequal

(* A CellWithLocal has one value, but while its set() is on the way from the   *)
(* local copy to the storage.                                                  *)
LEMMA LocalAgreesKept ==
    ASSUME TypeOK, [Next]_vars PROVE LocalAgrees'
  <1>. USE DEF cell, notifier, Goto
  <1>0. writer \in [Writers -> {"idle", "local", "notify", "deliver"}] /\ Now \in Nat /\ LocalAgrees
      BY DEF TypeOK, Now
  <1>1. ASSUME NEW w \in Writers, NEW v \in Values, Set(w, v) PROVE LocalAgrees'
      BY <1>1 DEF Set, LocalAgrees
  <1>2. ASSUME NEW w \in Writers, NEW v \in Values, SetIfUnequal(w, v) PROVE LocalAgrees'
      BY <1>2 DEF SetIfUnequal, LocalAgrees
  <1>3. ASSUME NEW w \in Writers, NEW v \in Values, SetLocal(w, v) PROVE LocalAgrees'
      BY <1>0, <1>3 DEF SetLocal, LocalAgrees
  <1>4. ASSUME NEW w \in Writers, SetStorage(w) PROVE LocalAgrees'
    <2>1. xs' = Append(xs, local) /\ xs \in Seq(Values) /\ local \in Values /\ local' = local
        BY <1>4 DEF SetStorage, Write, TypeOK
    <2>2. xs'[Now'] = local
        BY <2>1 DEF Now
    <2>. QED BY <2>1, <2>2 DEF LocalAgrees
  (* The other steps leave both copies alone, and their writer is not between.   *)
  <1>5. ASSUME UNCHANGED cell,
               \A u \in Writers : writer[u] = "local" => writer'[u] = "local"
        PROVE  LocalAgrees'
      BY <1>0, <1>5 DEF LocalAgrees, Now
  <1>6. ASSUME NEW w \in Writers, Notify(w) \/ Return(w) PROVE LocalAgrees'
    <2>1. UNCHANGED cell /\ \A u \in Writers : writer[u] = "local" => writer'[u] = "local"
        BY <1>0, <1>6 DEF Notify, Return
    <2>. QED BY <1>5, <2>1
  <1>7. ASSUME NEW w \in Writers, NEW f \in Flags, Deliver(w, f) PROVE LocalAgrees'
      BY <1>5, <1>7 DEF Deliver
  <1>8. ASSUME NEW f \in Flags, ReaderStep(f) PROVE LocalAgrees'
    <2>1. UNCHANGED <<cell, writer>>
        BY <1>8 DEF ReaderStep, ListenSource, GetAndClear, Get, SetFlag
    <2>. QED BY <1>5, <2>1
  <1>9. CASE UNCHANGED vars
      BY <1>5, <1>9 DEF vars
  <1>. QED
      BY <1>1, <1>2, <1>3, <1>4, <1>6, <1>7, <1>8, <1>9 DEF Next, WriterStep

(* Type correctness: every view and every history variable stays within the  *)
(* writes so far, through all that writers, readers and locks hand on.       *)
THEOREM TypeCorrect == Spec => []TypeOK
  <1>1. Init => TypeOK
    <2> SUFFICES ASSUME Init PROVE TypeOK
      OBVIOUS
    <2>1. Now = 1 /\ 1 \in 1..Now
        BY DEF Init, Now
    <2>2. xs \in Seq(Values) /\ xs # <<>> /\ local \in Values
        BY FlagMemoryAssumption DEF Init
    <2>3. flag \in [Flags -> [value : BOOLEAN, view : 1..Now, of : 1..Now]]
      <3>1. {Message(b, 1, 1) : b \in BOOLEAN} \subseteq [value : BOOLEAN, view : 1..Now, of : 1..Now]
          BY <2>1 DEF Message
      <3>. QED BY <3>1 DEF Init
    <2>4. LocalAgrees
        BY <2>1 DEF Init, LocalAgrees
    <2>. QED BY <2>1, <2>2, <2>3, <2>4 DEF Init, TypeOK
  <1>2. TypeOK /\ [Next]_vars => TypeOK'
    <2> SUFFICES ASSUME TypeOK, [Next]_vars PROVE TypeOK'
      OBVIOUS
    <2>. USE DEF Goto, cell, notifier
    <2>a. LocalAgrees'
        BY LocalAgreesKept
    <2>0. Now \in Nat \ {0} /\ \A m, n \in 1..Now : Larger(m, n) \in 1..Now
        BY DEF TypeOK, Now, Larger
    <2>l. /\ writeView \in 1..Now
          /\ \A n \in 1..Now : /\ writeView \in 1..Larger(lockView, n)
                              /\ Larger(lockView, n) \in 1..Larger(lockView, n)
        BY <2>0 DEF TypeOK, Larger
    <2>1. ASSUME NEW w \in Writers, NEW v \in Values, Set(w, v) PROVE TypeOK'
      <3>1. writer' \in [Writers -> {"idle", "local", "notify", "deliver"}]
          BY <2>1 DEF Set, TypeOK
      <3>. QED BY <2>a, <2>1, <3>1, GrowthPreservesType DEF Set, TypeOK
    <2>2. ASSUME NEW w \in Writers, NEW v \in Values, SetIfUnequal(w, v) PROVE TypeOK'
      <3>1. writer' \in [Writers -> {"idle", "local", "notify", "deliver"}]
          BY <2>2, IfUnequalWrites DEF TypeOK
      <3>. QED BY <2>a, <2>2, <3>1, IfUnequalWrites, GrowthPreservesType DEF SetIfUnequal, TypeOK
    <2>3. ASSUME NEW w \in Writers, NEW v \in Values, SetLocal(w, v) PROVE TypeOK'
        BY <2>a, <2>3 DEF SetLocal, TypeOK, Now
    <2>4. ASSUME NEW w \in Writers, SetStorage(w) PROVE TypeOK'
      <3>1. writer' \in [Writers -> {"idle", "local", "notify", "deliver"}]
          BY <2>4 DEF SetStorage, TypeOK
      <3>2. local \in Values /\ Write(w, local)
          BY <2>4 DEF SetStorage, TypeOK
      <3>. QED BY <2>a, <2>4, <3>1, <3>2, GrowthPreservesType DEF SetStorage, TypeOK
    <2>5. ASSUME NEW w \in Writers, Notify(w) PROVE TypeOK'
        BY <2>a, <2>5, <2>0, <2>l DEF Notify, TypeOK, Now
    <2>6. ASSUME NEW w \in Writers, NEW f \in Flags, Deliver(w, f) PROVE TypeOK'
        BY <2>a, <2>6, <2>0 DEF Deliver, TypeOK, Now, Message, StoredView
    <2>7. ASSUME NEW w \in Writers, Return(w) PROVE TypeOK'
        BY <2>a, <2>7, <2>0, <2>l DEF Return, TypeOK, Now
    <2>8. ASSUME NEW f \in Flags, ListenSource(f) PROVE TypeOK'
        BY <2>a, <2>8, <2>0, <2>l DEF ListenSource, TypeOK, Now, Joined
    <2>9. ASSUME NEW f \in Flags, GetAndClear(f) PROVE TypeOK'
      <3>1. flag[f].view \in 1..Now /\ flag[f].of \in 1..Now
          BY DEF TypeOK
      <3>2. Message(FALSE, 1, 1) \in [value : BOOLEAN, view : 1..Now, of : 1..Now]
          BY <2>0 DEF Message
      <3>. QED BY <2>a, <2>9, <2>0, <3>1, <3>2 DEF GetAndClear, TypeOK, Now, Joined
    <2>10. ASSUME NEW f \in Flags, Get(f) PROVE TypeOK'
      <3>1. PICK i \in AtomicReads(f) \cup LockReads :
               /\ seen' = [seen EXCEPT ![f] = i]
               /\ view' = [view EXCEPT ![f] = i]
          BY <2>10 DEF Get
      <3>2. i \in 1..Now
        <4>1. view[f] \in 1..Now
            BY DEF TypeOK
        <4>2. i \in view[f]..Now \/ i = Now
            BY <3>1 DEF AtomicReads, LockReads
        <4>3. Now \in Nat
            BY <2>0
        <4>. QED BY <4>1, <4>2, <4>3
      <3>. QED BY <2>a, <2>10, <3>1, <3>2 DEF Get, TypeOK, Now
    <2>11. ASSUME NEW f \in Flags, SetFlag(f) PROVE TypeOK'
        BY <2>a, <2>11 DEF SetFlag, TypeOK, Now, Message, StoredView
    <2>12. CASE UNCHANGED vars
        BY <2>a, <2>12 DEF TypeOK, vars, Now
    <2>. QED
        BY <2>1, <2>2, <2>3, <2>4, <2>5, <2>6, <2>7, <2>8, <2>9, <2>10, <2>11, <2>12
           DEF Next, WriterStep, ReaderStep
  <1>. QED BY <1>1, <1>2, PTL DEF Spec

------------------------------------------------------------------------------

(* Where the view that covers a notification is kept: who is told of a write  *)
(* has it in view, or finds it in what the flag or the lock carries.          *)
CarryOK ==
    /\ settled <= lockView
    /\ \A f \in Flags :
         /\ flag[f].of <= flag[f].view
         /\ told[f] <= view[f]
         /\ reader[f] = "idle" => told[f] <= seen[f]

(* A step that only lets views grow, and leaves flags and readers alone.      *)
LEMMA GrowthPreservesCarry ==
    ASSUME TypeOK, TypeOK', CarryOK,
           UNCHANGED <<flag, reader, seen, told, settled, lockView>>,
           \A t \in Writers \cup Flags : view'[t] >= view[t]
    PROVE  CarryOK'
  <1>1. \A f \in Flags : told'[f] <= view'[f]
    <2>1. \A f \in Flags : told[f] \in Nat /\ view[f] \in Nat /\ view'[f] \in Nat
        BY DEF TypeOK, Now
    <2>. QED BY <2>1 DEF CarryOK
  <1>. QED BY <1>1 DEF CarryOK

LEMMA WriteGrows ==
    ASSUME TypeOK, NEW w \in Writers, NEW v \in Values, Write(w, v)
    PROVE  \A t \in Writers \cup Flags : view'[t] >= view[t]
  BY WriteEffect

LEMMA CarryInvariant == Spec => []CarryOK
  <1>1. Init => CarryOK
      BY DEF Init, CarryOK, Message
  <1>2. TypeOK /\ TypeOK' /\ CarryOK /\ [Next]_vars => CarryOK'
    <2> SUFFICES ASSUME TypeOK, TypeOK', CarryOK, [Next]_vars PROVE CarryOK'
      OBVIOUS
    <2>. USE DEF cell, notifier
    <2>0. \A m, n \in Nat : Larger(m, n) >= m /\ Larger(m, n) >= n /\ Larger(m, n) \in {m, n}
        BY DEF Larger
    <2>. DEFINE InNat == /\ lockView \in Nat /\ writeView \in Nat /\ settled \in Nat
                         /\ \A t \in Writers \cup Flags : view[t] \in Nat
                         /\ \A f \in Flags : /\ flag[f].view \in Nat /\ flag[f].of \in Nat
                                             /\ told[f] \in Nat /\ seen[f] \in Nat
    <2>n. InNat
        BY DEF TypeOK, Now
    <2>. HIDE DEF InNat
    <2>1. ASSUME NEW w \in Writers, NEW v \in Values, Set(w, v) PROVE CarryOK'
        BY <2>1, WriteGrows, GrowthPreservesCarry DEF Set
    <2>2. ASSUME NEW w \in Writers, NEW v \in Values, SetIfUnequal(w, v) PROVE CarryOK'
        BY <2>2, IfUnequalWrites, WriteGrows, GrowthPreservesCarry DEF SetIfUnequal
    <2>3. ASSUME NEW w \in Writers, NEW v \in Values, SetLocal(w, v) PROVE CarryOK'
        BY <2>3 DEF SetLocal, CarryOK
    <2>4. ASSUME NEW w \in Writers, SetStorage(w) PROVE CarryOK'
        BY <2>4, WriteGrows, GrowthPreservesCarry DEF SetStorage, TypeOK
    <2>5. ASSUME NEW w \in Writers, Notify(w) PROVE CarryOK'
      <3>1. \A t \in Writers \cup Flags : view'[t] >= view[t]
          BY <2>5, <2>0, <2>n DEF Notify, TypeOK, InNat
      <3>. QED BY <2>5, <3>1, GrowthPreservesCarry DEF Notify
    <2>6. ASSUME NEW w \in Writers, NEW f \in Flags, Deliver(w, f) PROVE CarryOK'
      <3>1. flag'[f].of = view[w] /\ flag'[f].view = view[w]
          BY <2>6 DEF Deliver, Message, StoredView, TypeOK
      <3>2. \A g \in Flags \ {f} : flag'[g] = flag[g]
          BY <2>6 DEF Deliver, TypeOK
      <3>3. \A g \in Flags : flag'[g].of <= flag'[g].view
          BY <2>n, <3>1, <3>2 DEF CarryOK, InNat
      <3>4. UNCHANGED <<settled, lockView, told, view, reader, seen>>
          BY <2>6 DEF Deliver
      <3>. QED BY <3>3, <3>4 DEF CarryOK
    <2>7. ASSUME NEW w \in Writers, Return(w) PROVE CarryOK'
      <3>1. Larger(settled, view[w]) <= Larger(lockView, view[w])
          BY <2>n DEF CarryOK, Larger, InNat
      <3>. QED BY <2>7, <3>1 DEF Return, CarryOK
    <2>8. ASSUME NEW f \in Flags, ListenSource(f) PROVE CarryOK'
      <3>1. /\ view'[f] >= lockView
            /\ \A g \in Flags \ {f} : view'[g] = view[g] /\ told'[g] = told[g]
            /\ told'[f] = settled /\ settled' = settled
            /\ lockView' >= lockView
            /\ reader'[f] = "get" /\ \A g \in Flags \ {f} : reader'[g] = reader[g]
          BY <2>8, <2>0, <2>n DEF ListenSource, TypeOK, Joined, InNat
      <3>2. view'[f] \in Nat /\ lockView' \in Nat
          BY DEF TypeOK, Now
      <3>. QED BY <2>8, <2>n, <3>1, <3>2 DEF ListenSource, CarryOK, InNat
    <2>9. ASSUME NEW f \in Flags, GetAndClear(f) PROVE CarryOK'
      <3>1. /\ view'[f] = Larger(view[f], flag[f].view)
            /\ told'[f] = Larger(told[f], flag[f].of)
            /\ flag'[f].of = 1 /\ flag'[f].view = 1
            /\ reader'[f] = "get"
            /\ \A g \in Flags \ {f} : /\ view'[g] = view[g] /\ told'[g] = told[g]
                                      /\ flag'[g] = flag[g] /\ reader'[g] = reader[g]
          BY <2>9 DEF GetAndClear, TypeOK, Joined, Message
      <3>2. told'[f] <= view'[f]
          BY <2>n, <3>1 DEF CarryOK, Larger, InNat
      <3>3. UNCHANGED <<settled, lockView, seen>>
          BY <2>9 DEF GetAndClear
      <3>4. \A g \in Flags : flag'[g].of <= flag'[g].view /\ told'[g] <= view'[g]
          BY <3>1, <3>2 DEF CarryOK
      <3>5. \A g \in Flags : reader'[g] = "idle" => told'[g] <= seen'[g]
          BY <3>1, <3>3 DEF CarryOK
      <3>. QED BY <3>3, <3>4, <3>5 DEF CarryOK
    <2>10. ASSUME NEW f \in Flags, Get(f) PROVE CarryOK'
      <3>1. PICK i \in AtomicReads(f) \cup LockReads :
               /\ seen' = [seen EXCEPT ![f] = i]
               /\ view' = [view EXCEPT ![f] = i]
          BY <2>10 DEF Get
      <3>2. told[f] <= i
        <4>1. view[f] \in 1..Now /\ Now \in Nat
            BY DEF TypeOK, Now
        <4>2. i \in view[f]..Now \/ i = Now
            BY <3>1 DEF AtomicReads, LockReads
        <4>. QED BY <2>n, <4>1, <4>2 DEF CarryOK, InNat
      <3>3. /\ seen'[f] = i /\ view'[f] = i
            /\ \A g \in Flags \ {f} : /\ seen'[g] = seen[g] /\ view'[g] = view[g]
                                      /\ reader'[g] = reader[g]
          BY <2>10, <3>1 DEF Get, TypeOK
      <3>. QED BY <2>10, <3>2, <3>3 DEF Get, CarryOK
    <2>11. ASSUME NEW f \in Flags, SetFlag(f) PROVE CarryOK'
      <3>1. flag'[f].of = view[f] /\ flag'[f].view = view[f]
          BY <2>11 DEF SetFlag, Message, StoredView, TypeOK
      <3>2. \A g \in Flags \ {f} : flag'[g] = flag[g]
          BY <2>11 DEF SetFlag, TypeOK
      <3>3. \A g \in Flags : flag'[g].of <= flag'[g].view
          BY <2>n, <3>1, <3>2 DEF CarryOK, InNat
      <3>4. UNCHANGED <<settled, lockView, told, view, reader, seen>>
          BY <2>11 DEF SetFlag
      <3>. QED BY <3>3, <3>4 DEF CarryOK
    <2>12. CASE UNCHANGED vars
        BY <2>12 DEF CarryOK, vars
    <2>. QED
        BY <2>1, <2>2, <2>3, <2>4, <2>5, <2>6, <2>7, <2>8, <2>9, <2>10, <2>11, <2>12
           DEF Next, WriterStep, ReaderStep
  <1>. QED BY <1>1, <1>2, TypeCorrect, PTL DEF Spec

(* What a reader gets after it has cleared its flag, or begun to listen, is no *)
(* older than what it was told of: for any number of threads and flags.        *)
THEOREM SeesWhatItWasToldHolds == Spec => []SeesWhatItWasTold
  <1>1. TypeOK /\ CarryOK => SeesWhatItWasTold
    <2>1. TypeOK => \A f \in Flags : told[f] \in Nat /\ seen[f] \in Nat
        BY DEF TypeOK, Now
    <2>. QED BY <2>1 DEF CarryOK, SeesWhatItWasTold
  <1>. QED BY <1>1, TypeCorrect, CarryInvariant, PTL
------------------------------------------------------------------------------

(* A set() that has written is about to tell f of it. *)
Pending(f) ==
    \E w \in Writers : \/ writer[w] = "notify"
                       \/ writer[w] = "deliver" /\ f \in owed[w]

(* Under a lock a reader at rest with an old value has a notification to come. *)
LockedOK ==
    \A f \in Flags :
      /\ reader[f] # "new" => f \in members
      /\ storage = "lock" /\ AtRest(f) /\ seen[f] # Now => Pending(f)

LEMMA LockedInvariant == Spec => []LockedOK
  <1>1. Init => LockedOK
      BY DEF Init, LockedOK, AtRest
  <1>2. TypeOK /\ TypeOK' /\ LockedOK /\ [Next]_vars => LockedOK'
    <2> SUFFICES ASSUME TypeOK, TypeOK', LockedOK, [Next]_vars PROVE LockedOK'
      OBVIOUS
    <2>. USE DEF cell, notifier, Goto
    <2>0. Now \in Nat \ {0} /\ writer \in [Writers -> {"idle", "local", "notify", "deliver"}]
        BY DEF TypeOK, Now
    <2>w. ASSUME NEW w \in Writers, writer'[w] = "notify",
                 UNCHANGED <<storage, members, reader>>
          PROVE  LockedOK'
        BY <2>w DEF LockedOK, Pending
    <2>1. ASSUME NEW w \in Writers, NEW v \in Values, Set(w, v) PROVE LockedOK'
        BY <2>0, <2>1, <2>w DEF Set
    <2>2. ASSUME NEW w \in Writers, NEW v \in Values, SetIfUnequal(w, v) PROVE LockedOK'
      <3>1. CASE AtomicIfUnequal(w, v)
          BY <2>2, <3>1 DEF SetIfUnequal, AtomicIfUnequal, LockedOK
      <3>2. CASE LockIfUnequal(w, v)
          BY <2>0, <2>2, <2>w, <3>2 DEF SetIfUnequal, LockIfUnequal
      <3>. QED BY <2>2, <3>1, <3>2 DEF SetIfUnequal
    <2>3. ASSUME NEW w \in Writers, NEW v \in Values, SetLocal(w, v) PROVE LockedOK'
      <3>1. \A f \in Flags : Pending(f) => Pending(f)'
          BY <2>0, <2>3 DEF SetLocal, Ready, Pending
      <3>. QED BY <2>3, <3>1 DEF SetLocal, LockedOK, AtRest, Now
    <2>4. ASSUME NEW w \in Writers, SetStorage(w) PROVE LockedOK'
        BY <2>0, <2>4, <2>w DEF SetStorage
    <2>5. ASSUME NEW w \in Writers, Notify(w) PROVE LockedOK'
      <3>1. writer'[w] = "deliver" /\ owed'[w] = members
          BY <2>0, <2>5 DEF Notify, TypeOK
      <3>2. \A f \in members : Pending(f)'
          BY <3>1 DEF Pending
      <3>. QED BY <2>5, <3>2 DEF Notify, LockedOK, AtRest, Now
    <2>6. ASSUME NEW w \in Writers, NEW f \in Flags, Deliver(w, f) PROVE LockedOK'
      <3>1. flag'[f].value /\ \A g \in Flags \ {f} : flag'[g] = flag[g]
          BY <2>6 DEF Deliver, Message, TypeOK
      <3>2. \A g \in Flags \ {f} : Pending(g) => Pending(g)'
          BY <2>6 DEF Deliver, Pending, TypeOK
      <3>. QED BY <2>6, <3>1, <3>2 DEF Deliver, LockedOK, AtRest, Now
    <2>7. ASSUME NEW w \in Writers, Return(w) PROVE LockedOK'
      <3>1. \A f \in Flags : Pending(f) => Pending(f)'
          BY <2>0, <2>7 DEF Return, Pending
      <3>. QED BY <2>7, <3>1 DEF Return, LockedOK, AtRest, Now
    <2>p. UNCHANGED <<writer, owed>> => \A f \in Flags : Pending(f) => Pending(f)'
        BY DEF Pending
    <2>8. ASSUME NEW f \in Flags, ListenSource(f) PROVE LockedOK'
      <3>1. reader'[f] = "get" /\ \A g \in Flags \ {f} : reader'[g] = reader[g]
          BY <2>8 DEF ListenSource, TypeOK
      <3>. QED BY <2>8, <2>p, <3>1 DEF ListenSource, LockedOK, AtRest, Now
    <2>9. ASSUME NEW f \in Flags, GetAndClear(f) PROVE LockedOK'
      <3>1. /\ reader[f] = "idle" /\ reader'[f] = "get"
            /\ \A g \in Flags \ {f} : reader'[g] = reader[g] /\ flag'[g] = flag[g]
          BY <2>9 DEF GetAndClear, TypeOK
      <3>. QED BY <2>9, <2>p, <3>1 DEF GetAndClear, LockedOK, AtRest, Now
    <2>10. ASSUME NEW f \in Flags, Get(f) PROVE LockedOK'
      <3>1. storage = "lock" => seen'[f] = Now
          BY <2>10 DEF Get, AtomicReads, LockReads, TypeOK
      <3>2. reader[f] = "get" /\ \A g \in Flags \ {f} : reader'[g] = reader[g] /\ seen'[g] = seen[g]
          BY <2>10 DEF Get, TypeOK
      <3>. QED BY <2>10, <2>p, <3>1, <3>2 DEF Get, LockedOK, AtRest, Now
    <2>11. ASSUME NEW f \in Flags, SetFlag(f) PROVE LockedOK'
      <3>1. flag'[f].value /\ \A g \in Flags \ {f} : flag'[g] = flag[g]
          BY <2>11 DEF SetFlag, Message, TypeOK
      <3>. QED BY <2>11, <2>p, <3>1 DEF SetFlag, LockedOK, AtRest, Now
    <2>12. CASE UNCHANGED vars
        BY <2>12, <2>p DEF LockedOK, AtRest, vars, Now
    <2>. QED
        BY <2>1, <2>2, <2>3, <2>4, <2>5, <2>6, <2>7, <2>8, <2>9, <2>10, <2>11, <2>12
           DEF Next, WriterStep, ReaderStep
  <1>. QED BY <1>1, <1>2, TypeCorrect, PTL DEF Spec

(* With one set() at a time, the one that notifies has the last write in view, *)
(* and the lock of the notifier carries it from then on.                       *)
LocalOK ==
    kind = "CellWithLocal" =>
      /\ \A u, w \in Writers : writer[u] # "idle" /\ writer[w] # "idle" => u = w
      /\ \A w \in Writers : writer[w] \in {"notify", "deliver"} => view[w] = Now
      /\ (\A w \in Writers : writer[w] \in {"idle", "local"}) => lockView = Now

LEMMA LocalInvariant == Spec => []LocalOK
  <1>1. Init => LocalOK
      BY DEF Init, LocalOK, Now
  <1>2. TypeOK /\ TypeOK' /\ LocalOK /\ [Next]_vars => LocalOK'
    <2> SUFFICES ASSUME TypeOK, TypeOK', LocalOK, [Next]_vars PROVE LocalOK'
      OBVIOUS
    <2>. USE DEF cell, notifier, Goto
    <2>0. /\ Now \in Nat \ {0} /\ lockView \in 1..Now
          /\ view \in [Writers \cup Flags -> 1..Now]
          /\ writer \in [Writers -> {"idle", "local", "notify", "deliver"}]
        BY DEF TypeOK, Now
    <2>1. ASSUME NEW w \in Writers, NEW v \in Values, Set(w, v) PROVE LocalOK'
        BY <2>1 DEF Set, LocalOK
    <2>2. ASSUME NEW w \in Writers, NEW v \in Values, SetIfUnequal(w, v) PROVE LocalOK'
        BY <2>2 DEF SetIfUnequal, LocalOK
    <2>3. ASSUME NEW w \in Writers, NEW v \in Values, SetLocal(w, v) PROVE LocalOK'
        BY <2>0, <2>3 DEF SetLocal, Exclusive, LocalOK, Now
    <2>4. ASSUME NEW w \in Writers, SetStorage(w) PROVE LocalOK'
      <3>1. view'[w] = Now'
          BY <2>4, WriteEffect DEF SetStorage, TypeOK
      <3>2. writer'[w] = "notify" /\ \A u \in Writers \ {w} : writer'[u] = writer[u]
          BY <2>0, <2>4 DEF SetStorage
      <3>3. kind = "CellWithLocal" => \A u \in Writers \ {w} : writer'[u] = "idle"
          BY <2>0, <2>4, <3>2 DEF SetStorage, LocalOK
      <3>4. kind' = kind
          BY <2>4 DEF SetStorage
      <3>. QED BY <3>1, <3>2, <3>3, <3>4 DEF LocalOK
    <2>5. ASSUME NEW w \in Writers, Notify(w) PROVE LocalOK'
      <3>1. /\ writer[w] = "notify" /\ writer'[w] = "deliver"
            /\ \A u \in Writers \ {w} : writer'[u] = writer[u] /\ view'[u] = view[u]
            /\ view'[w] = Larger(view[w], writeView) /\ writeView \in 1..Now
            /\ UNCHANGED <<kind, lockView>> /\ Now' = Now
          BY <2>0, <2>5 DEF Notify, Now, TypeOK
      <3>2. view[w] = Now => view'[w] = Now
          BY <2>0, <3>1 DEF Larger
      <3>. QED BY <3>1, <3>2 DEF LocalOK
    <2>6. ASSUME NEW w \in Writers, NEW f \in Flags, Deliver(w, f) PROVE LocalOK'
        BY <2>6 DEF Deliver, LocalOK, Now
    <2>7. ASSUME NEW w \in Writers, Return(w) PROVE LocalOK'
      <3>1. /\ writer[w] = "deliver" /\ writer'[w] = "idle"
            /\ \A u \in Writers \ {w} : writer'[u] = writer[u]
            /\ lockView' = Larger(lockView, view[w])
            /\ UNCHANGED <<kind, view>> /\ Now' = Now
          BY <2>0, <2>7 DEF Return, Now
      <3>2. view[w] = Now => lockView' = Now
          BY <2>0, <3>1 DEF Larger
      <3>. QED BY <3>1, <3>2 DEF LocalOK
    (* A reader only joins what there is, also if it writes as well. *)
    <2>r. ASSUME UNCHANGED <<kind, xs, writer>>,
                 lockView = Now => lockView' = Now,
                 \A t \in Writers \cup Flags : view[t] = Now => view'[t] = Now
          PROVE  LocalOK'
        BY <2>r DEF LocalOK, Now
    <2>8. ASSUME NEW f \in Flags, ListenSource(f) PROVE LocalOK'
        BY <2>0, <2>8, <2>r DEF ListenSource, Joined, Larger
    <2>9. ASSUME NEW f \in Flags, GetAndClear(f) PROVE LocalOK'
      <3>1. flag[f].view \in 1..Now
          BY DEF TypeOK
      <3>. QED BY <2>0, <2>9, <2>r, <3>1 DEF GetAndClear, Joined, Larger
    <2>10. ASSUME NEW f \in Flags, Get(f) PROVE LocalOK'
      <3>1. PICK i \in AtomicReads(f) \cup LockReads : view' = [view EXCEPT ![f] = i]
          BY <2>10 DEF Get
      <3>2. view[f] = Now => i = Now
          BY <2>0, <3>1 DEF AtomicReads, LockReads
      <3>. QED BY <2>0, <2>10, <2>r, <3>1, <3>2 DEF Get
    <2>11. ASSUME NEW f \in Flags, SetFlag(f) PROVE LocalOK'
        BY <2>11, <2>r DEF SetFlag
    <2>12. CASE UNCHANGED vars
        BY <2>12 DEF LocalOK, vars, Now
    <2>. QED
        BY <2>1, <2>2, <2>3, <2>4, <2>5, <2>6, <2>7, <2>8, <2>9, <2>10, <2>11, <2>12
           DEF Next, WriterStep, ReaderStep
  <1>. QED BY <1>1, <1>2, TypeCorrect, PTL DEF Spec

(* The reader of f has the last write, or cannot but get it. *)
Fresh(f) == IF reader[f] = "get" THEN view[f] = Now ELSE seen[f] = Now

(* So a reader that is told of nothing any more has the last write, or will    *)
(* join it with the flag.                                                      *)
CarriedOK ==
    \A f \in Flags :
      /\ reader[f] = "idle" => seen[f] <= view[f]
      /\ kind = "CellWithLocal" /\ reader[f] # "new" /\ ~armed[f] /\ ~Pending(f) =>
           Fresh(f) \/ (flag[f].value /\ flag[f].view = Now)
LEMMA CarriedInvariant == Spec => []CarriedOK
  <1>1. Init => CarriedOK
      BY DEF Init, CarriedOK
  <1>2. TypeOK /\ TypeOK' /\ LockedOK /\ LocalOK /\ CarriedOK /\ [Next]_vars => CarriedOK'
    <2> SUFFICES ASSUME TypeOK, TypeOK', LockedOK, LocalOK, CarriedOK, [Next]_vars
                 PROVE  CarriedOK'
      OBVIOUS
    <2>. USE DEF cell, notifier, Goto
    <2>0. /\ Now \in Nat \ {0} /\ lockView \in 1..Now
          /\ view \in [Writers \cup Flags -> 1..Now]
          /\ writer \in [Writers -> {"idle", "local", "notify", "deliver"}]
          /\ seen \in [Flags -> 1..Now]
          /\ \A f \in Flags : flag[f].view \in 1..Now
        BY DEF TypeOK, Now
    (* A write, of which everybody is to be told. *)
    <2>w. ASSUME NEW w \in Writers, NEW v \in Values, Write(w, v),
                 kind = "Cell" \/ writer'[w] = "notify", UNCHANGED <<kind, reader, seen>>
          PROVE  CarriedOK'
      <3>1. \A t \in Writers \cup Flags : view'[t] >= view[t] /\ view'[t] \in Nat
          BY <2>w, WriteEffect
      <3>2. \A f \in Flags : reader[f] = "idle" => seen[f] <= view'[f]
        <4>1. \A f \in Flags : reader[f] = "idle" => seen[f] <= view[f]
            BY DEF CarriedOK
        <4>. QED BY <2>0, <3>1, <4>1
      <3>. QED BY <2>w, <3>2 DEF CarriedOK, Pending
    (* A step that touches no thread's view and ends no notification. *)
    <2>s. ASSUME UNCHANGED <<kind, xs, reader, seen, armed>>,
                 \A f \in Flags : view'[f] >= view[f],
                 \A f \in Flags : Pending(f) =>
                    Pending(f)' \/ (kind = "CellWithLocal" /\ ~armed[f] =>
                                     flag'[f].value /\ flag'[f].view = Now),
                 \A f \in Flags : flag'[f] = flag[f] \/ (flag'[f].value /\ flag'[f].view = Now)
                                 \/ kind = "Cell"
          PROVE  CarriedOK'
      <3>1. Now' = Now /\ view' \in [Writers \cup Flags -> 1..Now]
          BY <2>s DEF Now, TypeOK
      <3>2. \A f \in Flags : view[f] = Now => view'[f] = Now
          BY <2>0, <2>s, <3>1
      <3>3. \A f \in Flags : reader[f] = "idle" => seen[f] <= view'[f]
        <4>1. \A f \in Flags : reader[f] = "idle" => seen[f] <= view[f]
            BY DEF CarriedOK
        <4>. QED BY <2>0, <2>s, <3>1, <4>1
      <3>. QED BY <2>s, <3>1, <3>2, <3>3 DEF CarriedOK, Fresh
    <2>1. ASSUME NEW w \in Writers, NEW v \in Values, Set(w, v) PROVE CarriedOK'
        BY <2>1, <2>w DEF Set
    <2>2. ASSUME NEW w \in Writers, NEW v \in Values, SetIfUnequal(w, v) PROVE CarriedOK'
        BY <2>2, <2>w, IfUnequalWrites DEF SetIfUnequal
    <2>3. ASSUME NEW w \in Writers, NEW v \in Values, SetLocal(w, v) PROVE CarriedOK'
      <3>1. \A f \in Flags : Pending(f) => Pending(f)'
          BY <2>0, <2>3 DEF SetLocal, Ready, Pending
      <3>2. \A f \in Flags : view[f] >= view[f]
          BY <2>0
      <3>. QED BY <2>3, <2>s, <3>1, <3>2 DEF SetLocal
    <2>4. ASSUME NEW w \in Writers, SetStorage(w) PROVE CarriedOK'
        BY <2>0, <2>4, <2>w DEF SetStorage, TypeOK
    <2>5. ASSUME NEW w \in Writers, Notify(w) PROVE CarriedOK'
      <3>1. writer'[w] = "deliver" /\ owed'[w] = members
          BY <2>0, <2>5 DEF Notify, TypeOK
      <3>2. \A f \in members : Pending(f)'
          BY <3>1 DEF Pending
      <3>3. \A f \in Flags : view'[f] >= view[f]
          BY <2>0, <2>5 DEF Notify, Larger, TypeOK
      <3>4. Now' = Now
          BY <2>5 DEF Notify, Now
      <3>5. \A f \in Flags : reader[f] = "idle" => seen[f] <= view'[f]
        <4>1. \A f \in Flags : reader[f] = "idle" => seen[f] <= view[f]
            BY DEF CarriedOK
        <4>2. view' \in [Writers \cup Flags -> 1..Now]
            BY <3>4 DEF TypeOK
        <4>. QED BY <2>0, <3>3, <4>1, <4>2
      <3>6. \A f \in Flags : reader[f] # "new" => f \in members
          BY DEF LockedOK
      <3>. QED BY <2>5, <3>2, <3>5, <3>6 DEF Notify, CarriedOK
    <2>6. ASSUME NEW w \in Writers, NEW f \in Flags, Deliver(w, f) PROVE CarriedOK'
      <3>1. /\ flag'[f].value /\ flag'[f].view = view[w]
            /\ \A g \in Flags \ {f} : flag'[g] = flag[g]
          BY <2>6 DEF Deliver, Message, StoredView, TypeOK
      <3>2. kind = "Cell" \/ view[w] = Now
          BY <2>6 DEF Deliver, LocalOK, TypeOK
      <3>3. \A g \in Flags \ {f} : Pending(g) => Pending(g)'
          BY <2>6 DEF Deliver, Pending, TypeOK
      <3>4. \A g \in Flags : view[g] >= view[g]
          BY <2>0
      <3>. QED BY <2>6, <2>s, <3>1, <3>2, <3>3, <3>4 DEF Deliver
    <2>7. ASSUME NEW w \in Writers, Return(w) PROVE CarriedOK'
      <3>1. \A f \in Flags : Pending(f) => Pending(f)'
          BY <2>0, <2>7 DEF Return, Pending
      <3>2. \A g \in Flags : view[g] >= view[g]
          BY <2>0
      <3>. QED BY <2>7, <2>s, <3>1, <3>2 DEF Return
    <2>p. UNCHANGED <<writer, owed>> => \A f \in Flags : Pending(f)' <=> Pending(f)
        BY DEF Pending
    (* What one reader does is nothing to the others. *)
    <2>r. ASSUME NEW f \in Flags, UNCHANGED <<kind, xs, writer, owed>>,
                 \A g \in Flags \ {f} : /\ reader'[g] = reader[g] /\ seen'[g] = seen[g]
                                         /\ view'[g] = view[g] /\ flag'[g] = flag[g]
                                         /\ armed'[g] = armed[g],
                 reader'[f] = "idle" => seen'[f] <= view'[f],
                 kind = "CellWithLocal" /\ reader'[f] # "new" /\ ~armed'[f] /\ ~Pending(f) =>
                    Fresh(f)' \/ (flag'[f].value /\ flag'[f].view = Now)
          PROVE  CarriedOK'
      <3>1. Now' = Now
          BY <2>r DEF Now
      <3>2. \A g \in Flags \ {f} : Fresh(g)' <=> Fresh(g)
          BY <2>r, <3>1 DEF Fresh
      <3>. QED BY <2>p, <2>r, <3>1, <3>2 DEF CarriedOK
    <2>8. ASSUME NEW f \in Flags, ListenSource(f) PROVE CarriedOK'
      <3>1. /\ reader'[f] = "get" /\ view'[f] = Larger(view[f], lockView)
            /\ \A g \in Flags \ {f} : reader'[g] = reader[g] /\ view'[g] = view[g]
          BY <2>0, <2>8 DEF ListenSource, Joined, TypeOK
      <3>2. kind = "CellWithLocal" /\ ~Pending(f) => lockView = Now
          BY <2>0, <2>8 DEF ListenSource, ReadLocked, Pending, LocalOK
      <3>3. lockView = Now => view'[f] = Now
          BY <2>0, <3>1 DEF Larger
      <3>4. Now' = Now
          BY <2>8 DEF ListenSource, Now
      <3>. QED BY <2>8, <2>r, <3>1, <3>2, <3>3, <3>4 DEF ListenSource, Fresh
    <2>9. ASSUME NEW f \in Flags, GetAndClear(f) PROVE CarriedOK'
      <3>1. /\ reader[f] = "idle" /\ reader'[f] = "get"
            /\ view'[f] = Larger(view[f], flag[f].view)
            /\ \A g \in Flags \ {f} : /\ reader'[g] = reader[g] /\ view'[g] = view[g]
                                      /\ flag'[g] = flag[g]
          BY <2>0, <2>9 DEF GetAndClear, Joined, TypeOK
      <3>2. seen[f] = Now => view[f] = Now
          BY <2>0, <3>1 DEF CarriedOK
      <3>3. view[f] = Now \/ flag[f].view = Now => view'[f] = Now
          BY <2>0, <3>1 DEF Larger
      <3>4. kind = "CellWithLocal" /\ ~armed[f] /\ ~Pending(f) => view'[f] = Now
          BY <3>1, <3>2, <3>3 DEF CarriedOK, Fresh
      <3>5. Now' = Now
          BY <2>9 DEF GetAndClear, Now
      <3>. QED BY <2>9, <2>r, <3>1, <3>4, <3>5 DEF GetAndClear, Fresh
    <2>10. ASSUME NEW f \in Flags, Get(f) PROVE CarriedOK'
      <3>1. PICK i \in AtomicReads(f) \cup LockReads :
               /\ seen' = [seen EXCEPT ![f] = i]
               /\ view' = [view EXCEPT ![f] = i]
          BY <2>10 DEF Get
      <3>2. view[f] = Now => i = Now
          BY <2>0, <3>1 DEF AtomicReads, LockReads
      <3>3. /\ reader[f] = "get" /\ reader'[f] = "idle" /\ seen'[f] = i /\ view'[f] = i
            /\ \A g \in Flags \ {f} : /\ reader'[g] = reader[g] /\ view'[g] = view[g]
                                      /\ seen'[g] = seen[g]
          BY <2>0, <2>10, <3>1 DEF Get, TypeOK
      <3>4. i \in Nat
          BY <2>0, <3>1 DEF AtomicReads, LockReads
      <3>5. Now' = Now
          BY <2>10 DEF Get, Now
      <3>6. kind = "CellWithLocal" /\ ~armed[f] /\ ~Pending(f) =>
              i = Now \/ (flag[f].value /\ flag[f].view = Now)
          BY <3>2, <3>3 DEF CarriedOK, Fresh
      <3>7. seen'[f] <= view'[f]
          BY <3>3, <3>4
      <3>. QED BY <2>10, <2>r, <3>3, <3>5, <3>6, <3>7 DEF Get, Fresh
    <2>11. ASSUME NEW f \in Flags, SetFlag(f) PROVE CarriedOK'
      <3>1. armed'[f] /\ \A g \in Flags \ {f} : flag'[g] = flag[g] /\ armed'[g] = armed[g]
          BY <2>11 DEF SetFlag, TypeOK
      <3>2. reader[f] = "idle" => seen[f] <= view[f]
          BY DEF CarriedOK
      <3>. QED BY <2>11, <2>r, <3>1, <3>2 DEF SetFlag
    <2>12. CASE UNCHANGED vars
      <3>1. Now' = Now /\ \A f \in Flags : (Pending(f)' <=> Pending(f)) /\ (Fresh(f)' <=> Fresh(f))
          BY <2>12, <2>p DEF vars, Now, Fresh
      <3>. QED BY <2>12, <3>1 DEF CarriedOK, vars
    <2>. QED
        BY <2>1, <2>2, <2>3, <2>4, <2>5, <2>6, <2>7, <2>8, <2>9, <2>10, <2>11, <2>12
           DEF Next, WriterStep, ReaderStep
  <1>. QED BY <1>1, <1>2, TypeCorrect, LockedInvariant, LocalInvariant, PTL DEF Spec

(* NoChangeUnnoticed: with the value under a lock, or with one set() at a time *)
(* and no other thread to set the flag, a clear flag means that the reader has *)
(* the current value (simple_listeners.rs:160-164, load_store.rs, cell.rs).    *)
THEOREM NoChangeUnnoticedHolds == Spec => []NoChangeUnnoticed
  <1>1. TypeOK /\ LockedOK /\ CarriedOK => NoChangeUnnoticed
    <2> SUFFICES ASSUME TypeOK, LockedOK, CarriedOK, NEW f \in Flags, AllQuiet, AtRest(f),
                        storage = "lock" \/ (kind = "CellWithLocal" /\ ~armed[f])
                 PROVE  seen[f] = Now
        BY DEF NoChangeUnnoticed, UpToDate
    <2>1. ~Pending(f)
        BY DEF AllQuiet, Pending
    <2>2. CASE storage = "lock"
        BY <2>1, <2>2 DEF LockedOK
    <2>3. CASE kind = "CellWithLocal" /\ ~armed[f]
        BY <2>1, <2>3 DEF CarriedOK, AtRest, Fresh
    <2>. QED BY <2>2, <2>3
  <1>. QED BY <1>1, TypeCorrect, LockedInvariant, CarriedInvariant, PTL
==============================================================================
