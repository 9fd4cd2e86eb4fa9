---------------------------- MODULE NotifierProofs ----------------------------
(* Theorems about Notifier, for every number of threads and listeners. *)
EXTENDS Notifier, FiniteSetTheorems, TLAPS

USE NotifierAssumption

(* swap_remove yields a vector over the same entries, shorter by one. *)
LEMMA SwapRemoveType ==
    ASSUME NEW S, NEW s \in Seq(S), NEW i \in 1..Len(s)
    PROVE  /\ SwapRemove(s, i) \in Seq(S)
           /\ Len(SwapRemove(s, i)) = Len(s) - 1
           /\ DOMAIN SwapRemove(s, i) = 1..Len(s) - 1
           /\ \A j \in 1..Len(s) - 1 :
                SwapRemove(s, i)[j] = IF j = i THEN s[Len(s)] ELSE s[j]
  BY DEF SwapRemove

(* Replacing one element of a vector keeps its type and its length. *)
LEMMA ExceptType ==
    ASSUME NEW S, NEW s \in Seq(S), NEW i \in 1..Len(s), NEW e \in S
    PROVE  /\ [s EXCEPT ![i] = e] \in Seq(S)
           /\ Len([s EXCEPT ![i] = e]) = Len(s)
  OBVIOUS

(* push yields a vector over the same type, longer by one. *)
LEMMA AppendType ==
    ASSUME NEW S, NEW s \in Seq(S), NEW e \in S
    PROVE  /\ Append(s, e) \in Seq(S)
           /\ Len(Append(s, e)) = Len(s) + 1
  OBVIOUS

(* Every index inside the vector reads an entry with a listener in it. *)
LEMMA EntryType ==
    ASSUME listeners \in Seq(Entries)
    PROVE  \A j \in 1..Len(listeners) :
             listeners[j] \in Entries /\ listeners[j].listener \in Listeners
<1> TAKE j \in 1..Len(listeners)
<1>1. listeners[j] \in Entries
  OBVIOUS
<1> QED
  BY <1>1 DEF Entries

(* fetch_and on was_alive yields an entry for the same listener. *)
LEMMA FetchAndType ==
    ASSUME NEW e \in Entries, NEW a \in BOOLEAN
    PROVE  /\ FetchAnd(e, a) \in Entries
           /\ FetchAnd(e, a).listener = e.listener
           /\ FetchAnd(e, a).wasAlive = (e.wasAlive /\ a)
<1>1. e = [listener |-> e.listener, wasAlive |-> e.wasAlive]
      /\ e.listener \in Listeners /\ e.wasAlive \in BOOLEAN
  BY DEF Entries
<1>2. FetchAnd(e, a) = [listener |-> e.listener, wasAlive |-> e.wasAlive /\ a]
  BY <1>1 DEF FetchAnd
<1>3. (e.wasAlive /\ a) \in BOOLEAN
  BY <1>1
<1> QED
  BY <1>1, <1>2, <1>3 DEF Entries

(* A new notifier and idle threads are well typed. *)
LEMMA InitTypeOK == Init => TypeOK
  BY DEF Init, TypeOK, DataOK, ThreadOK, LockOK, CursorOK, PCs, Calls

(* Steps keep the types of the vector, the listeners and the history. *)
LEMMA NextData ==
    ASSUME TypeOK, [Next]_vars
    PROVE  DataOK'
<1> USE DEF TypeOK, DataOK, vector, lock, threads, clients, history
<1>1. CASE UNCHANGED vars
  BY <1>1 DEF vars
<1>2. ASSUME NEW t \in Threads, BeginCall(t)
      PROVE  DataOK'
  BY <1>2 DEF BeginCall, BeginNotify, BeginCount, BeginClose, BeginListen, Begin
<1>3. ASSUME NEW t \in Threads, Step(t)
      PROVE  DataOK'
  <2>1. CASE AcquireRead(t) \/ NotifyClosed(t) \/ NotifyReturn(t)
    BY <2>1 DEF AcquireRead, NotifyClosed, NotifyReturn
  <2>2. CASE Send(t)
    <3>1. listeners[index[t]] \in Entries
      BY <2>2 DEF Send, ThreadOK
    <3> QED
      BY <2>2, <3>1 DEF Send, Entries
  <2>3. CASE Mark(t)
    <3>1. /\ index[t] \in 1..Len(listeners)
          /\ answer[t] \in BOOLEAN
      BY <2>3 DEF Mark, ThreadOK, CursorOK
    <3>2. FetchAnd(listeners[index[t]], answer[t]) \in Entries
      BY <3>1, EntryType, FetchAndType
    <3>3. listeners' \in Seq(Entries) /\ Len(listeners') = Len(listeners)
      BY <2>3, <3>1, <3>2, ExceptType DEF Mark
    <3>4. listeners # <<>>
      BY <3>1
    <3> QED
      BY <2>3, <3>3, <3>4 DEF Mark
  <2>4. CASE AcquireWrite(t)
    <3>1. AliveRegistered \in SUBSET Listeners
      BY EntryType DEF AliveRegistered, Registered
    <3>2. Cardinality(AliveRegistered) \in Nat
      BY <3>1, FS_CardinalityType, FS_Subset
    <3>3. peak' \in Nat /\ census' \in SUBSET Listeners
      BY <2>4, <3>1, <3>2 DEF AcquireWrite
    <3> QED
      BY <2>4, <3>3 DEF AcquireWrite
  <2>5. CASE CallClosed(t)
    BY <2>5 DEF CallClosed
  <2>10. CASE Close(t)
    <3>1. listeners' = <<>> /\ capacity' = 0 /\ refused' = {}
      BY <2>10 DEF Close
    <3>2. listeners' \in Seq(Entries)
      BY <3>1
    <3>3. Len(listeners') <= capacity'
      BY <3>1
    <3>4. UNCHANGED <<alive, held, census, peak>>
      BY <2>10 DEF Close
    <3>5. open' \in BOOLEAN
      BY <2>10 DEF Close
    <3> QED
      BY <3>1, <3>2, <3>3, <3>4, <3>5
  <2>6. CASE ListenDead(t) \/ ListenFull(t)
    BY <2>6 DEF ListenDead, ListenFull, Unlock
  <2>7. CASE ListenPush(t) \/ ReapListen(t)
    <3>1. /\ arg[t] \in Listeners
          /\ Push(t)
          /\ open
      BY <2>7 DEF ListenPush, ReapListen, ThreadOK, LockOK
    <3>2. NewEntry(arg[t]) \in Entries
      BY <3>1 DEF NewEntry, Entries
    <3>3. listeners' \in Seq(Entries) /\ Len(listeners') = Len(listeners) + 1
      BY <3>1, <3>2, AppendType DEF Push
    <3>4. capacity' \in Nat /\ Len(listeners') <= capacity'
      BY <3>1, <3>3 DEF Push, Grown
    <3> QED
      BY <3>1, <3>3, <3>4 DEF Push, Unlock
  <2>8. CASE ReapKeep(t) \/ ReapCount(t)
    BY <2>8 DEF ReapKeep, ReapCount, Unlock
  <2>9. CASE ReapDrop(t)
    BY <2>9, SwapRemoveType DEF ReapDrop, ThreadOK, CursorOK
  <2> QED
    BY <1>3, <2>1, <2>2, <2>3, <2>4, <2>5, <2>10, <2>6, <2>7, <2>8, <2>9 DEF Step
<1>4. ASSUME NEW l \in Listeners, Die(l) \/ Renew(l)
      PROVE  DataOK'
  BY <1>4 DEF Die, Renew
<1> QED
  BY <1>1, <1>2, <1>3, <1>4 DEF Next

(* Steps keep the types of what threads hold in a call. *)
LEMMA NextThread ==
    ASSUME TypeOK, [Next]_vars
    PROVE  ThreadOK'
<1> USE DEF TypeOK, ThreadOK, PCs, Calls, threads
<1>1. CASE UNCHANGED vars
  BY <1>1 DEF vars
<1>2. ASSUME NEW t \in Threads, BeginCall(t)
      PROVE  ThreadOK'
  <2>1. CASE BeginNotify(t) \/ BeginCount(t) \/ BeginClose(t)
    BY <2>1 DEF BeginNotify, BeginCount, BeginClose, Begin
  <2>2. ASSUME NEW l \in Listeners, BeginListen(t, l)
        PROVE  ThreadOK'
    BY <2>2 DEF BeginListen, Begin
  <2> QED
    BY <1>2, <2>1, <2>2 DEF BeginCall
<1>3. ASSUME NEW t \in Threads, Step(t)
      PROVE  ThreadOK'
  <2>1. CASE Send(t)
    <3>1. listeners[index[t]].listener \in Listeners
      BY <2>1, EntryType DEF Send, DataOK
    <3>2. answer' \in [Threads -> BOOLEAN]
      BY <2>1, <3>1 DEF Send, DataOK
    <3> QED
      BY <2>1, <3>2 DEF Send, Goto
  <2>2. CASE Mark(t)
    BY <2>2 DEF Mark, Goto
  <2>3. CASE AcquireRead(t) \/ NotifyClosed(t)
    BY <2>3 DEF AcquireRead, NotifyClosed, Goto
  <2>4. CASE AcquireWrite(t)
    BY <2>4 DEF AcquireWrite, Goto
  <2>5. CASE NotifyReturn(t) \/ CallClosed(t) \/ Close(t)
    <3>1. Return(t)
      BY <2>5 DEF NotifyReturn, CallClosed, Close
    <3> QED
      BY <3>1 DEF Return
  <2>6. CASE ListenDead(t) \/ ListenPush(t) \/ ReapListen(t) \/ ReapCount(t)
    <3>1. Return(t)
      BY <2>6 DEF ListenDead, ListenPush, ReapListen, ReapCount, Push, Unlock
    <3> QED
      BY <3>1 DEF Return
  <2>7. CASE ListenFull(t)
    BY <2>7 DEF ListenFull, Goto
  <2>8. CASE ReapKeep(t) \/ ReapDrop(t)
    BY <2>8 DEF ReapKeep, ReapDrop
  <2> QED
    BY <1>3, <2>1, <2>2, <2>3, <2>4, <2>5, <2>6, <2>7, <2>8 DEF Step
<1>4. ASSUME NEW l \in Listeners, Die(l) \/ Renew(l)
      PROVE  ThreadOK'
  BY <1>4 DEF Die, Renew
<1> QED
  BY <1>1, <1>2, <1>3, <1>4 DEF Next

(* Steps keep the lock exclusive and its guards with those that took them. *)
LEMMA NextLock ==
    ASSUME TypeOK, [Next]_vars
    PROVE  LockOK'
<1> USE DEF TypeOK, LockOK, vector, lock, threads
<1>1. CASE UNCHANGED vars
  BY <1>1 DEF vars
<1>2. ASSUME NEW t \in Threads, BeginCall(t)
      PROVE  LockOK'
  <2>1. PICK c \in Calls : Begin(t, c)
    BY <1>2 DEF BeginCall, BeginNotify, BeginCount, BeginClose, BeginListen, Calls
  <2> QED
    BY <2>1 DEF Begin, ThreadOK
<1>3. ASSUME NEW t \in Threads, Step(t)
      PROVE  LockOK'
  <2>1. CASE AcquireRead(t) \/ NotifyClosed(t)
    BY <2>1 DEF AcquireRead, NotifyClosed, Goto, ReadFree, ThreadOK
  <2>2. CASE Send(t) \/ Mark(t)
    BY <2>2 DEF Send, Mark, Goto, ThreadOK
  <2>3. CASE AcquireWrite(t)
    BY <2>3 DEF AcquireWrite, Goto, WriteFree, ThreadOK
  <2>4. CASE NotifyReturn(t)
    BY <2>4 DEF NotifyReturn, Return, ThreadOK
  <2>5. CASE CallClosed(t) \/ Close(t)
    BY <2>5 DEF CallClosed, Close, Return, WriteFree, ThreadOK
  <2>6. CASE ListenDead(t) \/ ListenPush(t) \/ ReapListen(t) \/ ReapCount(t)
    <3>1. /\ pc[t] \in {"ask", "reap"} /\ pc' = [pc EXCEPT ![t] = "idle"]
          /\ writer' = None /\ UNCHANGED <<readers, open>>
      BY <2>6 DEF ListenDead, ListenPush, ReapListen, ReapCount, Push, Unlock, Return
    <3>2. writer = t /\ readers = {}
      BY <3>1
    <3>3. pc \in [Threads -> PCs]
      BY DEF ThreadOK
    <3>4. \A u \in Threads : pc'[u] \notin {"ask", "reap", "send", "mark"}
      BY <3>1, <3>2, <3>3
    <3> QED
      BY <3>1, <3>2, <3>4
  <2>7. CASE ListenFull(t) \/ ReapKeep(t) \/ ReapDrop(t)
    BY <2>7 DEF ListenFull, ReapKeep, ReapDrop, Goto, ThreadOK
  <2> QED
    BY <1>3, <2>1, <2>2, <2>3, <2>4, <2>5, <2>6, <2>7 DEF Step
<1>4. ASSUME NEW l \in Listeners, Die(l) \/ Renew(l)
      PROVE  LockOK'
  BY <1>4 DEF Die, Renew
<1> QED
  BY <1>1, <1>2, <1>3, <1>4 DEF Next

(* Steps keep every cursor inside the vector its call walks. *)
LEMMA NextCursor ==
    ASSUME TypeOK, [Next]_vars
    PROVE  CursorOK'
<1> USE DEF TypeOK, CursorOK, ThreadOK, vector, threads
<1>1. CASE UNCHANGED vars
  BY <1>1 DEF vars
<1>2. ASSUME NEW t \in Threads, BeginCall(t)
      PROVE  CursorOK'
  BY <1>2 DEF BeginCall, BeginNotify, BeginCount, BeginClose, BeginListen, Begin
<1>3. ASSUME NEW t \in Threads, Step(t)
      PROVE  CursorOK'
  <2>0. Len(listeners) \in Nat
    BY DEF DataOK
  <2>1. CASE AcquireRead(t) \/ NotifyClosed(t) \/ AcquireWrite(t) \/ ListenFull(t)
    BY <2>0, <2>1 DEF AcquireRead, NotifyClosed, AcquireWrite, ListenFull, Goto
  <2>2. CASE Send(t)
    BY <2>0, <2>2 DEF Send, Goto
  <2>3. CASE Mark(t)
    <3>1. Len(listeners') = Len(listeners)
      BY <2>3 DEF Mark, DataOK
    <3> QED
      BY <2>0, <2>3, <3>1 DEF Mark, Goto
  <2>4. CASE NotifyReturn(t) \/ CallClosed(t)
    BY <2>0, <2>4 DEF NotifyReturn, CallClosed, Return
  <2>5. CASE Close(t)
    BY <2>0, <2>5 DEF Close, Return, WriteFree, LockOK
  <2>6. CASE ListenDead(t) \/ ReapCount(t)
    BY <2>0, <2>6 DEF ListenDead, ReapCount, Unlock, Return
  <2>7. CASE ListenPush(t) \/ ReapListen(t)
    <3>1. Len(listeners') = Len(listeners) + 1
      BY <2>7 DEF ListenPush, ReapListen, Push, DataOK
    <3> QED
      BY <2>0, <2>7, <3>1 DEF ListenPush, ReapListen, Push, Unlock, Return
  <2>8. CASE ReapKeep(t)
    BY <2>0, <2>8 DEF ReapKeep
  <2>9. CASE ReapDrop(t)
    <3>1. index[t] \in 1..Len(listeners)
      BY <2>0, <2>9 DEF ReapDrop
    <3>2. Len(listeners') = Len(listeners) - 1
      BY <2>9, <3>1, SwapRemoveType DEF ReapDrop, DataOK
    <3>3. \A u \in Threads : u # t => pc[u] \notin {"send", "mark", "reap"}
      BY <2>9 DEF ReapDrop, LockOK
    <3> QED
      BY <2>0, <2>9, <3>1, <3>2, <3>3 DEF ReapDrop
  <2> QED
    BY <1>3, <2>1, <2>2, <2>3, <2>4, <2>5, <2>6, <2>7, <2>8, <2>9 DEF Step
<1>4. ASSUME NEW l \in Listeners, Die(l) \/ Renew(l)
      PROVE  CursorOK'
  BY <1>4 DEF Die, Renew
<1> QED
  BY <1>1, <1>2, <1>3, <1>4 DEF Next

(* The lock is exclusive for writers and no cursor runs off the vector:    *)
(* notify_many and drop_dead_listeners index safely, for any number of     *)
(* threads and listeners.                                                  *)
THEOREM TypeCorrect == Spec => []TypeOK
<1>1. TypeOK /\ [Next]_vars => TypeOK'
  BY NextData, NextThread, NextLock, NextCursor DEF TypeOK
<1> QED
  BY InitTypeOK, <1>1, PTL DEF Spec

------------------------------------------------------------------------------
(* What the steps that touch the vector do to its entries. *)

(* A fetch_and changes the flag under the cursor and nothing else. *)
LEMMA MarkEffect ==
    ASSUME TypeOK, NEW t \in Threads, Mark(t)
    PROVE  /\ index[t] \in DOMAIN listeners
           /\ DOMAIN listeners' = DOMAIN listeners
           /\ \A j \in DOMAIN listeners :
                /\ listeners'[j].listener = listeners[j].listener
                /\ j # index[t] => listeners'[j] = listeners[j]
           /\ listeners'[index[t]].wasAlive = (listeners[index[t]].wasAlive /\ answer[t])
           /\ Registered' = Registered
<1>1. index[t] \in 1..Len(listeners) /\ answer[t] \in BOOLEAN
  BY DEF TypeOK, ThreadOK, CursorOK, Mark
<1>2. listeners \in Seq(Entries)
  BY DEF TypeOK, DataOK
<1>3. listeners' = [listeners EXCEPT ![index[t]] = FetchAnd(listeners[index[t]], answer[t])]
  BY DEF Mark
<1>4. /\ DOMAIN listeners' = DOMAIN listeners
      /\ listeners'[index[t]] = FetchAnd(listeners[index[t]], answer[t])
      /\ \A j \in DOMAIN listeners : j # index[t] => listeners'[j] = listeners[j]
  BY <1>1, <1>2, <1>3
<1>5. /\ listeners'[index[t]].listener = listeners[index[t]].listener
      /\ listeners'[index[t]].wasAlive = (listeners[index[t]].wasAlive /\ answer[t])
  BY <1>1, <1>2, <1>4, EntryType, FetchAndType
<1>6. \A j \in DOMAIN listeners : listeners'[j].listener = listeners[j].listener
  BY <1>4, <1>5
<1>7. Registered' = Registered
  BY <1>4, <1>6 DEF Registered
<1> QED
  BY <1>1, <1>2, <1>4, <1>5, <1>6, <1>7

(* A push leaves the entries where they are and adds the caller's listener. *)
LEMMA PushEffect ==
    ASSUME TypeOK, NEW t \in Threads, ListenPush(t) \/ ReapListen(t)
    PROVE  /\ arg[t] \in Listeners
           /\ writer = t
           /\ DOMAIN listeners = 1..Len(listeners)
           /\ DOMAIN listeners' = 1..Len(listeners) + 1
           /\ \A j \in DOMAIN listeners : listeners'[j] = listeners[j]
           /\ listeners'[Len(listeners) + 1] = [listener |-> arg[t], wasAlive |-> TRUE]
           /\ Registered' = Registered \cup {arg[t]}
<1>1. arg[t] \in Listeners /\ writer = t
  BY DEF TypeOK, ThreadOK, LockOK, ListenPush, ReapListen
<1>2. listeners \in Seq(Entries) /\ listeners' = Append(listeners, NewEntry(arg[t]))
  BY DEF TypeOK, DataOK, ListenPush, ReapListen, Push
<1>3. /\ DOMAIN listeners = 1..Len(listeners)
      /\ DOMAIN listeners' = 1..Len(listeners) + 1
      /\ \A j \in DOMAIN listeners : listeners'[j] = listeners[j]
      /\ listeners'[Len(listeners) + 1] = NewEntry(arg[t])
  BY <1>2
<1>4. Len(listeners) \in Nat
  BY <1>2
<1>5. listeners'[Len(listeners) + 1] = [listener |-> arg[t], wasAlive |-> TRUE]
  BY <1>3 DEF NewEntry
<1>6. Registered' = Registered \cup {arg[t]}
  <2>1. ASSUME NEW l \in Registered'
        PROVE  l \in Registered \cup {arg[t]}
    <3>1. PICK j \in 1..Len(listeners) + 1 : l = listeners'[j].listener
      BY <1>3 DEF Registered
    <3>2. CASE j = Len(listeners) + 1
      BY <1>5, <3>1, <3>2
    <3>3. CASE j \in DOMAIN listeners
      BY <1>3, <3>1, <3>3 DEF Registered
    <3> QED
      BY <1>3, <1>4, <3>2, <3>3
  <2>2. arg[t] \in Registered'
    <3>1. Len(listeners) + 1 \in DOMAIN listeners'
      BY <1>3, <1>4
    <3>2. arg[t] = listeners'[Len(listeners) + 1].listener
      BY <1>5
    <3> QED
      BY <3>1, <3>2 DEF Registered
  <2>3. ASSUME NEW l \in Registered
        PROVE  l \in Registered'
    <3>1. PICK j \in DOMAIN listeners : l = listeners[j].listener
      BY DEF Registered
    <3>2. j \in DOMAIN listeners' /\ l = listeners'[j].listener
      BY <1>3, <1>4, <3>1
    <3> QED
      BY <3>2 DEF Registered
  <2> QED
    BY <2>1, <2>2, <2>3
<1> QED
  BY <1>1, <1>3, <1>5, <1>6

(* The entry under the cursor goes, and no other: the last one, which       *)
(* swap_remove moves under the cursor, stays registered.                    *)
LEMMA ReapDropEffect ==
    ASSUME TypeOK, OneOwner, NEW t \in Threads, ReapDrop(t)
    PROVE  /\ index[t] \in DOMAIN listeners
           /\ writer = t
           /\ DOMAIN listeners = 1..Len(listeners)
           /\ DOMAIN listeners' = 1..Len(listeners) - 1
           /\ \A j \in DOMAIN listeners' :
                listeners'[j] = IF j = index[t] THEN listeners[Len(listeners)] ELSE listeners[j]
           /\ Registered' = Registered \ {listeners[index[t]].listener}
<1>1. index[t] \in 1..Len(listeners) /\ writer = t
  BY DEF TypeOK, ThreadOK, LockOK, ReapDrop
<1>2. listeners \in Seq(Entries) /\ listeners' = SwapRemove(listeners, index[t])
  BY DEF TypeOK, DataOK, ReapDrop
<1>3. /\ DOMAIN listeners = 1..Len(listeners)
      /\ DOMAIN listeners' = 1..Len(listeners) - 1
      /\ \A j \in DOMAIN listeners' :
           listeners'[j] = IF j = index[t] THEN listeners[Len(listeners)] ELSE listeners[j]
      /\ Len(listeners) \in Nat
  <2>1. Len(listeners) \in Nat /\ DOMAIN listeners = 1..Len(listeners)
    BY <1>2
  <2> QED
    BY <1>1, <1>2, <2>1 DEF SwapRemove
<1>4. \A j, k \in DOMAIN listeners :
        listeners[j].listener = listeners[k].listener => j = k
  BY DEF OneOwner
<1>5. ASSUME NEW l \in Registered'
      PROVE  l \in Registered /\ l # listeners[index[t]].listener
  <2>1. PICK j \in DOMAIN listeners' : l = listeners'[j].listener
    BY DEF Registered
  <2>2. PICK k \in DOMAIN listeners : k # index[t] /\ l = listeners[k].listener
    BY <1>1, <1>3, <2>1
  <2> QED
    BY <1>1, <1>3, <1>4, <2>2 DEF Registered
<1>6. ASSUME NEW l \in Registered, l # listeners[index[t]].listener
      PROVE  l \in Registered'
  <2>1. PICK k \in DOMAIN listeners : l = listeners[k].listener
    BY DEF Registered
  <2>2. PICK j \in DOMAIN listeners' : l = listeners'[j].listener
    <3>1. CASE k = Len(listeners)
      BY <1>1, <1>3, <1>6, <2>1, <3>1
    <3>2. CASE k # Len(listeners)
      BY <1>1, <1>3, <1>6, <2>1, <3>2
    <3> QED
      BY <3>1, <3>2
  <2> QED
    BY <2>2 DEF Registered
<1>7. Registered' = Registered \ {listeners[index[t]].listener}
  BY <1>5, <1>6
<1> QED
  BY <1>1, <1>3, <1>7

------------------------------------------------------------------------------
(* A listener value has one owner. *)

(* A new notifier has no entries, and every listener is free. *)
LEMMA InitOneOwner == Init => OneOwner
  BY DEF Init, OneOwner, Registered, InTransit

(* The steps that leave the entries, the arguments and held alone. *)
LEMMA StillSteps ==
    ASSUME NEW t \in Threads,
           \/ AcquireRead(t) \/ NotifyClosed(t) \/ Send(t) \/ AcquireWrite(t)
           \/ ListenFull(t) \/ ReapKeep(t)
    PROVE  UNCHANGED <<open, listeners, arg, alive, held>>
  BY DEF AcquireRead, NotifyClosed, Send, AcquireWrite, ListenFull, ReapKeep, Goto,
         vector, clients

(* No step gives a listener a second owner. *)
LEMMA NextOneOwner ==
    ASSUME TypeOK, OneOwner, [Next]_vars
    PROVE  OneOwner'
<1>0. arg \in [Threads -> Listeners \cup {None}]
  BY DEF TypeOK, ThreadOK
<1>1. ASSUME UNCHANGED <<listeners, arg, held>>
      PROVE  OneOwner'
  BY <1>1 DEF OneOwner, Registered, InTransit
<1>2. ASSUME NEW t \in Threads, BeginCall(t)
      PROVE  OneOwner'
  <2>1. CASE BeginNotify(t) \/ BeginCount(t) \/ BeginClose(t)
    BY <1>1, <2>1 DEF BeginNotify, BeginCount, BeginClose, Begin, vector
  <2>2. ASSUME NEW l \in Listeners, BeginListen(t, l)
        PROVE  OneOwner'
    <3>1. /\ l \in held
          /\ held' = held \ {l}
          /\ arg' = [arg EXCEPT ![t] = l]
          /\ listeners' = listeners
      BY <2>2 DEF BeginListen, Begin, vector
    <3>2. l \notin InTransit /\ l \notin Registered /\ l # None
      BY <3>1 DEF OneOwner
    <3>3. InTransit' \subseteq InTransit \cup {l} /\ Registered' = Registered
      BY <1>0, <3>1 DEF InTransit, Registered
    <3>4. \A u \in Threads : arg[u] # l
      BY <3>2 DEF InTransit
    <3> QED
      BY <1>0, <3>1, <3>2, <3>3, <3>4 DEF OneOwner
  <2> QED
    BY <1>2, <2>1, <2>2 DEF BeginCall
<1>3. ASSUME NEW t \in Threads, Step(t)
      PROVE  OneOwner'
  <2>1. CASE \/ AcquireRead(t) \/ NotifyClosed(t) \/ Send(t) \/ AcquireWrite(t)
             \/ ListenFull(t) \/ ReapKeep(t)
    BY <1>1, <2>1, StillSteps
  <2>2. CASE Mark(t)
    <3>1. arg' = arg /\ held' = held
      BY <2>2 DEF Mark, Goto, clients
    <3> QED
      BY <2>2, <3>1, MarkEffect DEF OneOwner, InTransit
  <2>3. CASE NotifyReturn(t) \/ CallClosed(t) \/ ListenDead(t) \/ ReapCount(t)
    <3>1. /\ listeners' = listeners /\ held' = held
          /\ arg' = [arg EXCEPT ![t] = None]
      BY <2>3 DEF NotifyReturn, CallClosed, ListenDead, ReapCount, Unlock, Return,
                  vector, clients
    <3>2. InTransit' \subseteq InTransit /\ Registered' = Registered
      BY <1>0, <3>1 DEF InTransit, Registered
    <3> QED
      BY <1>0, <3>1, <3>2 DEF OneOwner
  <2>4. CASE Close(t)
    <3>1. /\ listeners' = <<>> /\ held' = held
          /\ arg' = [arg EXCEPT ![t] = None]
      BY <2>4 DEF Close, Return, clients
    <3>2. InTransit' \subseteq InTransit /\ Registered' = {}
      BY <1>0, <3>1 DEF InTransit, Registered
    <3> QED
      BY <1>0, <3>1, <3>2 DEF OneOwner
  <2>5. CASE ListenPush(t) \/ ReapListen(t)
    <3>0. /\ arg[t] \in Listeners
          /\ Len(listeners) \in Nat
          /\ DOMAIN listeners = 1..Len(listeners)
          /\ DOMAIN listeners' = 1..Len(listeners) + 1
          /\ \A j \in DOMAIN listeners : listeners'[j] = listeners[j]
          /\ listeners'[Len(listeners) + 1].listener = arg[t]
          /\ Registered' = Registered \cup {arg[t]}
      <4>1. /\ arg[t] \in Listeners
            /\ DOMAIN listeners = 1..Len(listeners)
            /\ DOMAIN listeners' = 1..Len(listeners) + 1
            /\ \A j \in DOMAIN listeners : listeners'[j] = listeners[j]
            /\ listeners'[Len(listeners) + 1] = [listener |-> arg[t], wasAlive |-> TRUE]
            /\ Registered' = Registered \cup {arg[t]}
        BY <2>5, PushEffect
      <4>2. Len(listeners) \in Nat
        BY DEF TypeOK, DataOK
      <4> QED
        BY <4>1, <4>2
    <3>1. held' = held /\ arg' = [arg EXCEPT ![t] = None]
      BY <2>5 DEF ListenPush, ReapListen, Push, Unlock, Return, clients
    <3>2. /\ arg[t] \in InTransit
          /\ InTransit' = InTransit \ {arg[t]}
          /\ Registered' = Registered \cup {arg[t]}
      <4>1. arg[t] # None /\ \A u \in Threads : u # t => arg[u] # arg[t]
        BY <3>0 DEF OneOwner, TypeOK, DataOK
      <4> QED
        BY <1>0, <3>0, <3>1, <4>1 DEF InTransit
    <3>3. \A j \in DOMAIN listeners : listeners[j].listener # arg[t]
      BY <3>2 DEF OneOwner, Registered
    <3>4. \A j, k \in DOMAIN listeners' :
            listeners'[j].listener = listeners'[k].listener => j = k
      <4> SUFFICES ASSUME NEW j \in DOMAIN listeners', NEW k \in DOMAIN listeners',
                          listeners'[j].listener = listeners'[k].listener
                   PROVE  j = k
        OBVIOUS
      <4>1. /\ j \in DOMAIN listeners \/ j = Len(listeners) + 1
            /\ k \in DOMAIN listeners \/ k = Len(listeners) + 1
        BY <3>0
      <4> QED
        BY <3>0, <3>3, <4>1 DEF OneOwner
    <3> QED
      BY <1>0, <3>1, <3>2, <3>4 DEF OneOwner
  <2>6. CASE ReapDrop(t)
    <3>1. held' = held /\ arg' = arg
      BY <2>6 DEF ReapDrop, clients, threads
    <3>2. Registered' \subseteq Registered /\ InTransit' = InTransit
      BY <2>6, <3>1, ReapDropEffect DEF InTransit
    <3>3. Len(listeners) \in Nat
      BY DEF TypeOK, DataOK
    <3>4. \A j, k \in DOMAIN listeners' :
            listeners'[j].listener = listeners'[k].listener => j = k
      BY <2>6, <3>3, ReapDropEffect DEF OneOwner
    <3> QED
      BY <3>1, <3>2, <3>4 DEF OneOwner
  <2> QED
    BY <1>3, <2>1, <2>2, <2>3, <2>4, <2>5, <2>6 DEF Step
<1>4. ASSUME NEW l \in Listeners, Die(l)
      PROVE  OneOwner'
  BY <1>1, <1>4 DEF Die, vector, threads
<1>5. ASSUME NEW l \in Listeners, Renew(l)
      PROVE  OneOwner'
  BY <1>5 DEF Renew, OneOwner, Registered, InTransit, vector, threads
<1> QED
  BY <1>1, <1>2, <1>3, <1>4, <1>5 DEF Next, vars

(* swap_remove under a walking cursor, push and close never leave two       *)
(* entries for one listener, nor a listener with two owners.                *)
THEOREM OneOwnerHolds == Spec => []OneOwner
<1>1. TypeOK /\ OneOwner /\ [Next]_vars => OneOwner'
  BY NextOneOwner
<1> QED
  BY InitOneOwner, <1>1, TypeCorrect, PTL DEF Spec

------------------------------------------------------------------------------
(* was_alive tells the truth, and so no alive listener is lost. *)

FlagsOK == RefusedOK /\ WasAliveTracksReceive

(* A new notifier has no flags and no answers. *)
LEMMA InitFlags == Init => FlagsOK
  BY DEF Init, FlagsOK, RefusedOK, WasAliveTracksReceive, Registered

(* Steps that leave alone what the flags are about. *)
LEMMA FlagsKept ==
    ASSUME FlagsOK,
           UNCHANGED <<listeners, alive, refused>>,
           \A u \in Threads :
             /\ pc'[u] = "mark" <=> pc[u] = "mark"
             /\ pc[u] = "mark" => index'[u] = index[u] /\ answer'[u] = answer[u]
    PROVE  FlagsOK'
  BY DEF FlagsOK, RefusedOK, WasAliveTracksReceive, Registered

(* A writer sees no reader between an answer and its fetch_and. *)
LEMMA WriterAlone ==
    ASSUME TypeOK, NEW t \in Threads, writer = t \/ WriteFree
    PROVE  \A u \in Threads : pc[u] # "mark"
  BY DEF TypeOK, LockOK, WriteFree

(* No step makes a flag disagree with the answers its listener gave. *)
LEMMA NextFlags ==
    ASSUME TypeOK, OneOwner, FlagsOK, [Next]_vars
    PROVE  FlagsOK'
<1>0. /\ pc \in [Threads -> PCs] /\ index \in [Threads -> Nat \ {0}]
      /\ answer \in [Threads -> BOOLEAN] /\ alive \in [Listeners -> BOOLEAN]
      /\ listeners \in Seq(Entries) /\ DOMAIN listeners = 1..Len(listeners)
      /\ Registered \subseteq Listeners
  BY EntryType DEF TypeOK, ThreadOK, DataOK, Registered
<1>1. CASE UNCHANGED vars
  BY <1>1, FlagsKept DEF vars
<1>2. ASSUME NEW t \in Threads, BeginCall(t)
      PROVE  FlagsOK'
  <2>1. PICK c \in Calls : Begin(t, c)
    BY <1>2 DEF BeginCall, BeginNotify, BeginCount, BeginClose, BeginListen, Calls
  <2> QED
    BY <1>0, <2>1, FlagsKept DEF Begin, vector, history
<1>3. ASSUME NEW t \in Threads, Step(t)
      PROVE  FlagsOK'
  <2>1. CASE \/ AcquireRead(t) \/ NotifyClosed(t) \/ AcquireWrite(t) \/ ListenFull(t)
             \/ ReapKeep(t)
    BY <1>0, <2>1, FlagsKept
       DEF AcquireRead, NotifyClosed, AcquireWrite, ListenFull, ReapKeep, Goto,
           vector, clients, history
  <2>2. CASE NotifyReturn(t) \/ CallClosed(t) \/ ListenDead(t) \/ ReapCount(t)
    BY <1>0, <2>2, FlagsKept
       DEF NotifyReturn, CallClosed, ListenDead, ReapCount, Unlock, Return,
           vector, clients, history
  <2>3. CASE Send(t)
    <3> DEFINE l == listeners[index[t]].listener
    <3>1. /\ UNCHANGED <<listeners, alive, index>>
          /\ pc' = [pc EXCEPT ![t] = "mark"]
          /\ answer' = [answer EXCEPT ![t] = alive[l]]
          /\ refused' = IF alive[l] THEN refused ELSE refused \cup {l}
          /\ pc[t] = "send"
          /\ index[t] \in DOMAIN listeners
      BY <1>0, <2>3 DEF Send, Goto, vector, clients
    <3>2. l \in Registered /\ Registered' = Registered /\ l \in Listeners
      BY <1>0, <3>1 DEF Registered
    <3>3. RefusedOK'
      BY <1>0, <3>1, <3>2 DEF FlagsOK, RefusedOK
    <3>4. ASSUME NEW j \in DOMAIN listeners, listeners[j].listener \in refused'
          PROVE  \/ ~listeners[j].wasAlive
                 \/ \E u \in Threads : pc'[u] = "mark" /\ index'[u] = j /\ ~answer'[u]
      <4>1. CASE listeners[j].listener \in refused
        BY <1>0, <3>1, <4>1 DEF FlagsOK, WasAliveTracksReceive
      <4>2. CASE listeners[j].listener \notin refused
        <5>1. listeners[j].listener = l /\ ~alive[l]
          BY <3>1, <3>4, <4>2
        <5>2. j = index[t]
          BY <3>1, <5>1 DEF OneOwner
        <5> QED
          BY <1>0, <3>1, <5>1, <5>2
      <4> QED
        BY <4>1, <4>2
    <3>5. \A j \in DOMAIN listeners :
            ~listeners[j].wasAlive => listeners[j].listener \in refused'
      BY <3>1 DEF FlagsOK, WasAliveTracksReceive
    <3> QED
      BY <3>1, <3>3, <3>4, <3>5 DEF FlagsOK, WasAliveTracksReceive
  <2>4. CASE Mark(t)
    <3>1. /\ UNCHANGED <<alive, answer, refused>>
          /\ pc' = [pc EXCEPT ![t] = "send"]
          /\ index' = [index EXCEPT ![t] = @ + 1]
          /\ pc[t] = "mark"
      BY <2>4 DEF Mark, Goto, clients, history
    <3>2. /\ index[t] \in DOMAIN listeners
          /\ DOMAIN listeners' = DOMAIN listeners
          /\ \A j \in DOMAIN listeners :
               /\ listeners'[j].listener = listeners[j].listener
               /\ j # index[t] => listeners'[j] = listeners[j]
          /\ listeners'[index[t]].wasAlive = (listeners[index[t]].wasAlive /\ answer[t])
          /\ Registered' = Registered
      BY <2>4, MarkEffect
    <3>3. \A u \in Threads : pc[u] = "mark" => index[u] \in DOMAIN listeners
      BY <1>0 DEF TypeOK, CursorOK
    <3>4. RefusedOK'
      BY <1>0, <3>1, <3>2, <3>3 DEF FlagsOK, RefusedOK
    <3>5. ASSUME NEW j \in DOMAIN listeners
          PROVE  /\ ~listeners'[j].wasAlive => listeners[j].listener \in refused
                 /\ listeners[j].listener \in refused =>
                      \/ ~listeners'[j].wasAlive
                      \/ \E u \in Threads : pc'[u] = "mark" /\ index'[u] = j /\ ~answer'[u]
      <4>1. CASE j = index[t] /\ ~answer[t]
        BY <3>1, <3>2, <4>1 DEF FlagsOK, RefusedOK
      <4>2. CASE j = index[t] /\ answer[t]
        <5>0. listeners[j].wasAlive \in BOOLEAN
          <6>1. listeners[j] \in Entries
            BY <1>0
          <6> QED
            BY <6>1 DEF Entries
        <5>1. listeners'[j].wasAlive = listeners[j].wasAlive
          BY <3>2, <4>2, <5>0
        <5>2. \A u \in Threads : ~answer[u] => u # t
          BY <4>2
        <5> QED
          BY <1>0, <3>1, <5>1, <5>2 DEF FlagsOK, WasAliveTracksReceive
      <4>3. CASE j # index[t]
        <5>1. listeners'[j] = listeners[j]
          BY <3>2, <4>3
        <5> QED
          BY <1>0, <3>1, <4>3, <5>1 DEF FlagsOK, WasAliveTracksReceive
      <4> QED
        BY <1>0, <4>1, <4>2, <4>3
    <3> QED
      BY <3>1, <3>2, <3>4, <3>5 DEF FlagsOK, WasAliveTracksReceive
  <2>5. CASE Close(t)
    <3>1. /\ listeners' = <<>> /\ refused' = {}
          /\ pc' = [pc EXCEPT ![t] = "idle"]
          /\ \A u \in Threads : pc[u] # "mark"
      BY <2>5, WriterAlone DEF Close, Return
    <3> QED
      BY <1>0, <3>1 DEF FlagsOK, RefusedOK, WasAliveTracksReceive, Registered
  <2>6. CASE ListenPush(t) \/ ReapListen(t)
    <3>1. /\ UNCHANGED <<alive, refused>>
          /\ pc' = [pc EXCEPT ![t] = "idle"]
          /\ arg[t] \in InTransit
      BY <1>0, <2>6, PushEffect
         DEF ListenPush, ReapListen, Push, Unlock, Return, clients, InTransit, TypeOK, DataOK
    <3>2. /\ Registered' = Registered \cup {arg[t]}
          /\ DOMAIN listeners' = 1..Len(listeners) + 1
          /\ \A j \in DOMAIN listeners : listeners'[j] = listeners[j]
          /\ listeners'[Len(listeners) + 1] = [listener |-> arg[t], wasAlive |-> TRUE]
          /\ \A u \in Threads : pc[u] # "mark"
      BY <2>6, PushEffect, WriterAlone
    <3>3. arg[t] \notin refused
      BY <3>1 DEF FlagsOK, RefusedOK, OneOwner
    <3>4. \A u \in Threads : pc'[u] # "mark"
      BY <1>0, <3>1, <3>2
    <3>5. RefusedOK'
      BY <3>1, <3>2, <3>4 DEF FlagsOK, RefusedOK
    <3>6. \A j \in DOMAIN listeners' : j \in DOMAIN listeners \/ j = Len(listeners) + 1
      BY <1>0, <3>2
    <3> QED
      BY <3>1, <3>2, <3>3, <3>5, <3>6 DEF FlagsOK, WasAliveTracksReceive
  <2>7. CASE ReapDrop(t)
    <3>1. /\ UNCHANGED <<alive, pc, answer, index>>
          /\ refused' = refused \ {listeners[index[t]].listener}
      BY <2>7 DEF ReapDrop, clients, threads
    <3>2. /\ Registered' = Registered \ {listeners[index[t]].listener}
          /\ index[t] \in DOMAIN listeners
          /\ DOMAIN listeners' = 1..Len(listeners) - 1
          /\ \A j \in DOMAIN listeners' :
               listeners'[j] = IF j = index[t] THEN listeners[Len(listeners)] ELSE listeners[j]
          /\ \A u \in Threads : pc[u] # "mark"
      BY <2>7, ReapDropEffect, WriterAlone
    <3>3. RefusedOK'
      BY <3>1, <3>2 DEF FlagsOK, RefusedOK
    <3>4. \A j \in DOMAIN listeners' : \E k \in DOMAIN listeners :
            k # index[t] /\ listeners'[j] = listeners[k]
      <4> TAKE j \in DOMAIN listeners'
      <4>1. Len(listeners) \in Nat
        BY <1>0
      <4>2. CASE j = index[t]
        <5>1. Len(listeners) \in DOMAIN listeners /\ Len(listeners) # index[t]
          BY <1>0, <3>2, <4>1, <4>2
        <5> QED
          BY <3>2, <4>2, <5>1
      <4>3. CASE j # index[t]
        <5>1. j \in DOMAIN listeners
          BY <1>0, <3>2, <4>1
        <5> QED
          BY <3>2, <4>3, <5>1
      <4> QED
        BY <4>2, <4>3
    <3>5. \A k \in DOMAIN listeners :
            k # index[t] => listeners[k].listener # listeners[index[t]].listener
      BY <3>2 DEF OneOwner
    <3> QED
      BY <3>1, <3>2, <3>3, <3>4, <3>5 DEF FlagsOK, WasAliveTracksReceive
  <2> QED
    BY <1>3, <2>1, <2>2, <2>3, <2>4, <2>5, <2>6, <2>7 DEF Step
<1>4. ASSUME NEW l \in Listeners, Die(l)
      PROVE  FlagsOK'
  BY <1>0, <1>4 DEF Die, vector, threads, history, FlagsOK, RefusedOK,
                    WasAliveTracksReceive, Registered
<1>5. ASSUME NEW l \in Listeners, Renew(l)
      PROVE  FlagsOK'
  BY <1>0, <1>5 DEF Renew, vector, threads, history, FlagsOK, RefusedOK,
                    WasAliveTracksReceive, Registered
<1> QED
  BY <1>1, <1>2, <1>3, <1>4, <1>5 DEF Next

(* In every reachable state the flag of an entry is FALSE just when its     *)
(* listener has refused a message and the answer has been recorded, however *)
(* many threads notify at once (notifier.rs:126, 285-297).                  *)
THEOREM FlagsHold == Spec => []FlagsOK
<1>1. TypeOK /\ OneOwner /\ FlagsOK /\ [Next]_vars => FlagsOK'
  BY NextFlags
<1> QED
  BY InitFlags, <1>1, TypeCorrect, OneOwnerHolds, PTL DEF Spec

(* The comment on was_alive holds with any number of threads notifying at   *)
(* once: a FALSE answer, once recorded, is never overwritten.               *)
THEOREM WasAliveHolds == Spec => []WasAliveTracksReceive
<1>1. FlagsOK => WasAliveTracksReceive
  BY DEF FlagsOK
<1> QED
  BY <1>1, FlagsHold, PTL

(* In a new notifier nobody has listened yet. *)
LEMMA InitNoAliveListenerLost == Init => NoAliveListenerLost
  BY DEF Init, NoAliveListenerLost

(* No step takes away the entry of an alive listener. *)
LEMMA NextNoAliveListenerLost ==
    ASSUME TypeOK, OneOwner, FlagsOK, NoAliveListenerLost, [Next]_vars
    PROVE  NoAliveListenerLost'
<1>0. /\ arg \in [Threads -> Listeners \cup {None}]
      /\ alive \in [Listeners -> BOOLEAN]
      /\ DOMAIN listeners = 1..Len(listeners)
      /\ None \notin Listeners
  BY DEF TypeOK, ThreadOK, DataOK
<1>1. ASSUME UNCHANGED <<open, listeners, arg, alive, held>>
      PROVE  NoAliveListenerLost'
  BY <1>1 DEF NoAliveListenerLost, Registered, InTransit
<1>2. ASSUME NEW t \in Threads, BeginCall(t)
      PROVE  NoAliveListenerLost'
  <2>1. CASE BeginNotify(t) \/ BeginCount(t) \/ BeginClose(t)
    BY <1>1, <2>1 DEF BeginNotify, BeginCount, BeginClose, Begin, vector
  <2>2. ASSUME NEW l \in Listeners, BeginListen(t, l)
        PROVE  NoAliveListenerLost'
    <3>1. /\ held' = held \ {l} /\ arg' = [arg EXCEPT ![t] = l]
          /\ UNCHANGED <<open, listeners, alive>>
          /\ pc[t] = "idle"
      BY <2>2 DEF BeginListen, Begin, vector
    <3>2. arg[t] = None
      BY <3>1 DEF TypeOK, ThreadOK
    <3>3. InTransit \cup {l} \subseteq InTransit' /\ Registered' = Registered
      BY <1>0, <3>1, <3>2 DEF InTransit, Registered
    <3> QED
      BY <3>1, <3>3 DEF NoAliveListenerLost
  <2> QED
    BY <1>2, <2>1, <2>2 DEF BeginCall
<1>3. ASSUME NEW t \in Threads, Step(t)
      PROVE  NoAliveListenerLost'
  <2>1. CASE \/ AcquireRead(t) \/ NotifyClosed(t) \/ Send(t) \/ AcquireWrite(t)
             \/ ListenFull(t) \/ ReapKeep(t)
    BY <1>1, <2>1, StillSteps
  <2>2. CASE Mark(t)
    <3>1. UNCHANGED <<open, arg, alive, held>> /\ Registered' = Registered
      BY <2>2, MarkEffect DEF Mark, Goto, clients
    <3> QED
      BY <3>1 DEF NoAliveListenerLost, InTransit
  <2>3. CASE NotifyReturn(t) \/ CallClosed(t) \/ ListenDead(t) \/ ReapCount(t)
    <3>1. /\ UNCHANGED <<open, listeners, alive, held>>
          /\ arg' = [arg EXCEPT ![t] = None]
      BY <2>3 DEF NotifyReturn, CallClosed, ListenDead, ReapCount, Unlock, Return,
                  vector, clients
    <3>2. open => arg[t] = None \/ (arg[t] \in Listeners /\ ~alive[arg[t]])
      <4>1. CASE NotifyReturn(t) \/ ReapCount(t)
        BY <4>1 DEF NotifyReturn, ReapCount, TypeOK, ThreadOK
      <4>2. CASE CallClosed(t)
        BY <4>2 DEF CallClosed
      <4>3. CASE ListenDead(t)
        BY <1>0, <4>3 DEF ListenDead, TypeOK, ThreadOK
      <4> QED
        BY <2>3, <4>1, <4>2, <4>3
    <3>3. InTransit \subseteq InTransit' \cup {arg[t]} /\ Registered' = Registered
      BY <1>0, <3>1 DEF InTransit, Registered
    <3> QED
      BY <1>0, <3>1, <3>2, <3>3 DEF NoAliveListenerLost
  <2>4. CASE Close(t)
    BY <2>4 DEF Close, NoAliveListenerLost
  <2>5. CASE ListenPush(t) \/ ReapListen(t)
    <3>1. UNCHANGED <<open, alive, held>> /\ arg' = [arg EXCEPT ![t] = None]
      BY <2>5 DEF ListenPush, ReapListen, Push, Unlock, Return, clients
    <3>2. Registered' = Registered \cup {arg[t]}
      BY <2>5, PushEffect
    <3>3. InTransit \subseteq InTransit' \cup {arg[t]}
      BY <1>0, <3>1 DEF InTransit
    <3> QED
      BY <3>1, <3>2, <3>3 DEF NoAliveListenerLost
  <2>6. CASE ReapDrop(t)
    <3> DEFINE e == listeners[index[t]]
    <3>1. UNCHANGED <<open, arg, alive, held>> /\ ~Keep(e)
      BY <2>6 DEF ReapDrop, clients, threads, vector
    <3>2. /\ index[t] \in DOMAIN listeners
          /\ Registered' = Registered \ {e.listener}
      BY <2>6, ReapDropEffect
    <3>3. ~alive[e.listener]
      BY <3>1, <3>2 DEF Keep, FlagsOK, RefusedOK, WasAliveTracksReceive
    <3> QED
      BY <3>1, <3>2, <3>3 DEF NoAliveListenerLost, InTransit
  <2> QED
    BY <1>3, <2>1, <2>2, <2>3, <2>4, <2>5, <2>6 DEF Step
<1>4. ASSUME NEW l \in Listeners, Die(l)
      PROVE  NoAliveListenerLost'
  BY <1>0, <1>4 DEF Die, vector, threads, NoAliveListenerLost, Registered, InTransit
<1>5. ASSUME NEW l \in Listeners, Renew(l)
      PROVE  NoAliveListenerLost'
  BY <1>0, <1>5 DEF Renew, vector, threads, NoAliveListenerLost, Registered, InTransit
<1> QED
  BY <1>1, <1>2, <1>3, <1>4, <1>5 DEF Next, vars

(* No pass of drop_dead_listeners, and nothing else but close(), takes an   *)
(* alive listener away.                                                     *)
THEOREM NoAliveListenerLostHolds == Spec => []NoAliveListenerLost
<1>1. /\ TypeOK /\ OneOwner /\ FlagsOK /\ NoAliveListenerLost
      /\ [Next]_vars
      => NoAliveListenerLost'
  BY NextNoAliveListenerLost
<1> QED
  BY InitNoAliveListenerLost, <1>1, TypeCorrect, OneOwnerHolds, FlagsHold, PTL DEF Spec

------------------------------------------------------------------------------
(* The census, and what it says of count() and of the capacity. *)

(* A new notifier has an empty census. *)
LEMMA InitCensus == Init => CensusOK
  BY FS_EmptySet DEF Init, CensusOK

(* After a step that ends with nobody in the guarded part of a write. *)
LEMMA NobodyWrites ==
    ASSUME NEW t \in Threads, TypeOK, TypeOK',
           writer' = None \/ readers' # {} \/ ~open'
    PROVE  \A u \in Threads : pc'[u] \notin {"ask", "reap"}
  BY DEF TypeOK, LockOK

(* No step of a reap or a count loses track of who was registered. *)
LEMMA NextCensus ==
    ASSUME TypeOK, TypeOK', OneOwner, FlagsOK, CensusOK, [Next]_vars
    PROVE  CensusOK'
<1>0. /\ pc \in [Threads -> PCs] /\ index \in [Threads -> Nat \ {0}]
      /\ alive \in [Listeners -> BOOLEAN]
      /\ DOMAIN listeners = 1..Len(listeners) /\ Len(listeners) \in Nat
      /\ Registered \subseteq Listeners /\ census \subseteq Listeners
      /\ peak \in Nat
  BY EntryType DEF TypeOK, ThreadOK, DataOK, Registered
<1>1. ASSUME UNCHANGED <<listeners, alive, census, peak>>,
             \A u \in Threads : pc'[u] \in {"ask", "reap"} =>
                pc[u] \in {"ask", "reap"} /\ index'[u] = index[u]
      PROVE  CensusOK'
  BY <1>1 DEF CensusOK, AliveRegistered, Registered
<1>2. CASE UNCHANGED vars
  BY <1>1, <1>2 DEF vars
<1>3. ASSUME NEW t \in Threads, BeginCall(t)
      PROVE  CensusOK'
  <2>1. PICK c \in Calls : Begin(t, c)
    BY <1>3 DEF BeginCall, BeginNotify, BeginCount, BeginClose, BeginListen, Calls
  <2> QED
    BY <1>0, <1>1, <2>1 DEF Begin, vector, history
<1>4. ASSUME NEW t \in Threads, Step(t)
      PROVE  CensusOK'
  <2>1. CASE AcquireRead(t) \/ NotifyClosed(t) \/ Send(t) \/ ListenFull(t)
    BY <1>0, <1>1, <2>1 DEF AcquireRead, NotifyClosed, Send, ListenFull, Goto,
                            vector, clients, history
  <2>2. CASE NotifyReturn(t) \/ CallClosed(t)
    BY <1>0, <1>1, <2>2 DEF NotifyReturn, CallClosed, Return, vector, clients, history
  <2>3. CASE Mark(t)
    <3>1. t \in readers /\ UNCHANGED <<readers, writer, census, peak>>
      BY <2>3 DEF Mark, TypeOK, LockOK, lock, history
    <3>2. \A u \in Threads : pc'[u] \notin {"ask", "reap"}
      BY <3>1, NobodyWrites
    <3> QED
      BY <3>1, <3>2 DEF CensusOK
  <2>4. CASE Close(t)
    <3>1. ~open' /\ UNCHANGED <<census, peak>>
      BY <2>4 DEF Close
    <3>2. \A u \in Threads : pc'[u] \notin {"ask", "reap"}
      BY <3>1, NobodyWrites
    <3> QED
      BY <3>1, <3>2 DEF CensusOK
  <2>5. CASE AcquireWrite(t)
    <3>1. /\ UNCHANGED <<listeners, alive, index>>
          /\ census' = AliveRegistered
          /\ peak' = IF Cardinality(census') > peak THEN Cardinality(census') ELSE peak
          /\ pc[t] = "lock" /\ writer' = t
      BY <2>5 DEF AcquireWrite, Goto, vector, clients
    <3>2. index'[t] = 1
      BY <1>0, <3>1 DEF TypeOK, CursorOK
    <3>3. \A u \in Threads : pc'[u] \in {"ask", "reap"} => u = t
      BY <3>1 DEF TypeOK, LockOK
    <3>4. Cardinality(AliveRegistered) \in Nat
      BY <1>0, FS_CardinalityType, FS_Subset DEF AliveRegistered
    <3>5. Cardinality(census') <= peak'
      BY <1>0, <3>1, <3>4
    <3> QED
      BY <3>1, <3>2, <3>3, <3>5 DEF CensusOK, AliveRegistered, Registered
  <2>6. CASE ListenDead(t) \/ ReapCount(t) \/ ListenPush(t) \/ ReapListen(t)
    <3>1. writer' = None /\ census' = {} /\ peak' = peak
      BY <2>6 DEF ListenDead, ReapCount, ListenPush, ReapListen, Push, Unlock
    <3>2. \A u \in Threads : pc'[u] \notin {"ask", "reap"}
      BY <3>1, NobodyWrites
    <3>3. Cardinality(census') <= peak'
      BY <1>0, <3>1, FS_EmptySet
    <3> QED
      BY <3>2, <3>3 DEF CensusOK
  <2>7. CASE ReapKeep(t)
    <3>1. /\ UNCHANGED <<listeners, alive, pc, census, peak, writer>>
          /\ index' = [index EXCEPT ![t] = @ + 1]
          /\ pc[t] = "reap" /\ index[t] \in DOMAIN listeners
          /\ alive[listeners[index[t]].listener]
      BY <1>0, <2>7 DEF ReapKeep, Keep, vector, lock, clients, history
    <3>2. listeners[index[t]].listener \in census
      BY <3>1 DEF CensusOK, AliveRegistered, Registered
    <3>3. \A j \in 1..index'[t] - 1 : listeners[j].listener \in census
      BY <1>0, <3>1, <3>2 DEF CensusOK
    <3>4. \A u \in Threads : u # t => index'[u] = index[u]
      BY <1>0, <3>1
    <3> QED
      BY <3>1, <3>3, <3>4 DEF CensusOK, AliveRegistered, Registered
  <2>8. CASE ReapDrop(t)
    <3> DEFINE e == listeners[index[t]]
    <3>1. /\ UNCHANGED <<alive, pc, index, writer, census, peak>>
          /\ ~Keep(e)
      BY <2>8 DEF ReapDrop, lock, threads, clients
    <3>2. /\ index[t] \in DOMAIN listeners
          /\ writer = t
          /\ Registered' = Registered \ {e.listener}
          /\ DOMAIN listeners' = 1..Len(listeners) - 1
          /\ \A j \in DOMAIN listeners' :
               listeners'[j] = IF j = index[t] THEN listeners[Len(listeners)] ELSE listeners[j]
      BY <2>8, ReapDropEffect
    <3>3. ~alive[e.listener]
      BY <3>1, <3>2 DEF Keep, FlagsOK, RefusedOK, WasAliveTracksReceive
    <3>4. \A u \in Threads : pc'[u] \in {"ask", "reap"} => u = t
      BY <3>1, <3>2 DEF TypeOK, LockOK
    <3>5. \A j \in 1..index[t] - 1 : listeners'[j] = listeners[j]
      BY <1>0, <3>2
    <3>6. AliveRegistered' \subseteq AliveRegistered
      BY <3>1, <3>2 DEF AliveRegistered
    <3> QED
      BY <3>1, <3>2, <3>3, <3>4, <3>5, <3>6 DEF CensusOK
  <2> QED
    BY <1>4, <2>1, <2>2, <2>3, <2>4, <2>5, <2>6, <2>7, <2>8 DEF Step
<1>5. ASSUME NEW l \in Listeners, Die(l)
      PROVE  CensusOK'
  BY <1>0, <1>5 DEF Die, vector, threads, history, CensusOK, AliveRegistered, Registered
<1>6. ASSUME NEW l \in Listeners, Renew(l)
      PROVE  CensusOK'
  BY <1>0, <1>6 DEF Renew, vector, threads, history, CensusOK, AliveRegistered, Registered
<1> QED
  BY <1>2, <1>3, <1>4, <1>5, <1>6 DEF Next

(* During a reap or a count the census has every registered listener that   *)
(* is alive and every one the cursor has passed (notifier.rs:371-405).      *)
THEOREM CensusHolds == Spec => []CensusOK
<1>1. TypeOK /\ TypeOK' /\ OneOwner /\ FlagsOK /\ CensusOK /\ [Next]_vars => CensusOK'
  BY NextCensus
<1> QED
  BY InitCensus, <1>1, TypeCorrect, OneOwnerHolds, FlagsHold, PTL DEF Spec

(* The vector has as many entries as there are registered listeners. *)
LEMMA EntryCount ==
    ASSUME TypeOK, OneOwner
    PROVE  /\ Cardinality(Registered) = Len(listeners)
           /\ IsFiniteSet(Registered)
<1> DEFINE f == [j \in 1..Len(listeners) |-> listeners[j].listener]
<1>1. DOMAIN listeners = 1..Len(listeners) /\ Len(listeners) \in Nat
  BY DEF TypeOK, DataOK
<1>2. f \in Bijection(1..Len(listeners), Registered)
  BY <1>1 DEF Bijection, Injection, Surjection, IsInjective, Registered, OneOwner
<1>3. IsFiniteSet(1..Len(listeners)) /\ Cardinality(1..Len(listeners)) = Len(listeners)
  <2>1. Cardinality(1..Len(listeners)) = IF 1 > Len(listeners) THEN 0
                                         ELSE Len(listeners) - 1 + 1
    BY <1>1, FS_Interval
  <2>2. IsFiniteSet(1..Len(listeners))
    BY <1>1, FS_Interval
  <2> QED
    BY <1>1, <2>1, <2>2
<1>4. ExistsBijection(1..Len(listeners), Registered)
  BY <1>2 DEF ExistsBijection
<1> QED
  BY <1>3, <1>4, FS_Bijection

(* When the cursor is at the end, everything registered was in the census. *)
LEMMA WalkedAll ==
    ASSUME TypeOK, CensusOK, NEW t \in Threads,
           pc[t] = "reap", index[t] > Len(listeners)
    PROVE  Registered \subseteq census
  BY DEF TypeOK, DataOK, ThreadOK, CensusOK, Registered

(* What count() returns is exact, whatever died while it was asking. *)
THEOREM CountExactHolds == Spec => []CountExact
<1>1. TypeOK /\ OneOwner /\ CensusOK => CountExact
  BY EntryCount, WalkedAll DEF CountExact, CensusOK
<1> QED
  BY <1>1, TypeCorrect, OneOwnerHolds, CensusHolds, PTL

(* No step gives the vector more room than its growth rule justifies. *)
LEMMA NextCapacityBounded ==
    ASSUME TypeOK, TypeOK', OneOwner, CensusOK, CapacityBounded, [Next]_vars
    PROVE  CapacityBounded'
<1>0. /\ capacity \in Nat /\ peak \in Nat /\ peak' \in Nat /\ Len(listeners) \in Nat
      /\ Len(listeners) <= capacity
  BY DEF TypeOK, DataOK
<1>1. capacity' = capacity /\ peak <= peak' => CapacityBounded'
  <2>1. \A c, m, p, q \in Nat :
           p <= q /\ (c <= m \/ c <= 2 * p) => c <= m \/ c <= 2 * q
    OBVIOUS
  <2>2. MinCap \in Nat
    OBVIOUS
  <2>3. capacity <= MinCap \/ capacity <= 2 * peak
    BY DEF CapacityBounded
  <2>4. ASSUME capacity' = capacity, peak <= peak'
        PROVE  capacity' <= MinCap \/ capacity' <= 2 * peak'
    BY <1>0, <2>1, <2>2, <2>3, <2>4
  <2> QED
    BY <2>4 DEF CapacityBounded
<1>2. CASE UNCHANGED vars
  BY <1>0, <1>1, <1>2 DEF vars
<1>3. ASSUME NEW t \in Threads, BeginCall(t)
      PROVE  CapacityBounded'
  <2>1. PICK c \in Calls : Begin(t, c)
    BY <1>3 DEF BeginCall, BeginNotify, BeginCount, BeginClose, BeginListen, Calls
  <2> QED
    BY <1>0, <1>1, <2>1 DEF Begin, vector, history
<1>4. ASSUME NEW t \in Threads, Step(t)
      PROVE  CapacityBounded'
  <2>1. CASE \/ AcquireRead(t) \/ NotifyClosed(t) \/ Send(t) \/ Mark(t) \/ NotifyReturn(t)
             \/ CallClosed(t) \/ ListenFull(t) \/ ReapKeep(t) \/ ReapDrop(t)
    BY <1>0, <1>1, <2>1
       DEF AcquireRead, NotifyClosed, Send, Mark, NotifyReturn, CallClosed, ListenFull,
           ReapKeep, ReapDrop, vector, history
  <2>2. CASE AcquireWrite(t)
    <3>1. capacity' = capacity /\ peak <= peak'
      BY <1>0, <2>2 DEF AcquireWrite, vector
    <3> QED
      BY <1>1, <3>1
  <2>3. CASE ListenDead(t) \/ ReapCount(t)
    BY <1>0, <1>1, <2>3 DEF ListenDead, ReapCount, Unlock
  <2>4. CASE Close(t)
    BY <2>4 DEF Close, CapacityBounded
  <2>5. CASE ListenPush(t)
    <3>1. capacity' = capacity /\ peak' = peak
      BY <1>0, <2>5 DEF ListenPush, Full, Push, Grown, Unlock
    <3> QED
      BY <1>0, <1>1, <3>1
  <2>6. CASE ReapListen(t)
    <3>1. Registered \subseteq census /\ Cardinality(Registered) = Len(listeners)
      BY <2>6, WalkedAll, EntryCount DEF ReapListen
    <3>2. IsFiniteSet(census) /\ Cardinality(census) \in Nat /\ Cardinality(census) <= peak
      BY FS_Subset, FS_CardinalityType DEF TypeOK, DataOK, CensusOK
    <3>3. Len(listeners) <= peak
      BY <1>0, <3>1, <3>2, FS_Subset
    <3>4. capacity' = Grown(capacity, Len(listeners)) /\ peak' = peak
      BY <2>6 DEF ReapListen, Push, Unlock
    <3> QED
      BY <1>0, <3>3, <3>4 DEF Grown, CapacityBounded
  <2> QED
    BY <1>4, <2>1, <2>2, <2>3, <2>4, <2>5, <2>6 DEF Step
<1>5. ASSUME NEW l \in Listeners, Die(l) \/ Renew(l)
      PROVE  CapacityBounded'
  BY <1>0, <1>1, <1>5 DEF Die, Renew, vector, history
<1> QED
  BY <1>2, <1>3, <1>4, <1>5 DEF Next

(* Calling listen() without ever notifying does not leak: the vector never  *)
(* has more than twice the room that the living once needed.                *)
THEOREM CapacityBoundedHolds == Spec => []CapacityBounded
<1>1. Init => CapacityBounded
  BY DEF Init, CapacityBounded
<1>2. /\ TypeOK /\ TypeOK' /\ OneOwner /\ CensusOK /\ CapacityBounded
      /\ [Next]_vars
      => CapacityBounded'
  BY NextCapacityBounded
<1> QED
  BY <1>1, <1>2, TypeCorrect, OneOwnerHolds, CensusHolds, PTL DEF Spec

------------------------------------------------------------------------------
(* The vector with its cursors implements the abstract broadcast. *)

Owed == [t \in Threads |-> OwedTo(t)]

(* Who is not in the loop of notify_many owes nothing, so that while somebody *)
(* writes, or could, nothing is owed.                                         *)
LEMMA OwesNothing ==
    ASSUME TypeOK
    PROVE  /\ \A t \in Threads : pc[t] \notin {"send", "mark"} => OwedTo(t) = {}
           /\ writer # None \/ readers = {} => \A t \in Threads : OwedTo(t) = {}
<1>1. \A t \in Threads : pc[t] \notin {"send", "mark"} => OwedTo(t) = {}
  BY DEF OwedTo
<1>2. writer # None \/ readers = {} => \A t \in Threads : pc[t] \notin {"send", "mark"}
  BY DEF TypeOK, LockOK
<1> QED
  BY <1>1, <1>2

(* A step of one thread that leaves the vector alone changes what it owes *)
(* itself, at most.                                                       *)
LEMMA OthersOweTheSame ==
    ASSUME NEW t \in Threads,
           DOMAIN listeners' = DOMAIN listeners,
           \A j \in DOMAIN listeners : listeners'[j].listener = listeners[j].listener,
           \A u \in Threads \ {t} : pc'[u] = pc[u] /\ index'[u] = index[u]
    PROVE  \A u \in Threads \ {t} : OwedTo(u)' = OwedTo(u)
  BY DEF OwedTo

(* A new notifier is an abstract one without members. *)
LEMMA InitBroadcast == Init => Promise!Init
  BY DEF Init, Promise!Init, Registered, OwedTo

(* Every step of the notifier is one of the broadcast, or invisible to it. *)
LEMMA NextBroadcast ==
    ASSUME TypeOK, TypeOK', OneOwner, FlagsOK, [Next]_vars
    PROVE  [Promise!Next]_(Promise!bvars)
<1>0. /\ pc \in [Threads -> PCs] /\ index \in [Threads -> Nat \ {0}]
      /\ DOMAIN listeners = 1..Len(listeners) /\ Len(listeners) \in Nat
  BY DEF TypeOK, ThreadOK, DataOK
<1>1. ASSUME UNCHANGED <<open, alive>>, Registered' = Registered,
             \A t \in Threads : OwedTo(t)' = OwedTo(t)
      PROVE  UNCHANGED Promise!bvars
  BY <1>1 DEF Promise!bvars
<1>2. CASE UNCHANGED vars
  BY <1>1, <1>2 DEF vars, Registered, OwedTo
<1>3. ASSUME NEW t \in Threads, BeginCall(t)
      PROVE  UNCHANGED Promise!bvars
  <2>1. PICK c \in Calls : Begin(t, c)
    BY <1>3 DEF BeginCall, BeginNotify, BeginCount, BeginClose, BeginListen, Calls
  <2>2. /\ UNCHANGED <<open, alive, listeners, index>>
        /\ pc[t] = "idle" /\ pc' = [pc EXCEPT ![t] = "lock"]
    BY <2>1 DEF Begin, vector
  <2>3. Registered' = Registered /\ \A u \in Threads : OwedTo(u)' = OwedTo(u)
    BY <1>0, <2>2 DEF Registered, OwedTo
  <2> QED
    BY <1>1, <2>2, <2>3
<1>4. ASSUME NEW t \in Threads, Step(t)
      PROVE  [Promise!Next]_(Promise!bvars)
  <2>1. CASE AcquireRead(t)
    <3>1. /\ UNCHANGED <<open, alive, listeners, index>> /\ open
          /\ pc[t] = "lock" /\ pc' = [pc EXCEPT ![t] = "send"]
      BY <2>1 DEF AcquireRead, Goto, vector, clients
    <3>2. index[t] = 1
      BY <3>1 DEF TypeOK, CursorOK
    <3>3. OwedTo(t) = {} /\ OwedTo(t)' = Registered
      BY <1>0, <3>1, <3>2 DEF OwedTo, Registered
    <3>4. Owed' = [Owed EXCEPT ![t] = Registered]
      BY <1>0, <3>1, <3>3, OthersOweTheSame DEF Owed
    <3>5. Registered' = Registered
      BY <3>1 DEF Registered
    <3>6. Promise!Begin(t)
      BY <3>1, <3>3, <3>4, <3>5 DEF Promise!Begin, Owed
    <3> QED
      BY <3>6 DEF Promise!Next
  <2>2. CASE Send(t)
    <3> DEFINE l == listeners[index[t]].listener
    <3>1. /\ UNCHANGED <<open, alive, listeners, index>>
          /\ pc[t] = "send" /\ pc' = [pc EXCEPT ![t] = "mark"]
          /\ index[t] \in DOMAIN listeners
      BY <1>0, <2>2 DEF Send, Goto, vector, clients
    <3>2. l \in OwedTo(t)
      BY <1>0, <3>1 DEF OwedTo
    <3>3. OwedTo(t)' = OwedTo(t) \ {l}
      BY <1>0, <3>1 DEF OwedTo, OneOwner
    <3>4. Owed' = [Owed EXCEPT ![t] = @ \ {l}]
      BY <1>0, <3>1, <3>3, OthersOweTheSame DEF Owed
    <3>5. Registered' = Registered
      BY <3>1 DEF Registered
    <3>6. Promise!Deliver(t, l)
      BY <3>1, <3>2, <3>4, <3>5 DEF Promise!Deliver, Owed
    <3>7. l \in Listeners
      BY <3>1, <1>0, EntryType DEF TypeOK, DataOK
    <3> QED
      BY <3>6, <3>7 DEF Promise!Next
  <2>3. CASE Mark(t)
    <3>1. /\ UNCHANGED <<open, alive>>
          /\ pc[t] = "mark" /\ pc' = [pc EXCEPT ![t] = "send"]
          /\ index' = [index EXCEPT ![t] = @ + 1]
      BY <2>3 DEF Mark, Goto, clients
    <3>2. /\ DOMAIN listeners' = DOMAIN listeners
          /\ \A j \in DOMAIN listeners : listeners'[j].listener = listeners[j].listener
          /\ Registered' = Registered
      BY <2>3, MarkEffect
    <3>3. pc'[t] = "send" /\ index'[t] = index[t] + 1
      BY <1>0, <3>1
    <3>4. OwedTo(t)' = OwedTo(t)
      <4>1. /\ OwedTo(t) = {listeners[j].listener : j \in {k \in DOMAIN listeners : k > index[t]}}
            /\ OwedTo(t)' = {listeners'[j].listener :
                                j \in {k \in DOMAIN listeners : k >= index[t] + 1}}
        BY <3>1, <3>2, <3>3 DEF OwedTo
      <4>2. {k \in DOMAIN listeners : k > index[t]} = {k \in DOMAIN listeners : k >= index[t] + 1}
        BY <1>0
      <4> QED
        BY <3>2, <4>1, <4>2
    <3>5. \A u \in Threads : OwedTo(u)' = OwedTo(u)
      BY <1>0, <3>1, <3>2, <3>4, OthersOweTheSame
    <3> QED
      BY <1>1, <3>1, <3>2, <3>5
  <2>4. CASE NotifyReturn(t)
    <3>1. /\ UNCHANGED <<open, alive, listeners>>
          /\ pc[t] = "send" /\ index[t] > Len(listeners)
          /\ pc' = [pc EXCEPT ![t] = "idle"] /\ index' = [index EXCEPT ![t] = 1]
      BY <2>4 DEF NotifyReturn, Return, vector, clients
    <3>2. OwedTo(t)' = {} /\ OwedTo(t) = {}
      BY <1>0, <3>1 DEF OwedTo
    <3>3. \A u \in Threads : OwedTo(u)' = OwedTo(u)
      BY <1>0, <3>1, <3>2, OthersOweTheSame
    <3>4. Registered' = Registered
      BY <3>1 DEF Registered
    <3> QED
      BY <1>1, <3>1, <3>3, <3>4
  <2>5. CASE \/ NotifyClosed(t) \/ AcquireWrite(t) \/ CallClosed(t) \/ ListenDead(t)
             \/ ListenFull(t) \/ ReapKeep(t) \/ ReapCount(t)
    <3>1. /\ UNCHANGED <<open, alive, listeners>>
          /\ pc[t] \in {"lock", "ask", "reap"}
          /\ pc'[t] \in {"panicked", "idle", "ask", "reap"}
          /\ \A u \in Threads \ {t} : pc'[u] = pc[u] /\ index'[u] = index[u]
      BY <1>0, <2>5 DEF NotifyClosed, AcquireWrite, CallClosed, ListenDead, ListenFull,
                        ReapKeep, ReapCount, Unlock, Return, Goto, vector, clients
    <3>2. OwedTo(t) = {} /\ OwedTo(t)' = {}
      BY <3>1 DEF OwedTo
    <3>3. \A u \in Threads : OwedTo(u)' = OwedTo(u)
      BY <3>1, <3>2, OthersOweTheSame
    <3>4. Registered' = Registered
      BY <3>1 DEF Registered
    <3> QED
      BY <1>1, <3>1, <3>3, <3>4
  <2>6. CASE Close(t)
    <3>1. /\ open' = FALSE /\ listeners' = <<>> /\ alive' = alive
          /\ UNCHANGED lock /\ readers = {}
      BY <2>6 DEF Close, WriteFree, clients
    <3>2. \A u \in Threads : OwedTo(u) = {} /\ OwedTo(u)' = {}
      <4>1. \A u \in Threads : OwedTo(u) = {}
        BY <3>1, OwesNothing
      <4>2. DOMAIN listeners' = {}
        BY <3>1
      <4>3. \A u \in Threads : OwedTo(u)' = {}
        BY <4>2 DEF OwedTo
      <4> QED
        BY <4>1, <4>3
    <3>3. Registered' = {}
      BY <3>1 DEF Registered
    <3>4. Promise!Close
      BY <3>1, <3>2, <3>3 DEF Promise!Close, Promise!NothingOwed
    <3> QED
      BY <3>4 DEF Promise!Next
  <2>7. CASE ListenPush(t) \/ ReapListen(t)
    <3>1. /\ arg[t] \in Listeners /\ writer = t
          /\ Registered' = Registered \cup {arg[t]}
      BY <2>7, PushEffect
    <3>2. open /\ UNCHANGED <<open, alive, readers>>
      BY <2>7, <3>1 DEF ListenPush, ReapListen, Push, Unlock, clients, TypeOK, LockOK
    <3>3. readers = {} /\ readers' = {}
      BY <3>1, <3>2 DEF TypeOK, LockOK
    <3>4. \A u \in Threads : OwedTo(u) = {} /\ OwedTo(u)' = {}
      <4>1. \A u \in Threads : pc[u] \notin {"send", "mark"} /\ pc'[u] \notin {"send", "mark"}
        BY <3>3 DEF TypeOK, LockOK
      <4> QED
        BY <4>1 DEF OwedTo
    <3>5. arg[t] \notin Registered
      BY <3>1 DEF OneOwner, InTransit
    <3>6. Promise!Join(arg[t])
      BY <3>1, <3>2, <3>4, <3>5 DEF Promise!Join, Promise!NothingOwed
    <3> QED
      BY <3>1, <3>6 DEF Promise!Next
  <2>8. CASE ReapDrop(t)
    <3> DEFINE e == listeners[index[t]]
    <3>1. UNCHANGED <<open, alive, pc, readers>> /\ ~Keep(e)
      BY <2>8 DEF ReapDrop, lock, threads, clients
    <3>2. /\ index[t] \in DOMAIN listeners /\ writer = t
          /\ Registered' = Registered \ {e.listener}
      BY <2>8, ReapDropEffect
    <3>3. ~alive[e.listener] /\ e.listener \in Registered /\ e.listener \in Listeners
      BY <1>0, <3>1, <3>2, EntryType
         DEF Keep, FlagsOK, RefusedOK, WasAliveTracksReceive, Registered, TypeOK, DataOK
    <3>4. \A u \in Threads : pc[u] \notin {"send", "mark"}
      BY <3>2 DEF TypeOK, LockOK
    <3>5. \A u \in Threads : OwedTo(u) = {} /\ OwedTo(u)' = {}
      BY <3>1, <3>4 DEF OwedTo
    <3>6. Promise!Leave(e.listener)
      BY <3>1, <3>2, <3>3, <3>5 DEF Promise!Leave, Promise!NothingOwed
    <3> QED
      BY <3>3, <3>6 DEF Promise!Next
  <2> QED
    BY <1>4, <2>1, <2>2, <2>3, <2>4, <2>5, <2>6, <2>7, <2>8 DEF Step
<1>5. ASSUME NEW l \in Listeners, Die(l)
      PROVE  Promise!Die(l)
  BY <1>5 DEF Die, Promise!Die, vector, threads, Registered, OwedTo
<1>6. ASSUME NEW l \in Listeners, Renew(l)
      PROVE  Promise!Renew(l)
  BY <1>6 DEF Renew, Promise!Renew, vector, threads, Registered, OwedTo
<1>7. ASSUME NEW l \in Listeners, Die(l) \/ Renew(l)
      PROVE  Promise!Next
  BY <1>5, <1>6, <1>7 DEF Promise!Next
<1> QED
  BY <1>2, <1>3, <1>4, <1>7 DEF Next

(* ImplementsBroadcast: a batch is delivered exactly once to each listener  *)
(* that was registered when notify_many took the lock, nobody joins, leaves *)
(* or closes while it is, and none but the dead leave (notifier.rs:223-428).*)
THEOREM BroadcastHolds == Spec => ImplementsBroadcast
<1>1. TypeOK /\ TypeOK' /\ OneOwner /\ FlagsOK /\ [Next]_vars => [Promise!Next]_(Promise!bvars)
  BY NextBroadcast
<1> QED
  BY InitBroadcast, <1>1, TypeCorrect, OneOwnerHolds, FlagsHold, PTL
     DEF Spec, ImplementsBroadcast, Promise!Spec
==============================================================================
