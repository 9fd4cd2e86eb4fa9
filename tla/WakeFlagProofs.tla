---------------------------- MODULE WakeFlagProofs ----------------------------
(***************************************************************************)
(* Theorems about WakeFlag, for any number of listeners: type correctness  *)
(* with the protocol of the waker, and its four safety properties.         *)
(***************************************************************************)
EXTENDS WakeFlag, FiniteSetTheorems, TLAPS

(* strong_count() is 0 just when no listener has its _alive. *)
LEMMA NoneAliveIsClosed == NoneAlive <=> Closed
  <1>1. IsFiniteSet(Strong)
      BY FS_Subset, WakeFlagAssumption DEF Strong
  <1>. QED BY <1>1, FS_EmptySet DEF NoneAlive, Closed

(* What is closed stays so: a clone needs a listener that is alive. *)
LEMMA ClosedIsStable ==
    ASSUME TypeOK, Closed, [Next]_vars
    PROVE  Closed'
  <1>1. \A l \in Listeners : listener[l] \in {"unborn", "gone"}
      BY DEF Closed, Strong
  <1>2. UNCHANGED listener
    <2>1. CASE \E l \in Listeners : ReceiveStore(l) \/ BeginDrop(l) \/ Unfinished(l)
        BY <2>1, <1>1 DEF ReceiveStore, BeginDrop, Unfinished, ReceiveWake, DropWake, DropAlive
    <2>2. CASE \E l, k \in Listeners : CloneListener(l, k)
        BY <2>2, <1>1 DEF CloneListener
    <2>3. CASE BeginWait \/ Poll \/ Cancel \/ NotifyStore \/ NotifyWake \/ DropFlag
        BY <2>3 DEF BeginWait, Poll, Cancel, NotifyStore, NotifyWake, DropFlag
    <2>4. CASE PollStep
        BY <2>4 DEF PollStep, Swap, Count, Answer, RegisterWaker
    <2>5. CASE UNCHANGED vars
        BY <2>5 DEF vars
    <2>. QED BY <2>1, <2>2, <2>3, <2>4, <2>5 DEF Next
  <1>. QED BY <1>2 DEF Closed, Strong

------------------------------------------------------------------------------

(* Type correctness, with the protocol of the waker: a task that has begun   *)
(* its second look is registered or scheduled.                               *)
THEOREM TypeCorrect == Spec => []TypeOK
  <1>. USE DEF ListenerStates, PollSteps, TaskStates, Answers, Busy, TaskBusy,
               MayRun, TaskMayRun, Move, shared, history
  <1>1. Init => TypeOK
      BY DEF Init, TypeOK
  <1>2. TypeOK /\ [Next]_vars => TypeOK'
    <2> SUFFICES ASSUME TypeOK, [Next]_vars PROVE TypeOK'
      OBVIOUS
    <2>1. ASSUME NEW l \in Listeners, ReceiveStore(l) PROVE TypeOK'
        BY <2>1 DEF ReceiveStore, TypeOK
    <2>2. ASSUME NEW l \in Listeners, BeginDrop(l) PROVE TypeOK'
        BY <2>2 DEF BeginDrop, TypeOK
    <2>3. ASSUME NEW l \in Listeners, ReceiveWake(l) PROVE TypeOK'
        BY <2>3 DEF ReceiveWake, Wake, TypeOK
    <2>4. ASSUME NEW l \in Listeners, DropWake(l) PROVE TypeOK'
        BY <2>4 DEF DropWake, Wake, TypeOK
    <2>5. ASSUME NEW l \in Listeners, DropAlive(l) PROVE TypeOK'
        BY <2>5 DEF DropAlive, TypeOK
    <2>6. ASSUME NEW l \in Listeners, NEW k \in Listeners, CloneListener(l, k)
          PROVE  TypeOK'
        BY <2>6 DEF CloneListener, TypeOK
    <2>7. CASE BeginWait
        BY <2>7 DEF BeginWait, TypeOK, Closed
    <2>p. ASSUME NEW done \in PollSteps \cup {"pending"}, task \in PollSteps, task' = done,
                 notified' \in BOOLEAN,
                 UNCHANGED <<parallel, waker, scheduled, listener, answer, history>>,
                 done \in {"swap2", "count2", "pending"} => waker \/ scheduled
          PROVE  TypeOK'
        BY <2>p DEF TypeOK
    <2>a. ASSUME NEW a \in BOOLEAN, task \in PollSteps, Answer(a), notified' \in BOOLEAN
          PROVE  TypeOK'
      <3>1. answer' \in Answers /\ toldClosed' \in BOOLEAN
          BY <2>a DEF Answer, TypeOK
      <3>. QED BY <2>a, <3>1 DEF Answer, TypeOK
    <2>8. CASE Swap("swap1", "count1") \/ Swap("swap2", "count2")
      <3>1. task = "swap2" => waker \/ scheduled
          BY DEF TypeOK
      <3>2. CASE Swap("swap1", "count1")
          BY <3>2, <2>p, <2>a DEF Swap
      <3>3. CASE Swap("swap2", "count2")
          BY <3>1, <3>3, <2>p, <2>a DEF Swap
      <3>. QED BY <2>8, <3>2, <3>3
    <2>9. CASE Count("count1", "register") \/ Count("count2", "pending")
      <3>1. (task = "count2" => waker \/ scheduled) /\ notified \in BOOLEAN
          BY DEF TypeOK
      <3>2. CASE Count("count1", "register")
          BY <3>1, <3>2, <2>p, <2>a DEF Count
      <3>3. CASE Count("count2", "pending")
          BY <3>1, <3>3, <2>p, <2>a DEF Count
      <3>. QED BY <2>9, <3>2, <3>3
    <2>10. CASE RegisterWaker
        BY <2>10 DEF RegisterWaker, Register, TypeOK
    <2>11. CASE Poll
        BY <2>11 DEF Poll, TypeOK
    <2>12. CASE Cancel
        BY <2>12 DEF Cancel, TypeOK
    <2>13. CASE NotifyStore
        BY <2>13 DEF NotifyStore, TypeOK
    <2>14. CASE NotifyWake
        BY <2>14 DEF NotifyWake, Wake, TypeOK
    <2>15. CASE DropFlag
        BY <2>15 DEF DropFlag, TypeOK
    <2>16. CASE UNCHANGED vars
        BY <2>16 DEF vars, TypeOK
    <2>. QED
        BY <2>1, <2>2, <2>3, <2>4, <2>5, <2>6, <2>7, <2>8, <2>9, <2>10, <2>11, <2>12,
           <2>13, <2>14, <2>15, <2>16 DEF Next, Unfinished, PollStep
  <1>. QED BY <1>1, <1>2, PTL DEF Spec

------------------------------------------------------------------------------

(* From the second swap on, a message that is in the flag is about to wake.  *)
WakeComes ==
    task \in {"count2", "pending"} /\ notified =>
      scheduled \/ (waker /\ \E l \in Listeners : listener[l] = "stored")

(* NoSleepOnMessage: wherever in poll() a message comes, it is seen by a swap, *)
(* or finds the waker in place and wakes the task.                             *)
THEOREM NoSleepOnMessageHolds == Spec => []NoSleepOnMessage
  <1>. USE DEF PollSteps, TaskStates, Move, shared, history
  <1>1. Init => WakeComes
      BY DEF Init, WakeComes
  <1>2. TypeOK /\ WakeComes /\ [Next]_vars => WakeComes'
    <2> SUFFICES ASSUME TypeOK, WakeComes, [Next]_vars PROVE WakeComes'
      OBVIOUS
    <2>1. ASSUME NEW l \in Listeners, ReceiveStore(l) PROVE WakeComes'
      <3>1. listener'[l] = "stored"
          BY <2>1 DEF ReceiveStore, TypeOK
      <3>. QED BY <2>1, <3>1 DEF ReceiveStore, TypeOK, WakeComes
    <2>2. ASSUME NEW l \in Listeners, BeginDrop(l) PROVE WakeComes'
      <3>1. \A k \in Listeners : listener[k] = "stored" => listener'[k] = "stored"
          BY <2>2 DEF BeginDrop, TypeOK
      <3>. QED BY <2>2, <3>1 DEF BeginDrop, WakeComes
    <2>3. ASSUME NEW l \in Listeners, ReceiveWake(l) PROVE WakeComes'
        BY <2>3 DEF ReceiveWake, Wake, TypeOK, WakeComes
    <2>4. ASSUME NEW l \in Listeners, DropWake(l) PROVE WakeComes'
        BY <2>4 DEF DropWake, Wake, TypeOK, WakeComes
    <2>5. ASSUME NEW l \in Listeners, DropAlive(l) PROVE WakeComes'
      <3>1. \A k \in Listeners : listener[k] = "stored" => listener'[k] = "stored"
          BY <2>5 DEF DropAlive, TypeOK
      <3>. QED BY <2>5, <3>1 DEF DropAlive, WakeComes
    <2>6. ASSUME NEW l \in Listeners, NEW k \in Listeners, CloneListener(l, k)
          PROVE  WakeComes'
      <3>1. \A m \in Listeners : listener[m] = "stored" => listener'[m] = "stored"
          BY <2>6 DEF CloneListener, TypeOK
      <3>. QED BY <2>6, <3>1 DEF CloneListener, WakeComes
    <2>7. CASE BeginWait \/ Poll \/ Cancel \/ NotifyStore \/ NotifyWake \/ DropFlag
        BY <2>7 DEF BeginWait, Poll, Cancel, NotifyStore, NotifyWake, DropFlag, WakeComes
    <2>8. CASE Swap("swap1", "count1") \/ Swap("swap2", "count2")
        BY <2>8 DEF Swap, WakeComes
    <2>9. CASE Count("count1", "register")
        BY <2>9 DEF Count, Answer, WakeComes
    <2>10. CASE Count("count2", "pending")
        BY <2>10 DEF Count, Answer, WakeComes
    <2>11. CASE RegisterWaker
        BY <2>11 DEF RegisterWaker, WakeComes
    <2>12. CASE UNCHANGED vars
        BY <2>12 DEF vars, WakeComes
    <2>. QED
        BY <2>1, <2>2, <2>3, <2>4, <2>5, <2>6, <2>7, <2>8, <2>9, <2>10, <2>11, <2>12
           DEF Next, Unfinished, PollStep
  <1>3. WakeComes => NoSleepOnMessage
      BY DEF WakeComes, NoSleepOnMessage
  <1>. QED BY <1>1, <1>2, <1>3, TypeCorrect, PTL DEF Spec

------------------------------------------------------------------------------

(* Only a count of zero listeners makes a wait() FALSE, or makes it late. *)
LEMMA OnlyClosedTells ==
    ASSUME TypeOK, [Next]_vars, toldClosed' /\ ~toldClosed
    PROVE  Closed
  <1>1. CASE PollStep
    <2>1. CASE \E from, done \in TaskStates : Swap(from, done)
        BY <2>1 DEF Swap, Answer, history
    <2>2. CASE \E from, done \in TaskStates : Count(from, done)
        BY <2>2, NoneAliveIsClosed DEF Count, history
    <2>3. CASE RegisterWaker
        BY <2>3 DEF RegisterWaker, history
    <2>. QED BY <1>1, <2>1, <2>2, <2>3 DEF PollStep, TaskStates, PollSteps
  <1>2. CASE BeginWait \/ Poll \/ Cancel \/ NotifyStore \/ NotifyWake \/ DropFlag
      BY <1>2 DEF BeginWait, Poll, Cancel, NotifyStore, NotifyWake, DropFlag, history
  <1>3. CASE \E l \in Listeners : ReceiveStore(l) \/ BeginDrop(l) \/ Unfinished(l)
      BY <1>3 DEF ReceiveStore, BeginDrop, Unfinished, ReceiveWake, DropWake, DropAlive,
                  history
  <1>4. CASE \E l, k \in Listeners : CloneListener(l, k)
      BY <1>4 DEF CloneListener, history
  <1>5. CASE UNCHANGED vars
      BY <1>5 DEF vars
  <1>. QED BY <1>1, <1>2, <1>3, <1>4, <1>5 DEF Next

(* FalseMeansClosed: all listeners are dropped when wait() returns FALSE, and  *)
(* no clone can come after that.                                               *)
THEOREM FalseMeansClosedHolds == Spec => []FalseMeansClosed
  <1>1. Init => FalseMeansClosed
      BY DEF Init, FalseMeansClosed
  <1>2. TypeOK /\ FalseMeansClosed /\ [Next]_vars => FalseMeansClosed'
    <2> SUFFICES ASSUME TypeOK, FalseMeansClosed, [Next]_vars, toldClosed' PROVE Closed'
        BY DEF FalseMeansClosed
    <2>1. Closed
        BY OnlyClosedTells DEF FalseMeansClosed
    <2>. QED BY <2>1, ClosedIsStable
  <1>. QED BY <1>1, <1>2, TypeCorrect, PTL DEF Spec

(* A wait() that began late still finds all listeners dropped. *)
LateIsClosed == lateWait => Closed /\ task # "pending"

(* ClosedNeverPends: the first poll of such a wait() answers. *)
THEOREM ClosedNeverPendsHolds == Spec => []ClosedNeverPends
  <1>1. Init => LateIsClosed
      BY DEF Init, LateIsClosed
  <1>2. TypeOK /\ LateIsClosed /\ [Next]_vars => LateIsClosed'
    <2> SUFFICES ASSUME TypeOK, LateIsClosed, [Next]_vars, lateWait'
                 PROVE  Closed' /\ task' # "pending"
        BY DEF LateIsClosed
    <2>1. CASE ~lateWait
      <3>1. BeginWait
        <4>1. CASE PollStep
            BY <2>1, <4>1 DEF PollStep, Swap, Count, Answer, RegisterWaker, history
        <4>2. CASE Poll \/ Cancel \/ NotifyStore \/ NotifyWake \/ DropFlag
            BY <2>1, <4>2 DEF Poll, Cancel, NotifyStore, NotifyWake, DropFlag, history
        <4>3. CASE \E l \in Listeners : ReceiveStore(l) \/ BeginDrop(l) \/ Unfinished(l)
            BY <2>1, <4>3 DEF ReceiveStore, BeginDrop, Unfinished, ReceiveWake, DropWake,
                              DropAlive, history
        <4>4. CASE \E l, k \in Listeners : CloneListener(l, k)
            BY <2>1, <4>4 DEF CloneListener, history
        <4>5. CASE UNCHANGED vars
            BY <2>1, <4>5 DEF vars
        <4>. QED BY <4>1, <4>2, <4>3, <4>4, <4>5 DEF Next
      <3>. QED BY <3>1, ClosedIsStable DEF BeginWait
    <2>2. CASE lateWait
      <3>1. Closed /\ Closed' /\ task # "pending"
          BY <2>2, ClosedIsStable DEF LateIsClosed
      <3>2. task' # "pending"
        <4>1. CASE Swap("swap1", "count1") \/ Swap("swap2", "count2") \/ RegisterWaker
            BY <4>1 DEF Swap, Answer, RegisterWaker
        <4>2. CASE Count("count1", "register") \/ Count("count2", "pending")
            BY <4>2, <3>1, NoneAliveIsClosed DEF Count, Answer
        <4>3. CASE BeginWait \/ Poll \/ Cancel \/ NotifyStore \/ NotifyWake \/ DropFlag
            BY <4>3 DEF BeginWait, Poll, Cancel, NotifyStore, NotifyWake, DropFlag
        <4>4. CASE \E l \in Listeners : ReceiveStore(l) \/ BeginDrop(l) \/ Unfinished(l)
            BY <4>4, <3>1 DEF ReceiveStore, BeginDrop, Unfinished, ReceiveWake, DropWake,
                              DropAlive
        <4>5. CASE \E l, k \in Listeners : CloneListener(l, k)
            BY <4>5, <3>1 DEF CloneListener
        <4>6. CASE UNCHANGED vars
            BY <4>6, <3>1 DEF vars
        <4>. QED BY <4>1, <4>2, <4>3, <4>4, <4>5, <4>6 DEF Next, PollStep
      <3>. QED BY <3>1, <3>2
    <2>. QED BY <2>1, <2>2
  <1>3. LateIsClosed => ClosedNeverPends
      BY DEF LateIsClosed, ClosedNeverPends
  <1>. QED BY <1>1, <1>2, <1>3, TypeCorrect, PTL DEF Spec

------------------------------------------------------------------------------

(* On one thread nobody sets the flag between a swap and the count after it,   *)
(* and after a FALSE only notify() does.                                       *)
OneThread ==
    ~parallel =>
      /\ task \in {"count1", "register", "swap2", "count2"} => ~notified
      /\ toldClosed /\ ~selfNotified => ~notified /\ answer # "true"

(* FalseIsFinalOnOneThread: FALSE is the last answer, save for notify().       *)
THEOREM FalseIsFinalOnOneThreadHolds == Spec => []FalseIsFinalOnOneThread
  <1>. USE DEF Move, shared, history
  <1>1. Init => OneThread
      BY DEF Init, OneThread
  <1>2. TypeOK /\ FalseMeansClosed /\ OneThread /\ [Next]_vars => OneThread'
    <2> SUFFICES ASSUME TypeOK, FalseMeansClosed, OneThread, [Next]_vars PROVE OneThread'
      OBVIOUS
    <2>1. ASSUME NEW l \in Listeners, ReceiveStore(l) PROVE OneThread'
      <3>1. ~toldClosed
          BY <2>1 DEF FalseMeansClosed, Closed, Strong, ReceiveStore
      <3>2. parallel \/ task \notin {"count1", "register", "swap2", "count2"}
          BY <2>1 DEF ReceiveStore, MayRun, TaskBusy, PollSteps
      <3>. QED BY <2>1, <3>1, <3>2 DEF ReceiveStore, OneThread
    <2>2. ASSUME NEW l \in Listeners, BeginDrop(l) \/ Unfinished(l) PROVE OneThread'
        BY <2>2 DEF BeginDrop, Unfinished, ReceiveWake, DropWake, DropAlive, OneThread
    <2>3. ASSUME NEW l \in Listeners, NEW k \in Listeners, CloneListener(l, k)
          PROVE  OneThread'
        BY <2>3 DEF CloneListener, OneThread
    <2>4. CASE BeginWait \/ Poll \/ Cancel \/ NotifyWake \/ DropFlag
        BY <2>4 DEF BeginWait, Poll, Cancel, NotifyWake, DropFlag, OneThread
    <2>5. CASE NotifyStore
        BY <2>5 DEF NotifyStore, OneThread
    <2>6. CASE Swap("swap1", "count1") \/ Swap("swap2", "count2")
        BY <2>6 DEF Swap, Answer, OneThread
    <2>7. CASE Count("count1", "register") \/ Count("count2", "pending")
        BY <2>7 DEF Count, Answer, OneThread
    <2>8. CASE RegisterWaker
        BY <2>8 DEF RegisterWaker, OneThread
    <2>9. CASE UNCHANGED vars
        BY <2>9 DEF vars, OneThread
    <2>. QED BY <2>1, <2>2, <2>3, <2>4, <2>5, <2>6, <2>7, <2>8, <2>9 DEF Next, PollStep
  <1>3. OneThread => FalseIsFinalOnOneThread
      BY DEF OneThread, FalseIsFinalOnOneThread, FalseIsFinal
  <1>. QED BY <1>1, <1>2, <1>3, TypeCorrect, FalseMeansClosedHolds, PTL DEF Spec
==============================================================================
