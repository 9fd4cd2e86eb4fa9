------------------------------- MODULE WakeFlag -------------------------------
(***************************************************************************)
(* The WakeFlag of src/src/future.rs: one async task waits, any number of  *)
(* listeners set the flag from other threads, are cloned and are dropped.  *)
(* Every access to the flag, to the waker and to the reference count is a  *)
(* step of its own.                                                        *)
(*                                                                         *)
(* The AtomicWaker and the executor are external: wake() takes the waker,  *)
(* if one is registered, and schedules the task; the executor polls a      *)
(* scheduled task, and may poll one that is not.                           *)
(***************************************************************************)
EXTENDS Naturals, FiniteSets

CONSTANT Listeners      \* WakeFlagListener values: the first and its clones

ASSUME WakeFlagAssumption == IsFiniteSet(Listeners) /\ Listeners # {}

VARIABLES
    parallel,    \* whether the task and the listeners run on several threads
    notified,    \* WakeFlagShared.notified
    waker,       \* whether WakeFlagShared.waker holds the task's waker
    scheduled,   \* the executor has been told to poll the task
    listener,    \* per listener, where it is in its life or operation
    task,        \* where the task is: in wait(), and where in poll()
    answer,      \* what the last wait() returned
    toldClosed,  \* history: some wait() has returned FALSE
    selfNotified,\* history: WakeFlag::notify has been called
    lateWait     \* history: this wait() began with all listeners dropped

shared == <<notified, waker, scheduled>>
history == <<toldClosed, selfNotified, lateWait>>
vars == <<parallel, notified, waker, scheduled, listener, task, answer,
          toldClosed, selfNotified, lateWait>>

ListenerStates == {"unborn", "live", "stored", "dropping", "woke", "gone"}
PollSteps == {"swap1", "count1", "register", "swap2", "count2"}
TaskStates == PollSteps \cup {"idle", "stored", "pending", "dropped"}
Answers == {"none", "true", "false"}

(* Listeners whose _alive has not been dropped: what strong_count() counts. *)
Strong == {l \in Listeners : listener[l] \notin {"unborn", "gone"}}
Closed == Strong = {}

Waiting == task \in PollSteps \cup {"pending"}

(* Who is inside an operation; on one thread that is at most one of them. *)
Busy == {l \in Listeners : listener[l] \in {"stored", "dropping", "woke"}}
TaskBusy == task \in PollSteps \cup {"stored"}
MayRun(l) == parallel \/ (~TaskBusy /\ Busy \subseteq {l})
TaskMayRun == parallel \/ Busy = {}

(* WakeFlag::new(); listening() is this, with the listener given to a source. *)
Init ==
    /\ parallel \in BOOLEAN
    /\ notified \in BOOLEAN       \* wake_immediately
    /\ waker = FALSE
    /\ scheduled = FALSE
    /\ \E l \in Listeners :
         listener = [k \in Listeners |-> IF k = l THEN "live" ELSE "unborn"]
    /\ task = "idle"
    /\ answer = "none"
    /\ toldClosed = FALSE
    /\ selfNotified = FALSE
    /\ lateWait = FALSE

------------------------------------------------------------------------------
(* The waker. *)

(* AtomicWaker::wake *)
Wake ==
    /\ waker' = FALSE
    /\ scheduled' = (scheduled \/ waker)

(* AtomicWaker::register *)
Register == waker' = TRUE /\ UNCHANGED scheduled

------------------------------------------------------------------------------
(* A listener. *)

Move(l, state) == listener' = [listener EXCEPT ![l] = state]

(* receive() with messages.  After the WakeFlag is dropped the upgrade fails *)
(* and nothing happens.  An empty batch changes nothing.                     *)
ReceiveStore(l) ==
    /\ listener[l] = "live" /\ MayRun(l) /\ task # "dropped"
    /\ notified' = TRUE
    /\ Move(l, "stored")
    /\ UNCHANGED <<parallel, waker, scheduled, task, answer, history>>

(* Mutant of ReceiveWake: no wake. *)
ReceiveReturn(l) ==
    /\ listener[l] = "stored"
    /\ Move(l, "live")
    /\ UNCHANGED <<parallel, shared, task, answer, history>>

ReceiveWake(l) ==
    /\ listener[l] = "stored"
    /\ Wake
    /\ Move(l, "live")
    /\ UNCHANGED <<parallel, notified, task, answer, history>>

CloneListener(l, k) ==
    /\ listener[l] = "live" /\ listener[k] = "unborn" /\ MayRun(l)
    /\ Move(k, "live")
    /\ UNCHANGED <<parallel, shared, task, answer, history>>

BeginDrop(l) ==
    /\ listener[l] = "live" /\ MayRun(l)
    /\ Move(l, "dropping")
    /\ UNCHANGED <<parallel, shared, task, answer, history>>

(* Mutant of DropWake: no wake. *)
DropWithoutWake(l) ==
    /\ listener[l] = "dropping"
    /\ Move(l, "woke")
    /\ UNCHANGED <<parallel, shared, task, answer, history>>

(* Drop::drop runs first, and wakes. *)
DropWake(l) ==
    /\ listener[l] = "dropping"
    /\ Wake
    /\ Move(l, "woke")
    /\ UNCHANGED <<parallel, notified, task, answer, history>>

(* The fields are dropped after it, _alive among them. *)
DropAlive(l) ==
    /\ listener[l] = "woke"
    /\ Move(l, "gone")
    /\ UNCHANGED <<parallel, shared, task, answer, history>>

------------------------------------------------------------------------------
(* The task. *)

(* wait(), up to the first poll of its future.  A WakeFlag that is read as a *)
(* Stream has poll_next() for both, with Some(()) and None for the answers.  *)
BeginWait ==
    /\ task = "idle" /\ TaskMayRun
    /\ task' = "swap1"
    /\ answer' = "none"
    /\ lateWait' = Closed
    /\ UNCHANGED <<parallel, shared, listener, toldClosed, selfNotified>>

Answer(a) ==
    /\ task' = "idle"
    /\ answer' = IF a THEN "true" ELSE "false"
    /\ toldClosed' = (toldClosed \/ ~a)
    /\ lateWait' = FALSE
    /\ UNCHANGED <<parallel, waker, scheduled, listener, selfNotified>>

(* The two steps of get_and_clear, which poll() runs before and after it   *)
(* registers the waker: `done` is where it goes on when there is no answer.*)
Swap(from, done) ==
    /\ task = from
    /\ notified' = FALSE
    /\ \/ notified /\ Answer(TRUE)
       \/ /\ ~notified
          /\ task' = done
          /\ UNCHANGED <<parallel, waker, scheduled, listener, answer, history>>

(* Mutants of NoneAlive: off by one; the close is never seen. *)
LastOneGone == Cardinality(Strong) <= 1
NeverGone == FALSE

(* listeners_alive.strong_count() == 0 *)
NoneAlive == Cardinality(Strong) = 0

Count(from, done) ==
    /\ task = from
    /\ UNCHANGED notified
    /\ \/ NoneAlive /\ Answer(FALSE)
       \/ /\ ~NoneAlive
          /\ task' = done
          /\ UNCHANGED <<parallel, waker, scheduled, listener, answer, history>>

(* Mutants of RegisterWaker: no second look; no registration. *)
RegisterNothing ==
    /\ task = "register"
    /\ task' = "swap2"
    /\ UNCHANGED <<parallel, shared, listener, answer, history>>

RegisterAndPend ==
    /\ task = "register"
    /\ Register
    /\ task' = "pending"
    /\ UNCHANGED <<parallel, notified, listener, answer, history>>

RegisterWaker ==
    /\ task = "register"
    /\ Register
    /\ task' = "swap2"
    /\ UNCHANGED <<parallel, notified, listener, answer, history>>

PollStep ==
    \/ Swap("swap1", "count1") \/ Count("count1", "register")
    \/ RegisterWaker
    \/ Swap("swap2", "count2") \/ Count("count2", "pending")

(* The executor polls the task again: the future, or the Stream. *)
Poll ==
    /\ task = "pending" /\ TaskMayRun
    /\ task' = "swap1"
    /\ scheduled' = FALSE
    /\ UNCHANGED <<parallel, notified, waker, listener, answer, history>>

(* The future of wait() is dropped before it is ready. *)
Cancel ==
    /\ task = "pending" /\ TaskMayRun
    /\ task' = "idle"
    /\ lateWait' = FALSE
    /\ UNCHANGED <<parallel, shared, listener, answer, toldClosed, selfNotified>>

(* WakeFlag::notify, which the borrow checker keeps out of wait() *)
NotifyStore ==
    /\ task = "idle" /\ TaskMayRun
    /\ notified' = TRUE
    /\ task' = "stored"
    /\ selfNotified' = TRUE
    /\ UNCHANGED <<parallel, waker, scheduled, listener, answer, toldClosed, lateWait>>

NotifyWake ==
    /\ task = "stored"
    /\ Wake
    /\ task' = "idle"
    /\ UNCHANGED <<parallel, notified, listener, answer, history>>

DropFlag ==
    /\ task = "idle" /\ TaskMayRun
    /\ task' = "dropped"
    /\ UNCHANGED <<parallel, shared, listener, answer, history>>

------------------------------------------------------------------------------

Unfinished(l) == ReceiveWake(l) \/ DropWake(l) \/ DropAlive(l)

Next ==
    \/ \E l \in Listeners : ReceiveStore(l) \/ BeginDrop(l) \/ Unfinished(l)
    \/ \E l, k \in Listeners : CloneListener(l, k)
    \/ BeginWait \/ PollStep \/ Poll \/ Cancel
    \/ NotifyStore \/ NotifyWake \/ DropFlag

(* An operation once begun goes on, and the executor polls a scheduled task, *)
(* also when others keep taking turns on its thread: that is what SF is for. *)
(* Nothing makes anyone begin an operation, and no task need be polled       *)
(* without having been scheduled.                                            *)
Fairness ==
    /\ \A l \in Listeners : WF_vars(Unfinished(l))
    /\ WF_vars(PollStep) /\ WF_vars(NotifyWake)
    /\ SF_vars(scheduled /\ Poll)

Spec == Init /\ [][Next]_vars
FairSpec == Spec /\ Fairness

------------------------------------------------------------------------------
(* Properties. *)

(* Every variable has its type; a task that has registered its waker keeps  *)
(* it there until it is scheduled (future.rs:255-265); and on one thread no *)
(* two operations overlap.                                                  *)
TypeOK ==
    /\ parallel \in BOOLEAN /\ notified \in BOOLEAN
    /\ waker \in BOOLEAN /\ scheduled \in BOOLEAN
    /\ listener \in [Listeners -> ListenerStates]
    /\ task \in TaskStates
    /\ answer \in Answers
    /\ toldClosed \in BOOLEAN /\ selfNotified \in BOOLEAN /\ lateWait \in BOOLEAN
    /\ task \in {"swap2", "count2", "pending"} => waker \/ scheduled
    /\ ~parallel => /\ \A l, k \in Busy : l = k
                    /\ TaskBusy => Busy = {}

(* A task never sleeps on a message (future.rs:255-265): if it is pending   *)
(* with the flag set, it is scheduled or a waker is on its way, whatever    *)
(* the order of store, wake, register and the two swaps.                    *)
NoSleepOnMessage ==
    task = "pending" /\ notified =>
      scheduled \/ (waker /\ \E l \in Listeners : listener[l] = "stored")

(* wait() returns FALSE only "because all listeners have been dropped"      *)
(* (future.rs:174-176), and clones being made meanwhile cannot change that. *)
FalseMeansClosed == toldClosed => Closed

(* A wait() begun with all listeners dropped answers on its first poll      *)
(* ("calls to wait() will always immediately return", future.rs:177).       *)
ClosedNeverPends == lateWait => task # "pending"

(* Once FALSE always FALSE (future.rs:176-177), save what notify() adds.    *)
FalseIsFinal == toldClosed /\ ~selfNotified => answer # "true"

(* The same where the task and the listeners share one thread.              *)
FalseIsFinalOnOneThread == ~parallel => FalseIsFinal

(* A message that finds the task waiting makes its wait() return, unless    *)
(* the future is dropped first (future.rs:170-175).                         *)
MessageEndsWait == Waiting /\ notified ~> ~Waiting

(* "or no more messages will arrive" (future.rs:172): when the last         *)
(* listener is gone, a wait() in progress returns.                          *)
ClosingEndsWait == Waiting /\ Closed ~> ~Waiting

(* The same where the task and the listeners share one thread.              *)
ClosingEndsWaitOnOneThread == ~parallel /\ Waiting /\ Closed ~> ~Waiting
==============================================================================
