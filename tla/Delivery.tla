------------------------------- MODULE Delivery -------------------------------
(***************************************************************************)
(* Messages on their way from a Buffer (src/src/notifier.rs) through a     *)
(* Notifier and the Filter of a listener (src/src/filter.rs) into a Log, a *)
(* StoreLock of a vector (src/src/store_lock.rs).  Several threads send,   *)
(* each through buffers of its own; the owners of the logs drain and drop  *)
(* them, and deliver to them directly; somebody may close the notifier.  A *)
(* RawNotifier, with its RawBuffer, is never closed, and a RawBuffer has   *)
(* it to itself.                                                           *)
(*                                                                         *)
(* A message is the sender, or None for a direct one, and its number.  A   *)
(* filter is the set of numbers it lets pass.  The Notifier is the abstract*)
(* one.                                                                    *)
(***************************************************************************)
EXTENDS Naturals, Sequences

CONSTANTS Senders,      \* threads, each with a Buffer at a time
          Logs,         \* Logs, each with one filtered listener
          Capacity,     \* CAPACITY of the buffers
          Batch,        \* BATCH of the filters
          MaxPush,      \* bound: pushes and direct messages in a behaviour
          MaxGiven,     \* bound: direct messages to a log
          Filters,      \* the filters of listeners, as sets of numbers that pass
          None          \* no log, no sender

ASSUME DeliveryAssumption ==
    /\ Capacity \in Nat \ {0}
    /\ Batch \in Nat \ {0}
    /\ MaxPush \in Nat /\ MaxGiven \in Nat
    /\ Filters \subseteq SUBSET Nat
    /\ None \notin Logs \cup Senders

VARIABLES
    raw,         \* whether this is a RawNotifier
    buffer,      \* per sender, Buffer.buffer
    sender,      \* per sender, where it is in the life of its Buffer
    dropping,    \* per sender, whether the flush is that of Drop
    pushed,      \* per sender, the number of pushes so far
    created,     \* all pushes and direct messages so far
    sent,        \* history: per sender, the pushes that have been flushed
    open, members, owed, alive,     \* the notifier, as in Broadcast
    given,       \* per log, the number of direct messages so far
    passing,     \* per log, the numbers its filter lets pass
    at,          \* per sender, the log whose listener it is calling
    input,       \* per sender, what the filter has not looked at yet
    out,         \* per sender, the buffer of the filter
    log,         \* per log, the vector in its StoreLock
    guard,       \* per log, whether its owner holds the lock
    drained,     \* per log, all that drain() and take() have returned
    since,       \* history: per log and sender, the pushes before it listened
    aborted      \* the process is gone

notifier == <<open, members, owed, alive>>
call == <<at, input, out>>
store == <<log, guard, drained, given>>
fixed == <<raw, passing, since>>
rest == <<created, aborted>>
vars == <<raw, buffer, sender, dropping, pushed, created, sent, open, members, owed,
          alive, passing, at, input, out, log, guard, drained, given, since, aborted>>

Flushing == {"flush", "send", "filter"}
SenderStates == Flushing \cup {"none", "open", "unwinding"}
Numbers == 1..MaxPush
Filtered == [Logs -> Filters]
Messages == (Senders \cup {None}) \X Numbers

Notifier == INSTANCE Broadcast WITH Threads <- Senders, Listeners <- Logs

Init ==
    /\ raw \in BOOLEAN
    /\ buffer = [s \in Senders |-> <<>>]
    /\ sender = [s \in Senders |-> "none"]
    /\ dropping = [s \in Senders |-> FALSE]
    /\ pushed = [s \in Senders |-> 0]
    /\ created = 0
    /\ sent = [s \in Senders |-> 0]
    /\ Notifier!Init
    /\ passing \in Filtered
    /\ at = [s \in Senders |-> None]
    /\ input = [s \in Senders |-> <<>>]
    /\ out = [s \in Senders |-> <<>>]
    /\ log = [l \in Logs |-> <<>>]
    /\ guard = [l \in Logs |-> FALSE]
    /\ drained = [l \in Logs |-> <<>>]
    /\ given = [l \in Logs |-> 0]
    /\ since = [l \in Logs |-> [s \in Senders |-> 0]]
    /\ aborted = FALSE

------------------------------------------------------------------------------
(* Buffers. *)

Goto(s, state) == sender' = [sender EXCEPT ![s] = state]

MorePushes == created < MaxPush

(* A RawBuffer borrows its RawNotifier mutably, and listen() does too. *)
NotBorrowed == raw => \A s \in Senders : sender[s] = "none"

NewBuffer(s) ==
    /\ sender[s] = "none" /\ NotBorrowed /\ MorePushes
    /\ Goto(s, "open")
    /\ dropping' = [dropping EXCEPT ![s] = FALSE]
    /\ UNCHANGED <<buffer, pushed, sent, notifier, call, store, fixed, rest>>

(* Mutant of IsFull: the flush comes one push late. *)
IsOverfull(s) == Len(buffer'[s]) > Capacity

IsFull(s) == Len(buffer'[s]) = Capacity

Push(s) ==
    /\ sender[s] = "open" /\ MorePushes /\ Len(buffer[s]) < Capacity
    /\ pushed' = [pushed EXCEPT ![s] = @ + 1]
    /\ created' = created + 1
    /\ buffer' = [buffer EXCEPT ![s] = Append(@, pushed'[s])]
    /\ Goto(s, IF IsFull(s) THEN "flush" ELSE "open")
    /\ UNCHANGED <<dropping, sent, notifier, call, store, fixed, aborted>>

(* ArrayVec::push panics when there is no room. *)
PushPanics(s) ==
    /\ sender[s] = "open" /\ Len(buffer[s]) = Capacity
    /\ Goto(s, "unwinding")
    /\ UNCHANGED <<buffer, dropping, pushed, sent, notifier, call, store, fixed, rest>>

(* Mutant of DropBuffer: what is left in the buffer goes with it. *)
DropUnsent(s) ==
    /\ sender[s] = "open"
    /\ dropping' = [dropping EXCEPT ![s] = TRUE]
    /\ buffer' = [buffer EXCEPT ![s] = <<>>]
    /\ Goto(s, "none")
    /\ UNCHANGED <<pushed, sent, notifier, call, store, fixed, rest>>

DropBuffer(s) ==
    /\ sender[s] = "open"
    /\ dropping' = [dropping EXCEPT ![s] = TRUE]
    /\ Goto(s, IF buffer[s] = <<>> THEN "none" ELSE "flush")
    /\ UNCHANGED <<buffer, pushed, sent, notifier, call, store, fixed, rest>>

(* flush(), up to the loop of notify_many *)
Flush(s) ==
    /\ sender[s] = "flush"
    /\ Notifier!Begin(s)
    /\ sent' = [sent EXCEPT ![s] = pushed[s]]
    /\ Goto(s, "send")
    /\ UNCHANGED <<buffer, dropping, pushed, call, store, fixed, rest>>

(* The panic of notify_many: out of Drop, and the buffer is gone; or out of  *)
(* push(), with the buffer as it was.                                        *)
FlushClosed(s) ==
    /\ sender[s] = "flush" /\ ~raw /\ ~open
    /\ Goto(s, IF dropping[s] THEN "none" ELSE "unwinding")
    /\ buffer' = IF dropping[s] THEN [buffer EXCEPT ![s] = <<>>] ELSE buffer
    /\ UNCHANGED <<dropping, pushed, sent, notifier, call, store, fixed, rest>>

(* The panic of a push() is caught inside the scope of the Buffer, ...       *)
CatchPanic(s) ==
    /\ sender[s] = "unwinding"
    /\ Goto(s, "open")
    /\ UNCHANGED <<buffer, dropping, pushed, sent, notifier, call, store, fixed, rest>>

(* ... or it drops the Buffer, which flushes: a panic in a panic.            *)
Unwind(s) ==
    /\ sender[s] = "unwinding"
    /\ aborted' = TRUE
    /\ UNCHANGED <<buffer, sender, dropping, pushed, sent, notifier, call, store, fixed,
                   created>>

(* Mutant of FlushEnd: the messages stay in the buffer. *)
FlushUncleared(s) ==
    /\ sender[s] = "send" /\ owed[s] = {}
    /\ buffer' = [buffer EXCEPT ![s] = Tail(@)]
    /\ Goto(s, IF dropping[s] THEN "none" ELSE "open")
    /\ UNCHANGED <<dropping, pushed, sent, notifier, call, store, fixed, rest>>

FlushEnd(s) ==
    /\ sender[s] = "send" /\ owed[s] = {}
    /\ buffer' = [buffer EXCEPT ![s] = <<>>]
    /\ Goto(s, IF dropping[s] THEN "none" ELSE "open")
    /\ UNCHANGED <<dropping, pushed, sent, notifier, call, store, fixed, rest>>

------------------------------------------------------------------------------
(* The notifier calls the filter of a listener, which calls the log. *)

Tagged(s, numbers) == [i \in DOMAIN numbers |-> <<s, numbers[i]>>]

(* What a weak reference answers, whether it is asked to upgrade() or for   *)
(* its strong_count() only.                                                 *)
Upgraded(l) == alive[l]

(* Mutex::lock(), or borrow_mut() where there is one thread *)
LockFree(l) == ~guard[l]

(* The Store is a vector, which anything that locks it appends to: a        *)
(* StoreLock, or a Mutex or RefCell that is a StoreRef.                     *)
Record(l, messages) ==
    /\ LockFree(l)
    /\ log' = [log EXCEPT ![l] = @ \o messages]

(* LogListener::receive with messages: under the lock, if the log exists.   *)
Receive(s) ==
    \/ Upgraded(at[s]) /\ Record(at[s], Tagged(s, out[s]))
    \/ ~Upgraded(at[s]) /\ UNCHANGED log

(* Filter::receive begins. *)
Call(s, l) ==
    /\ sender[s] = "send" /\ l \in owed[s]
    /\ at' = [at EXCEPT ![s] = l]
    /\ input' = [input EXCEPT ![s] = buffer[s]]
    /\ out' = [out EXCEPT ![s] = <<>>]
    /\ Goto(s, "filter")
    /\ UNCHANGED <<buffer, dropping, pushed, sent, notifier, store, fixed, rest>>

(* ... and returns to the loop of notify_many. *)
Return(s) ==
    /\ Notifier!Deliver(s, at[s])
    /\ at' = [at EXCEPT ![s] = None]
    /\ input' = [input EXCEPT ![s] = <<>>]
    /\ out' = [out EXCEPT ![s] = <<>>]
    /\ Goto(s, "send")
    /\ UNCHANGED <<buffer, dropping, pushed, sent, guard, drained, given, fixed, rest>>

Advance(s) ==
    /\ input' = [input EXCEPT ![s] = Tail(@)]
    /\ UNCHANGED <<buffer, sender, dropping, pushed, sent, notifier, at, guard,
                   drained, given, fixed, rest>>

Passes(s) == Head(input[s]) \in passing[at[s]]

Discard(s) ==
    /\ sender[s] = "filter" /\ input[s] # <<>> /\ ~Passes(s)
    /\ Advance(s)
    /\ UNCHANGED <<out, log>>

Gather(s) ==
    /\ sender[s] = "filter" /\ input[s] # <<>> /\ Passes(s) /\ Len(out[s]) < Batch
    /\ out' = [out EXCEPT ![s] = Append(@, Head(input[s]))]
    /\ Advance(s)
    /\ UNCHANGED log

(* Mutant of PassOn: the message that did not fit is forgotten. *)
PassOnAndForget(s) ==
    /\ sender[s] = "filter" /\ input[s] # <<>> /\ Passes(s) /\ Len(out[s]) = Batch
    /\ Upgraded(at[s])
    /\ Receive(s)
    /\ out' = [out EXCEPT ![s] = <<>>]
    /\ Advance(s)

(* The buffer is full: pass it on, and begin anew with this message. *)
PassOn(s) ==
    /\ sender[s] = "filter" /\ input[s] # <<>> /\ Passes(s) /\ Len(out[s]) = Batch
    /\ Upgraded(at[s])
    /\ Receive(s)
    /\ out' = [out EXCEPT ![s] = <<Head(input[s])>>]
    /\ Advance(s)

(* Mutant of GiveUp: the loop goes round without end. *)
KeepTrying(s) ==
    /\ sender[s] = "filter" /\ input[s] # <<>> /\ Passes(s) /\ Len(out[s]) = Batch
    /\ ~Upgraded(at[s])
    /\ UNCHANGED vars

(* The target is gone: no need to look at the rest. *)
GiveUp(s) ==
    /\ sender[s] = "filter" /\ input[s] # <<>> /\ Passes(s) /\ Len(out[s]) = Batch
    /\ ~Upgraded(at[s])
    /\ Return(s)
    /\ UNCHANGED log

(* The end of the batch: pass on the rest, without the lock if it is empty. *)
PassOnRest(s) ==
    /\ sender[s] = "filter" /\ input[s] = <<>>
    /\ IF out[s] = <<>> THEN UNCHANGED log ELSE Receive(s)
    /\ Return(s)

------------------------------------------------------------------------------
(* The notifier and the logs. *)

senders == <<buffer, sender, dropping, pushed, sent, call>>

Listen(l) ==
    /\ alive[l] /\ NotBorrowed
    /\ Notifier!Join(l)
    /\ since' = [since EXCEPT ![l] = sent]
    /\ UNCHANGED <<senders, raw, passing, store, rest>>

Close == ~raw /\ open /\ Notifier!Close /\ UNCHANGED <<senders, fixed, store, rest>>

(* StoreLock::lock, which drain() holds for a moment. *)
Lock(l) ==
    /\ alive[l] /\ LockFree(l)
    /\ guard' = [guard EXCEPT ![l] = TRUE]
    /\ UNCHANGED <<senders, notifier, fixed, log, drained, given, rest>>

(* Mutant of Drain: the messages are read and not removed. *)
DrainCopy(l) ==
    /\ guard[l]
    /\ drained' = [drained EXCEPT ![l] = @ \o log[l]]
    /\ guard' = [guard EXCEPT ![l] = FALSE]
    /\ UNCHANGED <<senders, notifier, fixed, log, given, rest>>

Drain(l) ==
    /\ guard[l]
    /\ drained' = [drained EXCEPT ![l] = @ \o log[l]]
    /\ log' = [log EXCEPT ![l] = <<>>]
    /\ guard' = [guard EXCEPT ![l] = FALSE]
    /\ UNCHANGED <<senders, notifier, fixed, given, rest>>

(* StoreLock::take, which locks for the replacement only *)
Take(l) ==
    /\ alive[l] /\ LockFree(l)
    /\ drained' = [drained EXCEPT ![l] = @ \o log[l]]
    /\ log' = [log EXCEPT ![l] = <<>>]
    /\ UNCHANGED <<senders, notifier, fixed, guard, given, rest>>

(* StoreLock::receive, with a message that comes through no listener *)
ReceiveDirectly(l) ==
    /\ alive[l] /\ MorePushes /\ given[l] < MaxGiven
    /\ given' = [given EXCEPT ![l] = @ + 1]
    /\ created' = created + 1
    /\ Record(l, <<<<None, given'[l]>>>>)
    /\ UNCHANGED <<senders, notifier, fixed, guard, drained, aborted>>

DropLog(l) ==
    /\ alive[l] /\ ~guard[l]
    /\ Notifier!Die(l)
    /\ UNCHANGED <<senders, fixed, store, rest>>

Forget(l) == NotBorrowed /\ Notifier!Leave(l) /\ UNCHANGED <<senders, fixed, store, rest>>

------------------------------------------------------------------------------

FlushStep(s) ==
    \/ Flush(s) \/ FlushClosed(s) \/ Unwind(s) \/ FlushEnd(s)
    \/ \E l \in Logs : Call(s, l)
    \/ Discard(s) \/ Gather(s) \/ PassOn(s) \/ GiveUp(s) \/ PassOnRest(s)

Next ==
    /\ ~aborted
    /\ \/ \E s \in Senders : \/ NewBuffer(s) \/ Push(s) \/ PushPanics(s)
                             \/ DropBuffer(s) \/ FlushStep(s) \/ CatchPanic(s)
       \/ \E l \in Logs : \/ Listen(l) \/ Lock(l) \/ Drain(l) \/ Take(l)
                          \/ ReceiveDirectly(l) \/ DropLog(l) \/ Forget(l)
       \/ Close

(* A flush goes on, and the owner of a log does not keep its lock. *)
Fairness ==
    /\ \A s \in Senders : WF_vars(~aborted /\ FlushStep(s))
    /\ \A l \in Logs : WF_vars(~aborted /\ Drain(l))

Spec == Init /\ [][Next]_vars
FairSpec == Spec /\ Fairness

------------------------------------------------------------------------------
(* Properties. *)

SenderTypes ==
    /\ buffer \in [Senders -> Seq(Numbers)]
    /\ sender \in [Senders -> SenderStates]
    /\ dropping \in [Senders -> BOOLEAN]
    /\ pushed \in [Senders -> 0..MaxPush]
    /\ sent \in [Senders -> 0..MaxPush]

CallTypes ==
    /\ at \in [Senders -> Logs \cup {None}]
    /\ input \in [Senders -> Seq(Numbers)]
    /\ out \in [Senders -> Seq(Numbers)]

NotifierTypes ==
    /\ open \in BOOLEAN
    /\ members \in SUBSET Logs
    /\ owed \in [Senders -> SUBSET Logs]
    /\ alive \in [Logs -> BOOLEAN]

LogTypes ==
    /\ log \in [Logs -> Seq(Messages)]
    /\ drained \in [Logs -> Seq(Messages)]
    /\ guard \in [Logs -> BOOLEAN]
    /\ given \in [Logs -> 0..MaxGiven]

OtherTypes ==
    /\ raw \in BOOLEAN
    /\ passing \in Filtered
    /\ since \in [Logs -> [Senders -> 0..MaxPush]]
    /\ created \in 0..MaxPush
    /\ aborted \in BOOLEAN

BuffersFit ==
    \A s \in Senders :
      /\ Len(buffer[s]) <= Capacity
      /\ sender[s] = "open" /\ open => Len(buffer[s]) < Capacity
      /\ sender[s] = "unwinding" => ~open
      /\ sender[s] = "none" => buffer[s] = <<>>
      /\ Len(out[s]) <= Batch

CallsFit ==
    \A s \in Senders :
      /\ IF sender[s] = "filter" THEN at[s] \in owed[s] ELSE at[s] = None
      /\ sender[s] # "send" /\ sender[s] # "filter" => owed[s] = {}

(* Every variable has its type.  A buffer that is being filled has room     *)
(* ("We don't need to check for fullness before pushing", notifier.rs:551)  *)
(* until the notifier is closed, and only then does push() panic; the       *)
(* buffer of a filter is never overrun, and a call is in progress just when *)
(* a listener is being called that is owed its batch.                       *)
TypeOK ==
    /\ SenderTypes /\ CallTypes /\ NotifierTypes /\ LogTypes /\ OtherTypes
    /\ BuffersFit /\ CallsFit

(* All that has come into a log, the numbers of those of its messages that   *)
(* are from s, and whether these have come in their order and once.          *)
All(l) == drained[l] \o log[l]
Received(l, s) == {All(l)[i][2] : i \in {j \in DOMAIN All(l) : All(l)[j][1] = s}}
InOrder(l, s) ==
    \A i, j \in DOMAIN All(l) :
      i < j /\ All(l)[i][1] = s /\ All(l)[j][1] = s => All(l)[i][2] < All(l)[j][2]

(* The pushes of s up to the last one that the filter of l lets pass.        *)
Due(l, s, last) == {n \in Numbers : since[l][s] < n /\ n <= last /\ n \in passing[l]}

(* "Each message in the provided slice should be processed exactly the same *)
(* as if it were the only message provided" (listener.rs:53): whatever the  *)
(* buffers, the batches of the filter, and the drains in between, a log has *)
(* the messages of each sender in order and once, beginning with the first  *)
(* flush after it listened, with none left out before another, and all of   *)
(* them when it is owed no more; so are those that were delivered directly. *)
InOrderOnce ==
    \A l \in Logs :
      /\ \A s \in Senders \cup {None} : InOrder(l, s)
      /\ Received(l, None) = 1..given[l]
      /\ \A s \in Senders :
           /\ Received(l, s) \subseteq Due(l, s, sent[s])
           /\ \A n \in Received(l, s) : Due(l, s, n) \subseteq Received(l, s)
           /\ l \in members /\ alive[l] /\ l \notin owed[s] =>
                Received(l, s) = Due(l, s, sent[s])

(* "they will be delivered when the Buffer is dropped" (notifier.rs:549):   *)
(* with no Buffer left, every push has come to all who still listen.        *)
DropDelivers ==
    \A l \in members, s \in Senders :
      alive[l] /\ sender[s] = "none" => Received(l, s) = Due(l, s, pushed[s])

(* If the owners stop to lock their logs, every flush ends, or the process  *)
(* does: a dead target or an empty batch holds nobody up.                   *)
FlushesEnd ==
    <>[][~ \E l \in Logs : Lock(l)]_vars =>
      <>[](aborted \/ \A s \in Senders : sender[s] \notin Flushing)
==============================================================================
