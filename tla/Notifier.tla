------------------------------- MODULE Notifier -------------------------------
(***************************************************************************)
(* The Notifier and RawNotifier of src/src/notifier.rs: a vector of        *)
(* listeners behind a reader-writer lock.  Threads call notify_many,       *)
(* listen, count and close; each call to Listener::receive is a step of    *)
(* its own, because the target of a listener may be dropped by its owner   *)
(* at any moment, also while the vector is being walked.                   *)
(*                                                                         *)
(* A batch is not represented: notify_many treats all batches alike.  The  *)
(* answer of receive() is whether the listener's target is still there.    *)
(***************************************************************************)
EXTENDS Naturals, Sequences, FiniteSets

CONSTANTS Threads,      \* the callers
          Listeners,    \* the listener values the callers register
          MinCap,       \* the capacity of a Vec after its first push
          None          \* no thread, no listener

ASSUME NotifierAssumption ==
    /\ MinCap \in Nat \ {0}
    /\ IsFiniteSet(Listeners)
    /\ None \notin Threads
    /\ None \notin Listeners

VARIABLES
    open,        \* State::Open (TRUE) or State::Closed
    listeners,   \* RawNotifier.listeners, a sequence of NotifierEntry
    capacity,    \* listeners.capacity()
    readers,     \* the threads that hold the RwLock for reading
    writer,      \* the thread that holds it for writing, or None
    pc,          \* per thread, where it is in its call
    call,        \* per thread, the method it is in
    arg,         \* per thread, the listener passed to listen()
    index,       \* per thread, the entry it has reached, from 1
    answer,      \* per thread, what the last receive() returned
    alive,       \* per listener, whether its target still exists
    held,        \* listener values not yet moved into a call of listen()
    census,      \* history: registered and alive when a writer got the lock
    peak,        \* history: the greatest size of census so far
    refused      \* history: registered listeners that answered FALSE to a notify

vector == <<open, listeners, capacity>>
lock == <<readers, writer>>
threads == <<pc, call, arg, index, answer>>
clients == <<alive, held>>
history == <<census, peak, refused>>
vars == <<open, listeners, capacity, readers, writer, pc, call, arg, index,
          answer, alive, held, census, peak, refused>>

PCs == {"idle", "lock", "ask", "reap", "send", "mark", "panicked"}
Calls == {"none", "notify", "listen", "count", "close"}
Entries == [listener : Listeners, wasAlive : BOOLEAN]

Registered == {listeners[j].listener : j \in DOMAIN listeners}
InTransit == {arg[t] : t \in Threads} \ {None}
AliveRegistered == {l \in Registered : alive[l]}

Init ==
    /\ open = TRUE
    /\ listeners = <<>>
    /\ capacity = 0
    /\ readers = {}
    /\ writer = None
    /\ pc = [t \in Threads |-> "idle"]
    /\ call = [t \in Threads |-> "none"]
    /\ arg = [t \in Threads |-> None]
    /\ index = [t \in Threads |-> 1]
    /\ answer = [t \in Threads |-> FALSE]
    /\ alive = [l \in Listeners |-> TRUE]
    /\ held = Listeners
    /\ census = {}
    /\ peak = 0
    /\ refused = {}

------------------------------------------------------------------------------
(* The vector. *)

NewEntry(l) == [listener |-> l, wasAlive |-> TRUE]

(* Mutants of SwapRemove: truncate, or forget to. *)
RemoveLast(s, i) == [j \in 1..Len(s) - 1 |-> s[j]]
SwapOnly(s, i) == [s EXCEPT ![i] = s[Len(s)]]

(* Vec::swap_remove: the last entry takes the place of the removed one. *)
SwapRemove(s, i) ==
    [j \in 1..Len(s) - 1 |-> IF j = i THEN s[Len(s)] ELSE s[j]]

(* Vec::push doubles a full vector, to at least MinCap. *)
Grown(cap, len) ==
    IF len < cap THEN cap
    ELSE IF 2 * cap > MinCap THEN 2 * cap ELSE MinCap

(* Mutant of Full: no pass before the vector grows. *)
NeverFull(s, cap) == FALSE

(* The test of drop_dead_if_full. *)
Full(s, cap) == Len(s) >= cap

(* Mutant of Keep: was_alive alone, without asking. *)
KeepUnlessMarked(e) == e.wasAlive

(* drop_dead_listeners keeps an entry that has never refused and does not *)
(* refuse now.                                                            *)
Keep(e) == e.wasAlive /\ alive[e.listener]

(* Mutant of FetchAnd: store(alive). *)
OverwriteFlag(e, a) == [e EXCEPT !.wasAlive = a]

(* was_alive.fetch_and(alive) *)
FetchAnd(e, a) == [e EXCEPT !.wasAlive = @ /\ a]

------------------------------------------------------------------------------
(* The lock. *)

(* Mutants: no lock for readers; a writer that does not wait for readers. *)
ReadFreeAlways == TRUE
WriteFreeOfWriters == writer = None

ReadFree == writer = None
WriteFree == writer = None /\ readers = {}

------------------------------------------------------------------------------
(* Calls begin. *)

Begin(t, c) ==
    /\ pc[t] = "idle"
    /\ pc' = [pc EXCEPT ![t] = "lock"]
    /\ call' = [call EXCEPT ![t] = c]
    /\ UNCHANGED <<vector, lock, index, answer, alive, history>>

BeginNotify(t) == Begin(t, "notify") /\ UNCHANGED <<arg, held>>
BeginCount(t) == Begin(t, "count") /\ UNCHANGED <<arg, held>>
BeginClose(t) == Begin(t, "close") /\ UNCHANGED <<arg, held>>

(* The listener is moved into the call, and from there into the vector or *)
(* to its end.                                                            *)
BeginListen(t, l) ==
    /\ l \in held
    /\ Begin(t, "listen")
    /\ arg' = [arg EXCEPT ![t] = l]
    /\ held' = held \ {l}

BeginCall(t) ==
    \/ BeginNotify(t) \/ BeginCount(t) \/ BeginClose(t)
    \/ \E l \in Listeners : BeginListen(t, l)

(* A call returns: its argument, if it still has one, is dropped. *)
Return(t) ==
    /\ pc' = [pc EXCEPT ![t] = "idle"]
    /\ call' = [call EXCEPT ![t] = "none"]
    /\ arg' = [arg EXCEPT ![t] = None]
    /\ index' = [index EXCEPT ![t] = 1]
    /\ answer' = [answer EXCEPT ![t] = FALSE]

Goto(t, label) ==
    /\ pc' = [pc EXCEPT ![t] = label]
    /\ UNCHANGED <<call, arg>>

------------------------------------------------------------------------------
(* notify_many: under the read lock, each listener in turn.  receive() and *)
(* the update of was_alive are two steps: other threads may be notifying.  *)

AcquireRead(t) ==
    /\ pc[t] = "lock" /\ call[t] = "notify" /\ ReadFree /\ open
    /\ readers' = readers \cup {t}
    /\ Goto(t, "send")
    /\ UNCHANGED <<vector, writer, index, answer, clients, history>>

(* The panic of notify_many; unwinding releases the read guard. *)
NotifyClosed(t) ==
    /\ pc[t] = "lock" /\ call[t] = "notify" /\ ReadFree /\ ~open
    /\ Goto(t, "panicked")
    /\ UNCHANGED <<vector, lock, index, answer, clients, history>>

Send(t) ==
    /\ pc[t] = "send" /\ index[t] <= Len(listeners)
    /\ LET l == listeners[index[t]].listener
       IN  /\ answer' = [answer EXCEPT ![t] = alive[l]]
           /\ refused' = IF alive[l] THEN refused ELSE refused \cup {l}
    /\ Goto(t, "mark")
    /\ UNCHANGED <<vector, lock, index, clients, census, peak>>

Mark(t) ==
    /\ pc[t] = "mark"
    /\ listeners' = [listeners EXCEPT ![index[t]] = FetchAnd(@, answer[t])]
    /\ index' = [index EXCEPT ![t] = @ + 1]
    /\ Goto(t, "send")
    /\ UNCHANGED <<open, capacity, lock, answer, clients, history>>

(* Mutant of NotifyReturn: it removes the dead it has found, like count(), but *)
(* in the scope of its read guard.                                             *)
NotifyReturnReaping(t) ==
    /\ pc[t] = "send" /\ index[t] > Len(listeners)
    /\ IF \A i \in DOMAIN listeners : listeners[i].wasAlive
         THEN readers' = readers \ {t} /\ Return(t)
         ELSE /\ pc' = [pc EXCEPT ![t] = "lock"]
              /\ call' = [call EXCEPT ![t] = "count"]
              /\ index' = [index EXCEPT ![t] = 1]
              /\ UNCHANGED <<readers, arg, answer>>
    /\ UNCHANGED <<vector, writer, clients, history>>

NotifyReturn(t) ==
    /\ pc[t] = "send" /\ index[t] > Len(listeners)
    /\ readers' = readers \ {t}
    /\ Return(t)
    /\ UNCHANGED <<vector, writer, clients, history>>

------------------------------------------------------------------------------
(* listen, count and close: under the write lock. *)

AcquireWrite(t) ==
    /\ pc[t] = "lock" /\ call[t] \in {"listen", "count"} /\ WriteFree /\ open
    /\ writer' = t
    /\ census' = AliveRegistered
    /\ peak' = IF Cardinality(census') > peak THEN Cardinality(census') ELSE peak
    /\ Goto(t, IF call[t] = "listen" THEN "ask" ELSE "reap")
    /\ UNCHANGED <<vector, readers, index, answer, clients, refused>>

(* On a closed notifier listen() drops the listener and count() finds nothing. *)
CallClosed(t) ==
    /\ pc[t] = "lock" /\ call[t] \in {"listen", "count"} /\ WriteFree /\ ~open
    /\ Return(t)
    /\ UNCHANGED <<vector, lock, clients, history>>

(* The old State is dropped, and the listeners with it, before the guard. *)
Close(t) ==
    /\ pc[t] = "lock" /\ call[t] = "close" /\ WriteFree
    /\ open' = FALSE
    /\ listeners' = <<>>
    /\ capacity' = 0
    /\ refused' = {}
    /\ Return(t)
    /\ UNCHANGED <<lock, clients, census, peak>>

Unlock(t) ==
    /\ writer' = None
    /\ census' = {}
    /\ Return(t)
    /\ UNCHANGED <<open, readers, clients, peak>>

Push(t) ==
    /\ listeners' = Append(listeners, NewEntry(arg[t]))
    /\ capacity' = Grown(capacity, Len(listeners))
    /\ Unlock(t)
    /\ UNCHANGED refused

(* listen_raw first asks the newcomer whether it is alive. *)
ListenDead(t) ==
    /\ pc[t] = "ask" /\ ~alive[arg[t]]
    /\ Unlock(t)
    /\ UNCHANGED <<listeners, capacity, refused>>

ListenPush(t) ==
    /\ pc[t] = "ask" /\ alive[arg[t]] /\ ~Full(listeners, capacity)
    /\ Push(t)

ListenFull(t) ==
    /\ pc[t] = "ask" /\ alive[arg[t]] /\ Full(listeners, capacity)
    /\ Goto(t, "reap")
    /\ UNCHANGED <<vector, lock, index, answer, clients, history>>

(* One turn of the loop of drop_dead_listeners, which listen and count run. *)
ReapKeep(t) ==
    /\ pc[t] = "reap" /\ index[t] <= Len(listeners)
    /\ Keep(listeners[index[t]])
    /\ index' = [index EXCEPT ![t] = @ + 1]
    /\ UNCHANGED <<vector, lock, pc, call, arg, answer, clients, history>>

ReapDrop(t) ==
    /\ pc[t] = "reap" /\ index[t] <= Len(listeners)
    /\ ~Keep(listeners[index[t]])
    /\ listeners' = SwapRemove(listeners, index[t])
    /\ refused' = refused \ {listeners[index[t]].listener}
    /\ UNCHANGED <<open, capacity, lock, threads, clients, census, peak>>

ReapListen(t) ==
    /\ pc[t] = "reap" /\ call[t] = "listen" /\ index[t] > Len(listeners)
    /\ Push(t)

(* count() returns Len(listeners). *)
ReapCount(t) ==
    /\ pc[t] = "reap" /\ call[t] = "count" /\ index[t] > Len(listeners)
    /\ Unlock(t)
    /\ UNCHANGED <<listeners, capacity, refused>>

------------------------------------------------------------------------------
(* The owners of the targets. *)

Die(l) ==
    /\ alive[l]
    /\ alive' = [alive EXCEPT ![l] = FALSE]
    /\ UNCHANGED <<vector, lock, threads, held, history>>

(* A value the notifier is done with, and that census no longer mentions, *)
(* stands for a new one from here on.                                     *)
Renew(l) ==
    /\ l \notin held \cup Registered \cup InTransit \cup census
    /\ alive' = [alive EXCEPT ![l] = TRUE]
    /\ held' = held \cup {l}
    /\ UNCHANGED <<vector, lock, threads, history>>

------------------------------------------------------------------------------

(* What a thread does once its call has begun. *)
Step(t) ==
    \/ AcquireRead(t) \/ NotifyClosed(t) \/ Send(t) \/ Mark(t) \/ NotifyReturn(t)
    \/ AcquireWrite(t) \/ CallClosed(t) \/ Close(t)
    \/ ListenDead(t) \/ ListenPush(t) \/ ListenFull(t)
    \/ ReapKeep(t) \/ ReapDrop(t) \/ ReapListen(t) \/ ReapCount(t)

Next ==
    \/ \E t \in Threads : BeginCall(t) \/ Step(t)
    \/ \E l \in Listeners : Die(l) \/ Renew(l)

Spec == Init /\ [][Next]_vars

(* A running thread is eventually scheduled.  Nothing is assumed of the *)
(* order in which a lock admits the threads that wait for it.           *)
Fairness == \A t \in Threads : WF_vars(Step(t))

FairSpec == Spec /\ Fairness

------------------------------------------------------------------------------
(* Properties. *)

DataOK ==
    /\ open \in BOOLEAN
    /\ listeners \in Seq(Entries)
    /\ capacity \in Nat
    /\ Len(listeners) <= capacity
    /\ ~open => listeners = <<>>
    /\ alive \in [Listeners -> BOOLEAN]
    /\ held \in SUBSET Listeners
    /\ census \in SUBSET Listeners
    /\ peak \in Nat
    /\ refused \in SUBSET Listeners

ThreadOK ==
    /\ pc \in [Threads -> PCs]
    /\ call \in [Threads -> Calls]
    /\ arg \in [Threads -> Listeners \cup {None}]
    /\ index \in [Threads -> Nat \ {0}]
    /\ answer \in [Threads -> BOOLEAN]
    /\ \A t \in Threads :
         /\ pc[t] = "idle" <=> call[t] = "none"
         /\ call[t] = "listen" <=> arg[t] # None
         /\ pc[t] \in {"send", "mark", "panicked"} => call[t] = "notify"
         /\ pc[t] = "ask" => call[t] = "listen"
         /\ pc[t] = "reap" => call[t] \in {"listen", "count"}

LockOK ==
    /\ readers = {t \in Threads : pc[t] \in {"send", "mark"}}
    /\ writer \in Threads \cup {None}
    /\ \A t \in Threads : writer = t <=> pc[t] \in {"ask", "reap"}
    /\ writer # None => readers = {}
    /\ ~open => writer = None /\ readers = {}

CursorOK ==
    \A t \in Threads :
      /\ pc[t] \in {"send", "reap"} => index[t] <= Len(listeners) + 1
      /\ pc[t] = "mark" => index[t] <= Len(listeners)
      /\ pc[t] \notin {"send", "mark", "reap"} => index[t] = 1

(* Every variable has its type; the lock is held by the threads in the      *)
(* guarded part of a call and by them only, never for writing with any      *)
(* other holder; and no cursor runs off the vector (notifier.rs:284-296).   *)
TypeOK == DataOK /\ ThreadOK /\ LockOK /\ CursorOK

(* No two entries are the same listener, and a listener value is with one   *)
(* owner: a client, a call of listen() or the vector.  swap_remove moves    *)
(* entries around under a cursor that is walking them (notifier.rs:371-385).*)
OneOwner ==
    /\ \A j, k \in DOMAIN listeners :
         listeners[j].listener = listeners[k].listener => j = k
    /\ \A t, u \in Threads : arg[t] = arg[u] /\ arg[t] # None => t = u
    /\ held \cap Registered = {}
    /\ held \cap InTransit = {}
    /\ Registered \cap InTransit = {}

(* While the notifier is open a listener whose target is alive is never     *)
(* lost: once handed to listen() it is in the call or in the vector,        *)
(* whatever passes of drop_dead_listeners ran meanwhile.                    *)
NoAliveListenerLost ==
    open => \A l \in Listeners :
              alive[l] => l \in held \cup InTransit \cup Registered

(* "True iff every call to listener.receive() has returned true"            *)
(* (notifier.rs:126), up to the moment between an answer and the fetch_and  *)
(* that records it, with several threads notifying the same entry.          *)
WasAliveTracksReceive ==
    \A j \in DOMAIN listeners :
      LET e == listeners[j]
      IN  /\ ~e.wasAlive => e.listener \in refused
          /\ e.listener \in refused =>
               \/ ~e.wasAlive
               \/ \E t \in Threads : pc[t] = "mark" /\ index[t] = j /\ ~answer[t]

(* What makes the two above inductive: only dead, registered listeners are  *)
(* in refused, and a thread with a FALSE answer still to record put it there.*)
RefusedOK ==
    /\ refused \subseteq Registered
    /\ \A l \in refused : ~alive[l]
    /\ \A t \in Threads :
         pc[t] = "mark" /\ ~answer[t] => listeners[index[t]].listener \in refused

(* Calling listen() again and again without ever notifying does not leak    *)
(* (notifier.rs:376-378): the vector grows only when everything in it was   *)
(* alive at once, so its memory is within twice the most there ever were.   *)
CapacityBounded == capacity <= MinCap \/ capacity <= 2 * peak

(* The number count() is about to return is that of a set of listeners that *)
(* has all those alive now and none but those alive when it got the lock.   *)
CountExact ==
    \A t \in Threads :
      pc[t] = "reap" /\ index[t] > Len(listeners) =>
        /\ Len(listeners) = Cardinality(Registered)
        /\ Registered \subseteq census
        /\ {l \in census : alive[l]} \subseteq Registered

(* What makes the two above inductive: census has all the registered that   *)
(* are alive, and every entry the cursor has passed.                        *)
CensusOK ==
    /\ Cardinality(census) <= peak
    /\ \A t \in Threads : pc[t] \in {"ask", "reap"} =>
         /\ AliveRegistered \subseteq census
         /\ {l \in census : alive[l]} \subseteq Registered
         /\ \A j \in 1..index[t] - 1 : listeners[j].listener \in census

(* The vector implements the abstract broadcast: a notification is owed to  *)
(* the entries from the cursor on.                                          *)
OwedTo(t) ==
    {listeners[j].listener :
       j \in {k \in DOMAIN listeners : \/ pc[t] = "send" /\ k >= index[t]
                                       \/ pc[t] = "mark" /\ k > index[t]}}

Promise == INSTANCE Broadcast
             WITH members <- Registered, owed <- [t \in Threads |-> OwedTo(t)]

(* Exactly-once delivery to those registered when the call took the lock,   *)
(* no join, leave or close meanwhile, no departure of the living.           *)
ImplementsBroadcast == Promise!Spec

(* Once the clients make no new calls, every call in progress returns (or   *)
(* has panicked): no walk of the vector runs on, no lock is left held.      *)
CallsFinish ==
    <>[][~ \E t \in Threads : BeginCall(t)]_vars =>
      <>[](\A t \in Threads : pc[t] \in {"idle", "panicked"})
==============================================================================
