# nosy: change notification, specified and checked

nosy is a library of listeners: a `Notifier` broadcasts messages to `Listener`s
that are held weakly, and on top of it stand containers that tell when their
value changes (`Cell`, `Flatten`) and listeners that remember that something
came (`Flag`, `WakeFlag`, `Log`).  Nothing is persisted and there is no network;
what makes it hard is that all of it runs under several threads, that any
listener's target may be dropped at any moment, and that each operation is
several accesses to shared memory, under locks that cover only part of it.

Modules of TLA+ state what each component does, step by step, and what it
promises; TLC checks small instances, TLAPS proves the main invariants for all.

## 1. The system

| component | state | operations | talks to |
|---|---|---|---|
| `Notifier`, `RawNotifier` (notifier.rs) | `RwLock` of Open(vector of entries) or Closed; an entry is a listener and `was_alive` | `notify`, `notify_many`, `listen`, `listen_raw`, `count`, `close` | calls `receive()` of its listeners under its lock |
| `Buffer`, `RawBuffer` | an array of pending messages | `push`, flush when full and on drop | `notify_many` |
| `NotifierForwarder` | weak reference to a notifier | `receive` | `notify_many` of another notifier |
| `Cell`, `CellSource`, `CellWithLocal` (cell.rs) | a value in a `LoadStore`, a notifier | `set`, `set_if_unequal`, `update_mut`, `get`, drop | replaces the value, then notifies; closes the notifier on drop |
| `Flatten` (source/flatten.rs) | cached inner source with its generation and `Gate` under a mutex, a generation counter, a notifier | `get`, `listen`, the two listeners | listens to the outer source and to the current inner one, forwards to its clients |
| `Constant`, `Map` (source.rs, source/map.rs) | none | `get`, `listen` | the source they wrap |
| `Flag` (simple_listeners.rs) | one atomic bool | `receive`, `set`, `get_and_clear`, drop | |
| `WakeFlag` (future.rs) | an atomic bool, an `AtomicWaker`, a weak count of the listeners | `receive`, clone and drop of listeners, `wait`/`poll`, `notify` | the executor of the waiting task |
| `Log`, `StoreLock` (store_lock.rs, store.rs) | a value under a mutex | `receive`, `take`, `drain`, `lock` | |
| `Gate`, `Filter`, pairs, `NullListener` | none but a reference count | `receive` | the listener they wrap |
| `LoadStore`, maybe_sync.rs | a value | `get`, `replace`, `replace_if_unequal`; locks | |
| convert.rs, util.rs, lib.rs, xtask | none | conversions of types, formatting, aliases, build | |

Interaction is by call: a `set()` calls `notify()`, which calls `receive()` of each
listener in turn, under the read lock of the notifier; a listener may be the
forwarder of another notifier.  The contract of `receive()` (listener.rs:40-88) is
what keeps this sane: it must not block, panic or take locks of others, and it
returns FALSE once its target is gone.

### What is hard

* Notifier: several walks of the vector at once, each updating `was_alive`;
  `swap_remove` under a cursor; listeners dying while they are counted; `listen`,
  `notify` and `close` in any order; memory when nobody ever notifies.
* Cell: replace and notify are two steps; readers clear, get and listen in between.
* WakeFlag: flag, waker and reference count are three words of memory, read and
  written in an order that matters.
* Flatten: a get() reads a counter, a cache under a lock, the outer source without
  it, and stores a new cache under the lock again; others do the same meanwhile.
* Flag: the orderings of atomics when several writers set one flag, which is all that
  carries a value from the writer's thread to the reader's.
* Forwarders: a call holds the locks of every notifier on its way down, while others wait
  for them or drop what is below; a panic unwinds through all of it.
* Gate: it is looked at first and the target is called then.
* Buffers: panics in a flush.

`PROJECT.json` lists these hazards at their lines with the properties that watch them.

### What makes each component correct

* Notifier: a batch is delivered exactly once to those registered when the call
  took the lock; an alive listener is never lost, a dead one is not kept for ever;
  `was_alive` and `count()` mean what they say; calls end.
* Cell with Flag: no change goes unnoticed, nothing is retained after the drop.
* WakeFlag: a message or the end of all messages ends a wait; FALSE is final.
* Flatten: the promise of a Source, of whatever inner source is current.
* Forwarders, gates and pairs: a batch goes on to all that stays connected, to nothing
  that was disconnected before it; the locks on the way are free again after it, and
  calls never wait for each other in a circle.
* Flag, as memory: who clears it sees what its setter had written.
* Log: no message is lost, doubled or split.  Filter, Buffer: the same, in order.

## 2. The modules

| module | models | composes |
|---|---|---|
| `Broadcast` | what a Notifier promises: members, and what is owed to them | |
| `Notifier` | `Notifier` with its lock and vector | implements `Broadcast` |
| `NotifierProofs` | theorems about `Notifier` | |
| `Cell` | `Cell`, `CellSource`, `Map`, `Flag`, writers and readers | contains a `Broadcast` |
| `CellProofs` | theorems about `Cell` | |
| `Delivery` | `Buffer` and `RawBuffer`, `Filter`, `Log` and `StoreLock`, with messages | contains a `Broadcast` |
| `DeliveryProofs` | theorems about `Delivery` | |
| `WakeFlag` | `WakeFlag`, its listeners and its task | |
| `WakeFlagProofs` | theorems about `WakeFlag` | |
| `Flatten` | `Flatten` with its two sources and its clients | |
| `FlattenProofs` | theorems about `Flatten` | |
| `Forwarding` | networks of notifiers with `NotifierForwarder`, `Gate`, pairs and `NullListener` | |
| `ForwardingProofs` | theorems about `Forwarding` | |
| `FlagMemory` | `Flag`, `Cell`, `CellWithLocal` and `LoadStore` in a weak memory | |
| `FlagMemoryProofs` | theorems about `FlagMemory` | |
| `MC*` | the instances that TLC checks | |

Definitions named *Mutant of ...* are no part of the specifications: each is the
definition that follows it with a plausible bug, to see that a property notices.

### Notifier

`listeners` is the vector, `capacity` its allocation, `open` the state; `readers`
and `writer` are the holders of the RwLock.  Per thread, `pc`, `call`, `arg`, `index`
and `answer` are its program counter and locals.  One call is a chain of actions:

* `notify_many`: `AcquireRead` (or `NotifyClosed`, the panic), then `Send` and `Mark` for
  each entry, then `NotifyReturn`.  `Send` is the call of `receive()`, `Mark` the
  `fetch_and`; other threads' walks come in between.
* `listen`: `AcquireWrite` (or `CallClosed`), the question to the newcomer (`ListenDead`),
  the test for a full vector (`ListenPush`, `ListenFull`), the loop of
  `drop_dead_listeners` (`ReapKeep`, `ReapDrop`) and `ReapListen`.
* `count`: `AcquireWrite`, the same loop, `ReapCount`.  `close`: one step, `Close`.
* `Die(l)`: the target of a listener is dropped; enabled at any moment.  `Renew(l)`
  makes a value that the notifier is done with stand for a new listener, so that a
  finite set of values makes runs of any length.

Batches are not represented: `notify_many` treats them all alike.  `count()` is that
of `Notifier`.
`census`, `peak` and `refused` are history variables of the properties.

The listener types of the model are those whose answer is whether the target
exists, which is what the contract says and what all listeners of the crate do.

### Cell

`value` is replaced in one step, as by every `LoadStore`.  `Set`, `SetIfUnequal`,
`UpdateGet` and `UpdateSet` lead to `Notify`, `Deliver` for each listener and
`Return`.  The function given to `update_mut` may make any value.  The notifier is an
instance of `Broadcast`, so that `Notify` is its `Begin`, `DropCell` its `Close`, and
so on.  A reader listens, gets, and then gets again whenever `get_and_clear()`
returns TRUE.  What it reads is `Through[f]` of the value: the source itself, if that function is the
identity, or a `Map`, which passes listeners on to its source and keeps no cache.  When a call changes nothing (a `set_if_unequal` of an equal value, a
`get_and_clear` of a clear flag) it is no step.

### Delivery

The way of a message: `Push` and `DropBuffer` of the sender's `Buffer`, `Flush` and `FlushEnd`, between
them a `Call` of each listener, whose filter takes the batch message by message (`Discard`,
`Gather`, `PassOn` of a full buffer, `PassOnRest` at the end, `GiveUp` on a dead target), and
`Receive`, the appending to the log under its lock.  The log's owner locks it to drain it
(`Lock`, `Drain`), takes all of it at once (`Take`), drops it, or anybody delivers to it
without a listener (`ReceiveDirectly`).  Messages are the numbers of a sender's pushes; a
filter is the set of those that pass.  A filter of messages of size zero passes a whole
batch on at the end, as one does whose `Batch` is not reached.  A `Mutex` or `RefCell` of a vector
that is a `StoreRef` behind a weak reference takes the same steps as a `StoreLock`.  `created`
counts all pushes and direct messages, for the bound `MaxPush` only.

`raw` says whether the notifier is a `RawNotifier`.  Its buffers have it to themselves, so
that nobody listens or sends meanwhile (`NotBorrowed`), and it cannot be closed.

If the notifier is closed, a flush panics (`FlushClosed`).  Out of `push` the stack unwinds
through the `Buffer`, whose `Drop` finds the messages still there and flushes again: a
panic in a panic, and the process aborts (`Unwind`).  A caller may catch the panic before it
gets that far (`CatchPanic`): then the `Buffer` lives on, full, and the next push() panics for
want of room (`PushPanics`), so that it can only be dropped.  No document of the crate speaks of
it; a flush of `Drop` itself panics once, and the messages are lost.  `TypeOK` says that a buffer
is full at a push() only if the notifier is closed.

### WakeFlag

`notified`, `waker` and the listeners that still hold their `_alive` (`Strong`) are the
shared state.  `receive()` and `notify()` are two steps each (store, wake), the drop of a
listener three (begin, wake, drop of `_alive`), `poll()` five (`swap1`, `count1`, `register`,
`swap2`, `count2`).  `parallel` says whether the task and the listeners run on several
threads; if not, operations do not overlap, so that properties can be stated for
each of the two.  The `AtomicWaker` and the executor are external.

### Flatten

`generation` is `generation_from_listening`, that is `changes` modulo `GenSpan`, and `state` the
cached source with the generation it was stored under.  A get() is `Load`, `Check`, and if the
cache does not fit `GetOuter`, `ListenInner`, `Store`; then `Read`.  `Listening(s)` is whether a gate for
`s` is alive, in the cached state or in the `new_state` of a get() in progress.  Setters
change the outer and the inner sources in the two steps of `Cell::set`; the
notification of the outer source goes through `OuterListener::receive`, which counts
and then notifies.  The notification of all clients is one step.

All clients have a Flag that listens to the Flatten.  Those in `Getters` call get(); the
others watch, and `start` records what there was to see when they came.  The properties
hold as long as the generation has not wrapped (`NotWrapped`): after 2^32 changes the state
that every get() stores under generation 0 passes for current.

`WatcherIsTold` is of clients that only listen, and promises changes of the inner source only to
one who came when somebody had subscribed.  flatten.rs:28-29 says of the state that it is updated
upon the next get() or listen(); `listen` and `listen_raw` (flatten.rs:131-145) do not touch it, so
that a client which listens and waits to be told before it gets is never told of a change of
the inner source, unless somebody else has called get().

### Forwarding

A network: notifiers, sinks, and links, each a listener registered with one notifier,
behind a gate, with the nodes it passes batches to (none for a `NullListener`, two for a
pair).  A call is a stack of activations of `notify_many`, one per notifier on the way down,
each with the links it has still to call and the targets of the one it is calling.
`AcquireRead` enters, `Receive` passes the gate, `CallSink` and `CallForwarder` call the targets, `LinkDone` and
`ReturnToForwarder` return the answers, `Return` and `Panic` leave.  `listen` and `count` are the same
with an empty batch, under the write lock of the notifier they are called on
(`AcquireWrite`).  A closed notifier panics in the middle of the stack, and every guard on it
goes (`Panic`).  Meanwhile owners close and drop notifiers, gates and sinks; an activation
keeps the notifier it is in by the `Arc` of its upgrade (`Strong`).  A panic poisons a lock of
std, and maybe_sync.rs:243-248 takes a poisoned lock as it is, so that no action depends on it.

`steady` is what has been connected since a call began, `reached` where its batch has come to,
and `passed` which link has told what, all for `Complete`: of each link that the batch came to,
every target that stayed connected must have been told by that very link, so that a target
with two ways to it does not hide that one of them failed.

Vectors are sets here; their order and cursors are the business of `Notifier`.  Networks
have no cycles: a forwarder that leads back to its notifier takes the same read lock
twice on one thread, which maybe_sync.rs:55 leaves open whether it deadlocks.

### FlagMemory

`Cell` takes memory for sequentially consistent.  `FlagMemory` does not: the value is a history
`xs` of writes, and each thread has a view, the oldest write it can still read.  The release
store to a flag leaves the view of its thread in it, the acquiring swap of
`get_and_clear` joins it, and so do the locks of the notifier and of a value under a lock.  Who
takes the notifier's lock to read (`Notify`) learns what its writers have left there
(`writeView`), and who takes it to write what anybody has (`lockView`): readers share the
lock, and nothing orders one after another.  A relaxed load of an atomic value reads anything from the view on.  `kind` makes the same
steps those of a `CellWithLocal`, which writes its local copy first and has one writer at a
time.

The model found a limit of the design.  A flag has one place for a view.  When two threads
set an atomic value, the second release store to the flag takes the place of the first
before the reader has cleared it, and the reader synchronizes with the second writer
only; it may then read an atomic older than the first write, at rest and with a clear
flag: finding 5.  The same happens when the reader sets its own flag, of which no document says
more than that it is for trying again.  So `NoChangeUnnoticed` has its
condition here: the value is under a lock, or one thread sets at a time and no one else
sets the flag.  `SeesWhatItWasTold` is without condition: a reader that clears a flag sees
what the store that it cleared came after.  `NoStoreOutdone` is what simple_listeners.rs:160-164
would have a user expect, that it sees what came before any store that set the flag.
`LocalAgrees`, a part of `TypeOK`, is that the two copies of a `CellWithLocal` are equal whenever
no set() is between them.

Limits: a store to a flag always takes effect after those made before it, so outcomes are
left out that the language allows and that come only of stores of one variable which
take effect in another order than they are made.  A panicking `Clone` in `CellWithLocal::set` is
left out.

## 3. The runs

| run | instance | states | shows |
|---|---|---|---|
| `notifier` | 2 threads, 3 listeners, first capacity 1 | 288,141 | all properties of Notifier, and that it implements Broadcast |
| `cell` | 2 writers, 2 flags, one with a Map, 3 values | 146,532 | all properties of Cell |
| `delivery` | 2 senders, 1 log, capacity 3, batch 2, 4 messages, 6 filters | 617,380 | all properties of Delivery |
| `wake_flag` | 3 listeners | 33,802 | what holds of WakeFlag |
| `wake_flag_lost_wake` | 2 listeners | | finding 1 |
| `wake_flag_final` | 2 listeners | | finding 2 |
| `flatten` | 2 setters, a client that gets and one that watches, 2 sources, 4 sets | 546,446 | what holds of Flatten with one reading thread |
| `flatten_race` | 1 setter, 2 clients that get, 2 sources, 3 sets | | finding 3 |
| `forwarding` | 2 threads, 2 notifiers, a gated pair of a forwarder and a sink, a NullListener, a late listener, 2 losses | 462,590 | all properties of Forwarding but the next |
| `forwarding_closed` | the same network, 1 loss | | finding 4 |
| `flag_memory` | 2 writers, 1 flag, 2 values, 4 writes | 749,530 | all properties of FlagMemory but the next |
| `flag_memory_race` | 2 writers, 1 flag, 2 values, 3 writes | | finding 5 |

Bounds.  Two threads give every pair of overlapping calls, and all that threads do
to each other in the Notifier is by pairs: two walks, or a walk that a writer waits
for.  Three listeners let `swap_remove` act in the middle, at the end and alone, and
let the capacity go from 1 to 2 to 4; behaviours are unbounded, because listeners
are renewed.  (A Vec really starts at 4: `MinCap` is a parameter, and the proofs are for
every value.)  In Cell two writers overlap in every way, and a value can be overwritten
and come back; the Map of the second flag makes two of the three values one, so that it
is also told of changes that it cannot see.  In Delivery four pushes fill one buffer of
three, which the filter splits into two and one, while another sender flushes, by drop,
in between; the filters let all, none, the first, the last or some in the middle pass;
`MaxPush` bounds pushes and direct messages together, `MaxGiven` = 1 of the latter.  Three
listeners of a WakeFlag let one send, one be dropped and one be cloned.  `MaxSets` bounds the
calls of set() in Flatten: four let an outer change be followed by an inner one twice, and
let `GenSpan` = 4 generations wrap at the end, after every state short of it.  `MaxLosses` = 2 in
Forwarding: every two of a close, and drops of a notifier, a gate and a sink, meet in every
order.  The network is the smallest with a forwarder below a held lock, a target that can
be reached in two ways, and a listener that comes late under a call in progress.  In
FlagMemory, four writes let each of two writers overwrite the other's flag store, and
bring an old value back.

Fairness.  Once begun, an operation goes on: the system schedules a running thread
(weak fairness of the steps within a call).  Nobody is made to begin one.  Nothing is
assumed of the order in which a lock admits those who wait, so no property says that
one waiting call returns while others keep coming.  In WakeFlag the executor polls a
task it was told to poll, even if others keep taking turns on its thread (strong
fairness of `scheduled /\ Poll`), and polls no other.  In Cell and Flatten a reader whose
flag is set comes to look, in its main loop.  In Delivery the owner of a log does not keep
its lock for ever.  In Forwarding a step counts as possible only if a lock that makes readers
wait behind waiting writers admits it too (`Unhindered`), so that `CallsFinish` holds of all
locks that the crate may be built with.  FlagMemory states no liveness.

Deadlock is not checked for: every one of these systems may stop, when all calls have
returned, or have panicked, and nobody makes a new one, or its owners have gone, or a bound
is reached.  That no call is stuck is
`CallsFinish`, `FlushesEnd`, `ReadersCatchUp`, `ClientsCatchUp`.

### Findings

1. *Lost wakeup* (`ClosingEndsWait`).  `Drop for WakeFlagListener` (future.rs:227-233) wakes the
   task, and only then is the field `_alive` dropped.  A task on another thread that is
   polled in between sees one listener still alive, and goes back to sleep; nobody
   wakes it again.  On one thread it does not happen (`ClosingEndsWaitOnOneThread`).
2. *FALSE, then TRUE* (`FalseIsFinal`).  `get_and_clear` (future.rs:267-275) looks at the flag and
   then at the number of listeners.  A message and the last drop between the two make
   wait() return FALSE with a message in the flag, and the next wait() TRUE, against
   future.rs:175-177.  On one thread it does not happen.
3. *Lost subscription* (`NoChangeUnnoticed` of Flatten).  A new `State` is built with
   `generation: 0` (flatten.rs:107), so that after the first change of the outer source no
   cached state is ever found new enough: of two threads in get() the slower one
   replaces the newer state and drops its gate.  With the generation that get() had
   loaded in place of 0 the same instance has no such behaviour.  With one reading
   thread the only effect is that each get() fetches and subscribes anew, and nothing
   goes unnoticed (run `flatten`).
4. *Forwarding to a closed notifier* (`PanicsOnlyIfClosed`).  `NotifierForwarder::receive` (notifier.rs:647) calls
   `notify_many` of a target that may be closed: a notify(), listen() or count() of an open
   notifier panics.  listener.rs:57-58 forbids receive() to panic, and notifier.rs:220-222 promises
   a panic only for the notifier that was closed itself.
5. *A store outdone* (`NoStoreOutdone`).  `FlagListener::receive` (simple_listeners.rs:304) sets the flag by a
   plain release store, which ends the release sequence of the store before it.  Of two
   overlapping set() of an atomic cell, whose swap is relaxed, the one with the later value may
   store to the flag first.  The reader then acquires from the other only, may get the older
   value, and rests with a clear flag.  A swap or `fetch_or` in place of the store would keep
   the sequence.  This is an outcome that the language allows and that a compiler or a machine
   with weaker ordering between processors may produce; one where a store becomes visible to all
   at once does not.

## 4. The proofs

TLAPS proves every safety property that a passing run checks, and that Notifier implements
Broadcast.  The theorems hold for every number of threads, listeners, clients, sources,
flags, messages and values, every network without cycles and every capacity.  Each module
`XProofs` EXTENDS the module `X` that it is about.  Beyond `Spec` they assume what the
modules assume of their constants:

* `None` is none of the values it stands beside;
* what is counted is finite: the listeners (in WakeFlag their number is the strong count),
  the setters of Flatten, and in Forwarding the threads, of which one must be the lowest;
* a Vec grows to at least one entry, buffers and batches hold at least one message, and a
  generation has at least one value;
* notifiers of a network have ranks, and a link leads to lower ones: there are no cycles.

Two theorems of `FlattenProofs` assume in addition `OneGetter`, at most one client that calls
get(); with two they are false, which is finding 3.

The bounds of the runs (`MaxPush`, `MaxSets`, `MaxWrites`, `MaxLosses`) are constants like the others:
no theorem depends on their values.

For the Notifier each invariant rests on those before it:

1. `TypeOK` is inductive.  Its parts are about the data, the threads, the lock (the holders
   are exactly the threads in the guarded part of a call) and the cursors.
2. `OneOwner`: the step that matters is `ReapDrop`, where `swap_remove` copies the last entry
   over one that goes (`ReapDropEffect`).
3. `WasAliveTracksReceive` is not inductive: that an entry is marked only if its listener
   refused needs to know that a thread about to record FALSE has heard it.  `RefusedOK`
   says so, and that only dead registered listeners have refused.
4. `NoAliveListenerLost` follows step by step from 2 and 3: what `ReapDrop` removes is dead,
   for it refuses now or has refused before.
5. `CountExact` and `CapacityBounded` rest on `CensusOK`: everything the cursor has passed was
   registered and alive when the writer got the lock.  When the cursor is at the end of
   a full vector, all of it was alive at once, so that `peak` is at least its length.
6. `BroadcastHolds` is the refinement.  The members are the listeners in the vector (`Registered`), and a
   batch is owed to the entries from a call's cursor on (`OwedTo`).  `AcquireRead` is `Begin`, and
   `Send` is `Deliver` of the listener at the cursor: because no listener has two entries
   (`OneOwner`), it is owed no more.  `ReapDrop` is `Leave`: because only dead listeners have
   refused (`FlagsOK`), no live member leaves; and because the writer excludes the readers,
   nobody owes anything while entries move (`OwesNothing`).  `ListenPush` and `ReapListen` are
   `Join`, and the other steps of a call stutter.

For the Cell, `NoChangeUnnoticed` is not inductive, for it says nothing while a call is in
progress.  `NoticeOwed` is: as long as the Cell lives every reader is registered, and a
reader at rest with an old value is owed a notification by some call.

For WakeFlag, `NoSleepOnMessage` becomes inductive when it is also stated of the last step
before sleep (`WakeComes`): a message that `swap2` has missed finds the waker in place.
`FalseMeansClosed` rests on the count of the listeners that still hold `_alive`: only a
count of 0 answers FALSE (`OnlyClosedTells`), and once none is left none can be cloned
(`ClosedIsStable`).  `ClosedNeverPends` follows with `LateIsClosed`.  On one thread
nobody sets the flag between a swap and the count after it; `OneThread` says so, and
gives `FalseIsFinalOnOneThread`.

For FlagMemory, `CarryOK` says where the view that covers a notification is kept: a store to a
flag carries the view of the thread that made it, the notifier's lock one no older than
what is `settled`, and a reader that has been told of a write has it in its view.  With
it `SeesWhatItWasTold` is inductive.  `NoChangeUnnoticed` has a proof for each half of its
condition.  Under a lock memory is as in `Cell`, and `LockedOK` says what `NoticeOwed` says there.
With one set() at a time (`LocalOK`), the one that notifies has the last write in view, and
leaves it in the lock of the notifier, for the listen() that comes later and takes it to write.
`CarriedOK` follows it from there: a reader whose flag
nobody else sets, and who is owed no notification, has the last write in view, or finds it
in its flag, which no later store can have taken the place of.

For Forwarding the argument is about stacks.

1. `TypeOK` is inductive, with what it says of each activation: that it calls links of its own
   notifier only, and has only targets of the link it is calling before it.
2. `Descent`: the notifiers on a stack have falling ranks, so that none is on it twice.  Only
   with it is `LockOK` inductive, for a read guard is kept once per thread: if a thread were in
   a notifier twice, the inner return would release what the outer call holds.
3. `SomebodyGoesOn`: of all calls in progress, if each waits for a lock, take one that waits at a
   notifier of the least rank (`LeastRank`).  By `LockOK` who holds that lock is inside of it; by
   `Descent` it then waits for a lower one.  So nobody holds it, and a call that waits for a free
   lock can only be a reader behind a waiting writer, which itself can go on.
4. `GateStopsLaterCalls` needs `StillShut`: gates do not open again, and who is in no call has come
   to nothing.
5. `Complete` speaks of calls that are about to return.  `CarriedOK` is what holds all the way:
   where a batch has come to, each steady link has told all its steady targets, or some
   activation of the stack still has it to call, or is calling it with the targets that it has
   not told still before it.  It needs `SteadyOK`, that what counts as connected all through is so, and that no link
   with something to pass on to is removed; which in turn needs `NoFalseDeath`, that a link
   about to answer FALSE has found nobody.

For Flatten, `Told` is that a client's flag is set, or a counted change of the outer source is
about to set it.  `GetOK` says, at each step of a get(), that what it has read is still so or its
client is told; that what is then idle is subscribed to what it has seen, and that a changed
value of that source is on its way.  That a new state is stored under generation 0 makes
`StateOK` necessary: before the first change is counted, a cached source is the outer one's
value unless a change is on its way (`Recent`), and afterwards no cached state fits.  The step
from one getter to two fails where it must: `Store` of another client replaces the state, and
the subscription with it.  `WatchOK`, for those that only listen, is inductive for any number of
getters, because a watcher that came when nobody was in get() is promised that whoever is about to
store a state stores one for the same source, as long as it has not been told.
`CountOK` bounds the generations for `TypeOK`.

For Delivery, `InOrderOnce` says nothing of a log that is being given a batch.  The invariant
says what each stage holds: the buffer, and the batch that is being filtered, are the last
pushes with none left out (`BufferOK`), and a log that is a member has received all that is
due from before the buffer if it is owed the batch, from before what the filter has still to look at
if it is its turn, counting what the filter holds, and all that was sent otherwise
(`Reached`, `LogOK`).  `DropDelivers` follows, for without a Buffer everything pushed has been
sent.  `CountOK` bounds the numbers for `TypeOK`, of which the part that is no type is that a
push() out of which a panic comes, by a closed notifier or a full buffer, finds it closed for good.

Only model-checked: what is under fairness (`CallsFinish`, `ReadersCatchUp`, `FlushesEnd`,
`MessageEndsWait`, `ClosingEndsWaitOnOneThread`, `ClientsCatchUp`).  These need ENABLED, which is beyond
TLAPS here.  So are the violations of the findings, each a behaviour of one small instance.

## 5. Not modelled

* `RawNotifier::count`, which filters without removing; `Flatten` as it is dropped.  That a `Flatten` does not
  close its notifier when its sources close, though source.rs:32-34 says a source that cannot
  change any more should drop its listeners, is not stated as a property.
* `Constant`: its value never changes and it keeps no listener, so there is no step.
* `Store` for sets, which is that for vectors with less to see.
* A single-threaded lock (`RefCell`) that is entered twice: it panics where the model waits.  On one
  thread that takes a receive() that calls back, which its contract forbids.
* Networks of forwarders with cycles; a `Clone`, a `Drop` or a comparison of values that panics or
  calls back into the library.
* Conversions of types, formatting, aliases and the build helper, which have no behaviour.

## 6. The plan

The order is by what the crate's users rely on most.  Done: all modules of section 2, and the
theorems of section 4, which are of every safety property and of the refinement.  To do:

1. An abstract specification of a Source (`get`, `listen`, "notifications when it does"), with
   Cell and, for one client that gets, Flatten shown to implement it.
2. The drop of a Flatten, and a Flatten whose sources close.
3. The invariants that liveness rests on, as theorems of their own: what is owed to a reader stays
   owed until it is given.
