------------------------------ MODULE FlagMemory ------------------------------
(***************************************************************************)
(* What a Flag (src/src/simple_listeners.rs) carries from one thread to    *)
(* another: a Cell or CellWithLocal (src/src/cell.rs) whose storage is an  *)
(* atomic or a lock (src/src/load_store.rs), in a weak memory.             *)
(*                                                                         *)
(* All writes to the value are read-modify-writes, so they have one order: *)
(* xs is that history.  A thread has a view, the oldest write it may still *)
(* read.  A release store, or the release of a lock, leaves the view of    *)
(* its thread behind; an acquire load of that store, or the next acquire   *)
(* of the lock, joins it.  Stores to a flag take effect in the order in    *)
(* which they are made, each in place of the one before it.                *)
(***************************************************************************)
EXTENDS Naturals, Sequences

CONSTANTS Writers,      \* threads that set the value
          Flags,        \* Flags, each with a thread that reads the Source
          Values,       \* S::Value
          Initial,      \* the value the cell is created with
          MaxWrites     \* bound: writes to the value in a behaviour

ASSUME FlagMemoryAssumption == Initial \in Values /\ MaxWrites \in Nat

VARIABLES
    storage,     \* "atomic", or "lock" for Mutex, RwLock and RefCell
    kind,        \* "Cell" or "CellWithLocal"
    xs,          \* the values of CellSource.value_mutex, oldest first
    local,       \* CellWithLocal.value
    writer,      \* per writer, where it is in set()
    owed,        \* per writer, the flags its notify() has yet to store to
    lockView,    \* what all guards of the notifier's lock have left in it
    writeView,   \* what those of its writers have, which is all that a reader gets
    members,     \* the flags registered with the notifier
    view,        \* per writer and flag, the view of its thread
    flag,        \* per flag, the last store: its value, the view it carries,
                 \* and the write it tells of
    reader,      \* per flag, where its thread is
    seen,        \* per flag, the write that its thread last got
    settled,     \* history: the latest write whose set() has notified
    told,        \* history: per flag, the latest write its thread was told of
    armed        \* history: per flag, whether its thread has called Flag::set()

cell == <<storage, kind, xs, local>>
notifier == <<lockView, writeView, members>>
vars == <<storage, kind, xs, local, writer, owed, lockView, writeView, members, view,
          flag, reader, seen, settled, told, armed>>

Larger(m, n) == IF m >= n THEN m ELSE n
Now == Len(xs)
Message(value, v, of) == [value |-> value, view |-> v, of |-> of]

Init ==
    /\ storage \in {"atomic", "lock"}
    /\ kind \in {"Cell", "CellWithLocal"}
    /\ xs = <<Initial>>
    /\ local = Initial
    /\ writer = [w \in Writers |-> "idle"]
    /\ owed = [w \in Writers |-> {}]
    /\ lockView = 1 /\ writeView = 1
    /\ members = {}
    /\ view = [t \in Writers \cup Flags |-> 1]
    /\ flag \in [Flags -> {Message(b, 1, 1) : b \in BOOLEAN}]
    /\ reader = [f \in Flags |-> "new"]
    /\ seen = [f \in Flags |-> 1]
    /\ settled = 1
    /\ told = [f \in Flags |-> 1]
    /\ armed = [f \in Flags |-> FALSE]

------------------------------------------------------------------------------
(* Writers. *)

(* swap(), or mem::replace() under the lock *)
Write(w, v) ==
    /\ xs' = Append(xs, v)
    /\ view' = [view EXCEPT ![w] = Now + 1]

Ready(w) == writer[w] = "idle" /\ Now <= MaxWrites
Goto(w, step) == writer' = [writer EXCEPT ![w] = step]

Set(w, v) ==
    /\ kind = "Cell" /\ Ready(w)
    /\ Write(w, v)
    /\ Goto(w, "notify")
    /\ UNCHANGED <<storage, kind, local, owed, notifier, flag, reader, seen,
                   settled, told, armed>>

(* An atomic is swapped first and compared then: equal values are written, but *)
(* nobody is told.                                                             *)
AtomicIfUnequal(w, v) ==
    /\ storage = "atomic"
    /\ Write(w, v)
    /\ IF v = xs[Now] THEN UNCHANGED writer ELSE Goto(w, "notify")

(* Under a lock an equal value is left alone, which is no step. *)
LockIfUnequal(w, v) ==
    /\ storage = "lock" /\ v # xs[Now]
    /\ Write(w, v)
    /\ Goto(w, "notify")

SetIfUnequal(w, v) ==
    /\ kind = "Cell" /\ Ready(w)
    /\ AtomicIfUnequal(w, v) \/ LockIfUnequal(w, v)
    /\ UNCHANGED <<storage, kind, local, owed, notifier, flag, reader, seen,
                   settled, told, armed>>

(* CellWithLocal::set needs &mut self. *)
Exclusive == \A u \in Writers : writer[u] = "idle"

(* The local copy first, then its clone goes to the cell. *)
SetLocal(w, v) ==
    /\ kind = "CellWithLocal" /\ Ready(w) /\ Exclusive
    /\ local' = v
    /\ Goto(w, "local")
    /\ UNCHANGED <<storage, kind, xs, owed, notifier, view, flag, reader, seen,
                   settled, told, armed>>

(* Mutant of SetStorage: the cell is only written while somebody listens. *)
SetStorageIfHeard(w) ==
    /\ writer[w] = "local"
    /\ IF members = {} THEN UNCHANGED <<xs, view>> ELSE Write(w, local)
    /\ Goto(w, "notify")
    /\ UNCHANGED <<storage, kind, local, owed, notifier, flag, reader, seen,
                   settled, told, armed>>

SetStorage(w) ==
    /\ writer[w] = "local"
    /\ Write(w, local)
    /\ Goto(w, "notify")
    /\ UNCHANGED <<storage, kind, local, owed, notifier, flag, reader, seen,
                   settled, told, armed>>

(* notify() takes the read lock, which it may share: it synchronizes with those *)
(* who have held the write lock, and with no other reader.                     *)
Notify(w) ==
    /\ writer[w] = "notify"
    /\ view' = [view EXCEPT ![w] = Larger(@, writeView)]
    /\ owed' = [owed EXCEPT ![w] = members]
    /\ Goto(w, "deliver")
    /\ UNCHANGED <<cell, notifier, flag, reader, seen, settled, told, armed>>

(* Mutant of StoredView: a relaxed store. *)
NoView(t) == 1

(* SET_ORDERING *)
StoredView(t) == view[t]

(* FlagListener::receive *)
Deliver(w, f) ==
    /\ writer[w] = "deliver" /\ f \in owed[w]
    /\ flag' = [flag EXCEPT ![f] = Message(TRUE, StoredView(w), view[w])]
    /\ owed' = [owed EXCEPT ![w] = @ \ {f}]
    /\ UNCHANGED <<cell, writer, notifier, view, reader, seen, settled, told, armed>>

Return(w) ==
    /\ writer[w] = "deliver" /\ owed[w] = {}
    /\ lockView' = Larger(lockView, view[w])
    /\ settled' = Larger(settled, view[w])
    /\ Goto(w, "idle")
    /\ UNCHANGED <<cell, owed, writeView, members, view, flag, reader, seen, told, armed>>

ReadLocked == \E w \in Writers : writer[w] = "deliver"

------------------------------------------------------------------------------
(* Readers, each with a Source and a Flag. *)

(* Mutant of Joined: the reader does not synchronize. *)
Unjoined(t, v) == view

Joined(t, v) == [view EXCEPT ![t] = Larger(@, v)]

(* Flag::listening() takes the write lock.  Every set() that has notified by   *)
(* now will be seen, though this flag was not told of it.                      *)
ListenSource(f) ==
    /\ reader[f] = "new" /\ ~ReadLocked
    /\ members' = members \cup {f}
    /\ view' = Joined(f, lockView)
    /\ lockView' = Larger(lockView, view[f])
    /\ writeView' = lockView'
    /\ told' = [told EXCEPT ![f] = settled]
    /\ reader' = [reader EXCEPT ![f] = "get"]
    /\ UNCHANGED <<cell, writer, owed, flag, seen, settled, armed>>

(* get_and_clear() swaps, with GET_CLEAR_ORDERING, and has found TRUE. *)
GetAndClear(f) ==
    /\ reader[f] = "idle" /\ flag[f].value
    /\ view' = Joined(f, flag[f].view)
    /\ flag' = [flag EXCEPT ![f] = Message(FALSE, 1, 1)]
    /\ told' = [told EXCEPT ![f] = Larger(@, flag[f].of)]
    /\ reader' = [reader EXCEPT ![f] = "get"]
    /\ UNCHANGED <<cell, writer, owed, notifier, seen, settled, armed>>

(* A relaxed load reads any write in view. *)
AtomicReads(f) == IF storage = "atomic" THEN view[f]..Now ELSE {}

LockReads == IF storage = "lock" THEN {Now} ELSE {}

(* CellSource::get *)
Get(f) ==
    /\ reader[f] = "get"
    /\ \E i \in AtomicReads(f) \cup LockReads :
         /\ seen' = [seen EXCEPT ![f] = i]
         /\ view' = [view EXCEPT ![f] = i]
    /\ reader' = [reader EXCEPT ![f] = "idle"]
    /\ UNCHANGED <<cell, writer, owed, notifier, flag, settled, told, armed>>

(* Flag::set(), of a reader that "wants to try again later". *)
SetFlag(f) ==
    /\ reader[f] = "idle"
    /\ flag' = [flag EXCEPT ![f] = Message(TRUE, StoredView(f), view[f])]
    /\ armed' = [armed EXCEPT ![f] = TRUE]
    /\ UNCHANGED <<cell, writer, owed, notifier, view, reader, seen, settled, told>>

------------------------------------------------------------------------------

WriterStep(w) ==
    \/ SetStorage(w) \/ Notify(w) \/ \E f \in Flags : Deliver(w, f)
    \/ Return(w)

ReaderStep(f) == ListenSource(f) \/ GetAndClear(f) \/ Get(f) \/ SetFlag(f)

Next ==
    \/ \E w \in Writers :
         \/ \E v \in Values : Set(w, v) \/ SetIfUnequal(w, v) \/ SetLocal(w, v)
         \/ WriterStep(w)
    \/ \E f \in Flags : ReaderStep(f)

Spec == Init /\ [][Next]_vars

------------------------------------------------------------------------------
(* Properties. *)

(* The local copy of a CellWithLocal is what its sources get, but for a set()  *)
(* that has come to the one and not yet to the other.                          *)
LocalAgrees ==
    kind = "CellWithLocal" => local = xs[Now] \/ \E w \in Writers : writer[w] = "local"

(* Every variable has its type.  A view never runs ahead of the writes, nor    *)
(* what is carried ahead of the one who left it.  A CellWithLocal has one value.*)
TypeOK ==
    /\ storage \in {"atomic", "lock"} /\ kind \in {"Cell", "CellWithLocal"}
    /\ xs \in Seq(Values) /\ xs # <<>> /\ local \in Values
    /\ writer \in [Writers -> {"idle", "local", "notify", "deliver"}]
    /\ owed \in [Writers -> SUBSET Flags] /\ members \in SUBSET Flags
    /\ lockView \in 1..Now /\ writeView \in 1..lockView /\ settled \in 1..Now
    /\ view \in [Writers \cup Flags -> 1..Now]
    /\ flag \in [Flags -> [value : BOOLEAN, view : 1..Now, of : 1..Now]]
    /\ reader \in [Flags -> {"new", "get", "idle"}]
    /\ seen \in [Flags -> 1..Now] /\ told \in [Flags -> 1..Now]
    /\ armed \in [Flags -> BOOLEAN]
    /\ LocalAgrees

(* "The recipient can rely on seeing effects that happened before the flag was *)
(* set" (simple_listeners.rs:163-164): what a reader gets is no older than what*)
(* the store that it cleared told of, nor than what had been notified when it  *)
(* began to listen.                                                            *)
SeesWhatItWasTold ==
    \A f \in Flags : reader[f] = "idle" => seen[f] >= told[f]

AllQuiet == \A w \in Writers : writer[w] = "idle"
AtRest(f) == reader[f] = "idle" /\ ~flag[f].value
UpToDate(f) == xs[seen[f]] = xs[Now]

(* With a lock, or with one set() at a time and no one else to set the flag, a *)
(* reader with a clear flag has the current value: no store of a flag has taken*)
(* the place of one that carried more.                                         *)
NoChangeUnnoticed ==
    \A f \in Flags :
      /\ AllQuiet /\ AtRest(f)
      /\ storage = "lock" \/ (kind = "CellWithLocal" /\ ~armed[f])
      => UpToDate(f)

(* "The recipient can rely on seeing effects that happened before the flag was *)
(* set" (simple_listeners.rs:163-164), and so on "notifications when it does"  *)
(* change (source.rs:22): without the conditions above, but for a reader that  *)
(* leaves its flag alone, one with a clear flag has the current value.         *)
NoStoreOutdone ==
    \A f \in Flags : AllQuiet /\ AtRest(f) /\ ~armed[f] => UpToDate(f)
==============================================================================
