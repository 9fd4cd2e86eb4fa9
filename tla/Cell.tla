--------------------------------- MODULE Cell ---------------------------------
(***************************************************************************)
(* The Cell of src/src/cell.rs with the Flag of src/src/simple_listeners.rs*)
(* as its listeners: writers set the value, in the two steps of Cell::set  *)
(* (replace, then notify), and readers keep up by means of their flags.  A *)
(* reader may have a Map (src/src/source/map.rs) in place of the source.   *)
(*                                                                         *)
(* The Notifier inside the cell is the abstract one: Broadcast.tla, which  *)
(* Notifier.tla implements.  A value is replaced or read in one step, as by*)
(* every LoadStore; the memory is sequentially consistent.                 *)
(***************************************************************************)

CONSTANTS Writers,      \* threads with a reference to the Cell
          Flags,        \* Flags, each with a thread that reads the Source
          Values,       \* S::Value
          Initial,      \* the value the cell is created with
          Through,      \* per flag, the function of the Map that its thread reads
          None          \* no value seen yet

Outputs == {Through[f][v] : f \in Flags, v \in Values}

ASSUME CellAssumption ==
    /\ Initial \in Values /\ None \notin Outputs
    /\ \A f \in Flags : DOMAIN Through[f] = Values

VARIABLES
    owned,       \* whether the Cell has not been dropped
    value,       \* CellSource.value_mutex
    open, members, owed, alive,     \* CellSource.notifier, as in Broadcast
    writer,      \* per writer, where it is in set() or update_mut()
    flag,        \* per flag, Flag.shared
    reader,      \* per flag, where the thread that owns it is
    seen         \* per flag, the last value its thread got

notifier == <<open, members, owed, alive>>
clients == <<flag, reader, seen>>
vars == <<owned, value, open, members, owed, alive, writer, flag, reader, seen>>

WriterSteps == {"idle", "update", "notify", "deliver"}
ReaderSteps == {"new", "get", "idle"}

(* Notifier<(), FlagListener>; a FlagListener is alive while its Flag is. *)
Notifier == INSTANCE Broadcast WITH Threads <- Writers, Listeners <- Flags

Init ==
    /\ owned = TRUE
    /\ value = Initial
    /\ Notifier!Init
    /\ writer = [w \in Writers |-> "idle"]
    /\ flag \in [Flags -> BOOLEAN]
    /\ reader = [f \in Flags |-> "new"]
    /\ seen = [f \in Flags |-> None]

------------------------------------------------------------------------------
(* Writers.  They borrow the Cell, so it cannot be dropped meanwhile. *)

Goto(w, step) == writer' = [writer EXCEPT ![w] = step]

(* Mutant of Replace: the value changes and nobody is told. *)
ReplaceOnly(w, v) ==
    /\ value' = v
    /\ Goto(w, "idle")
    /\ UNCHANGED <<owned, notifier, clients>>

(* value_mutex.replace(), after which notify() is called *)
Replace(w, v) ==
    /\ value' = v
    /\ Goto(w, "notify")
    /\ UNCHANGED <<owned, notifier, clients>>

Set(w, v) == owned /\ writer[w] = "idle" /\ Replace(w, v)

(* The call returns at once if the values are equal. *)
SetIfUnequal(w, v) == owned /\ writer[w] = "idle" /\ v # value /\ Replace(w, v)

(* update_mut(f) gets a clone for f to work on ... *)
UpdateGet(w) ==
    /\ owned /\ writer[w] = "idle"
    /\ Goto(w, "update")
    /\ UNCHANGED <<owned, value, notifier, clients>>

(* ... and sets the result, whatever f has made of it. *)
UpdateSet(w, v) == writer[w] = "update" /\ Replace(w, v)

Notify(w) ==
    /\ writer[w] = "notify"
    /\ Notifier!Begin(w)
    /\ Goto(w, "deliver")
    /\ UNCHANGED <<owned, value, clients>>

(* Mutant of Deliver: no store while another call delivers. *)
DeliverOnce(w, f) ==
    /\ writer[w] = "deliver"
    /\ Notifier!Deliver(w, f)
    /\ flag' = [flag EXCEPT ![f] =
                  @ \/ (alive[f] /\ \A u \in Writers \ {w} : writer[u] # "deliver")]
    /\ UNCHANGED <<owned, value, writer, reader, seen>>

(* FlagListener::receive stores TRUE if it can upgrade its weak reference. *)
Deliver(w, f) ==
    /\ writer[w] = "deliver"
    /\ Notifier!Deliver(w, f)
    /\ flag' = [flag EXCEPT ![f] = @ \/ alive[f]]
    /\ UNCHANGED <<owned, value, writer, reader, seen>>

Return(w) ==
    /\ writer[w] = "deliver" /\ owed[w] = {}
    /\ Goto(w, "idle")
    /\ UNCHANGED <<owned, value, notifier, clients>>

(* Mutant of DropCell: the notifier is left open. *)
DropUnclosed ==
    /\ owned /\ \A w \in Writers : writer[w] = "idle"
    /\ owned' = FALSE
    /\ UNCHANGED <<value, notifier, writer, clients>>

(* Drop for Cell; the sources handed out live on. *)
DropCell ==
    /\ owned /\ \A w \in Writers : writer[w] = "idle"
    /\ owned' = FALSE
    /\ Notifier!Close
    /\ UNCHANGED <<value, writer, clients>>

------------------------------------------------------------------------------
(* Readers, each with a Source and a Flag. *)

(* CellSource::listen.  A closed notifier drops the listener. *)
Register(f) ==
    \/ Notifier!Join(f)
    \/ ~open /\ UNCHANGED notifier

(* Flag::listening(_, source), and then the first get().  A Map passes the  *)
(* listener on, which will hear of each change, whether the output changes  *)
(* or not.                                                                  *)
ListenSource(f) ==
    /\ reader[f] = "new" /\ alive[f]
    /\ Register(f)
    /\ reader' = [reader EXCEPT ![f] = "get"]
    /\ UNCHANGED <<owned, value, writer, flag, seen>>

(* Mutant of GetAndClear: a load where the code has a swap. *)
GetOnly(f) ==
    /\ reader[f] = "idle" /\ flag[f] /\ alive[f]
    /\ reader' = [reader EXCEPT ![f] = "get"]
    /\ UNCHANGED <<owned, value, notifier, writer, flag, seen>>

(* get_and_clear() returns TRUE.  If it returns FALSE nothing happens. *)
GetAndClear(f) ==
    /\ reader[f] = "idle" /\ flag[f] /\ alive[f]
    /\ flag' = [flag EXCEPT ![f] = FALSE]
    /\ reader' = [reader EXCEPT ![f] = "get"]
    /\ UNCHANGED <<owned, value, notifier, writer, seen>>

(* CellSource::get *)
Stored == value

(* What the source of a reader would return: Map::get has no cache. *)
Mapped(f) == Through[f][Stored]

(* Source::get, which any reference to a source passes on to it *)
Get(f) ==
    /\ reader[f] = "get" /\ alive[f]
    /\ seen' = [seen EXCEPT ![f] = Mapped(f)]
    /\ reader' = [reader EXCEPT ![f] = "idle"]
    /\ UNCHANGED <<owned, value, notifier, writer, flag>>

DropFlag(f) ==
    /\ alive[f]
    /\ Notifier!Die(f)
    /\ UNCHANGED <<owned, value, writer, clients>>

(* A pass of drop_dead_listeners *)
Forget(f) == Notifier!Leave(f) /\ UNCHANGED <<owned, value, writer, clients>>

------------------------------------------------------------------------------

WriterStep(w) ==
    \/ \E v \in Values : UpdateSet(w, v)
    \/ Notify(w) \/ \E f \in Flags : Deliver(w, f)
    \/ Return(w)

ReaderStep(f) == GetAndClear(f) \/ Get(f)

Next ==
    \/ \E w \in Writers :
         \/ \E v \in Values : Set(w, v) \/ SetIfUnequal(w, v)
         \/ UpdateGet(w) \/ WriterStep(w)
    \/ DropCell
    \/ \E f \in Flags : ListenSource(f) \/ ReaderStep(f) \/ DropFlag(f) \/ Forget(f)

(* A call goes on once begun, and a reader that has begun to listen looks at *)
(* its flag again and again.                                                 *)
Fairness ==
    /\ \A w \in Writers : WF_vars(WriterStep(w))
    /\ \A f \in Flags : WF_vars(ReaderStep(f))

Spec == Init /\ [][Next]_vars
FairSpec == Spec /\ Fairness

------------------------------------------------------------------------------
(* Properties. *)

(* Every variable has its type; a call in progress has not lost the Cell, so *)
(* notify() never finds its notifier closed and panics (notifier.rs:226).    *)
TypeOK ==
    /\ owned \in BOOLEAN /\ open = owned
    /\ value \in Values
    /\ members \in SUBSET Flags
    /\ owed \in [Writers -> SUBSET Flags]
    /\ alive \in [Flags -> BOOLEAN]
    /\ writer \in [Writers -> WriterSteps]
    /\ \A w \in Writers : /\ writer[w] # "idle" => owned
                          /\ writer[w] # "deliver" => owed[w] = {}
                          /\ owed[w] \subseteq members
    /\ flag \in [Flags -> BOOLEAN]
    /\ reader \in [Flags -> ReaderSteps]
    /\ seen \in [Flags -> Outputs \cup {None}]

(* A reader at rest: it has listened, its flag is clear and it is not about  *)
(* to get the value.                                                         *)
AtRest(f) == alive[f] /\ reader[f] = "idle" /\ ~flag[f]

(* The dirty flag protocol: a reader whose flag is clear while no call is in *)
(* progress has the current value, or what its Map makes of it, in whatever  *)
(* order values were replaced, listeners called, flags cleared, and also     *)
(* after the Cell is dropped (cell.rs:105-111, 160-165;                      *)
(* simple_listeners.rs:159-168).                                             *)
NoChangeUnnoticed ==
    (\A w \in Writers : writer[w] = "idle") =>
      \A f \in Flags : AtRest(f) => seen[f] = Mapped(f)

(* What makes it inductive: while the Cell lives every reader is registered, *)
(* and one at rest with an old value is owed a notification.                 *)
NoticeOwed ==
    /\ owned => \A f \in Flags : alive[f] /\ reader[f] # "new" => f \in members
    /\ \A f \in Flags : AtRest(f) /\ seen[f] # Mapped(f) =>
         \E w \in Writers : writer[w] = "notify" \/ f \in owed[w]

(* "If the Cell is dropped, then the Sources should not retain their         *)
(* Listeners" (cell.rs:162), those included that come later.                 *)
NoListenerRetained == ~owned => members = {}

(* When the calls stop, every reader comes to have the current value and a   *)
(* clear flag: nobody is left to read the same value over and over.          *)
ReadersCatchUp ==
    <>[][\A w \in Writers : writer'[w] = writer[w]]_vars =>
      <>[](\A f \in Flags :
             alive[f] /\ reader[f] # "new" => AtRest(f) /\ seen[f] = Mapped(f))
==============================================================================
