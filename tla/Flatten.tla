------------------------------- MODULE Flatten -------------------------------
(***************************************************************************)
(* The Flatten source of src/src/source/flatten.rs: an outer source whose  *)
(* value is an inner source whose value is wanted, with a cached inner     *)
(* source under a mutex, a generation counter that the outer source bumps, *)
(* and a gate that keeps the subscription to the cached inner source.      *)
(*                                                                         *)
(* Setters change the sources, in the two steps of Cell::set (replace, then*)
(* notify).  Clients hold a Flag that listens to the Flatten; some of them *)
(* clear it, call get() and remember what they saw, others only watch it.  *)
(***************************************************************************)
EXTENDS Naturals, FiniteSets

CONSTANTS Setters,      \* threads that call set() on the sources
          Clients,      \* threads that listen to the Flatten
          Getters,      \* those that call get() on it as well
          Sources,      \* the inner sources
          First,        \* the inner source the outer one starts with
          None,         \* no source, no state
          GenSpan,      \* how many generations a u32 can tell apart, 2^32
          MaxSets       \* bound: calls of set() in a behaviour

ASSUME FlattenAssumption ==
    /\ IsFiniteSet(Setters)
    /\ First \in Sources
    /\ None \notin Sources \cup (Sources \X Nat) \cup [generation : Nat, source : Sources]
    /\ None \notin [sees : Sources \X Nat, subscribed : BOOLEAN]
    /\ Getters \subseteq Clients
    /\ GenSpan \in Nat \ {0}
    /\ MaxSets \in Nat

VARIABLES
    outer,       \* the value of source_of_source
    val,         \* the value of each inner source, as a version number
    changes,     \* how often the outer source has been heard of
    state,       \* Inner.state: None, or a generation and a source
    setter,      \* per setter, where it is in set()
    target,      \* per setter, the inner source it sets, or None for the outer
    client,      \* per client, where it is in get()
    needed,      \* per client, needed_generation
    source,      \* per client, the inner source get() has arrived at
    fresh,       \* per client, the source of new_state while its gate is its own
    flag,        \* per client, its Flag
    seen,        \* per client, what its last get() saw, or None
    start,       \* history: per client that has not called get() yet, what
                 \* there was to see when it listened, and if it was subscribed to
    sets         \* calls of set() so far

env == <<outer, val, changes, setter, target, sets>>
vars == <<outer, val, changes, state, setter, target, client, needed,
          source, fresh, flag, seen, start, sets>>

ClientSteps == {"new", "load", "check", "get", "listen", "store", "read"}
Generations == 0..(GenSpan - 1)
State == [generation : Generations, source : Sources]

(* generation_from_listening, after as many calls of fetch_add(1) *)
generation == changes % GenSpan

(* What Flatten::get would return, if everything stood still. *)
Current == <<outer, val[outer]>>

Init ==
    /\ outer = First
    /\ val = [s \in Sources |-> 0]
    /\ changes = 0
    /\ state = None
    /\ setter = [p \in Setters |-> "idle"]
    /\ target = [p \in Setters |-> None]
    /\ client = [c \in Clients |-> "new"]
    /\ needed = [c \in Clients |-> 0]
    /\ source = [c \in Clients |-> None]
    /\ fresh = [c \in Clients |-> None]
    /\ flag \in [Clients -> BOOLEAN]
    /\ seen = [c \in Clients |-> None]
    /\ start = [c \in Clients |-> None]
    /\ sets = 0

------------------------------------------------------------------------------
(* Setters. *)

(* Flatten.notifier.notify(&()): the flag of every client that listens is set. *)
NotifyClients == flag' = [c \in Clients |-> flag[c] \/ client[c] # "new"]

(* Mutant of Listening: the cached state does not keep its gate. *)
ListeningFreshOnly(s) == \E c \in Clients : fresh[c] = s

(* An inner source notifies the Flatten if a gate for it is alive: the gate *)
(* of the cached state, or one that a get() in progress still holds.        *)
Listening(s) ==
    \/ state # None /\ state.source = s
    \/ \E c \in Clients : fresh[c] = s

ReplaceOuter(p, s) ==
    /\ setter[p] = "idle" /\ sets < MaxSets
    /\ outer' = s
    /\ sets' = sets + 1
    /\ setter' = [setter EXCEPT ![p] = "replaced"]
    /\ target' = [target EXCEPT ![p] = None]
    /\ UNCHANGED <<val, changes, state, client, needed, source, fresh, flag, seen, start>>

(* Mutant of ReceiveOuter: the generation stays. *)
ReceiveOuterUncounted(p) ==
    /\ setter[p] = "replaced" /\ target[p] = None
    /\ setter' = [setter EXCEPT ![p] = "counted"]
    /\ UNCHANGED <<changes, outer, val, state, target, client, needed, source,
                   fresh, flag, seen, start, sets>>

(* OuterListener::receive counts, and then notifies. *)
ReceiveOuter(p) ==
    /\ setter[p] = "replaced" /\ target[p] = None
    /\ changes' = changes + 1
    /\ setter' = [setter EXCEPT ![p] = "counted"]
    /\ UNCHANGED <<outer, val, state, target, client, needed, source, fresh,
                   flag, seen, start, sets>>

NotifyOuter(p) ==
    /\ setter[p] = "counted"
    /\ NotifyClients
    /\ setter' = [setter EXCEPT ![p] = "idle"]
    /\ UNCHANGED <<outer, val, changes, state, target, client, needed, source,
                   fresh, seen, start, sets>>

ReplaceInner(p, s) ==
    /\ setter[p] = "idle" /\ sets < MaxSets
    /\ val' = [val EXCEPT ![s] = @ + 1]
    /\ sets' = sets + 1
    /\ setter' = [setter EXCEPT ![p] = "replaced"]
    /\ target' = [target EXCEPT ![p] = s]
    /\ UNCHANGED <<outer, changes, state, client, needed, source, fresh, flag, seen, start>>

NotifyInner(p) ==
    /\ setter[p] = "replaced" /\ target[p] # None
    /\ IF Listening(target[p]) THEN NotifyClients ELSE UNCHANGED flag
    /\ setter' = [setter EXCEPT ![p] = "idle"]
    /\ target' = [target EXCEPT ![p] = None]
    /\ UNCHANGED <<outer, val, changes, state, client, needed, source, fresh,
                   seen, start, sets>>

------------------------------------------------------------------------------
(* Clients: get(), and get_source_and_listen_if_new() within it. *)

Goto(c, label) == client' = [client EXCEPT ![c] = label]

(* Subscribed to the current inner source, and no get() is about to change that. *)
Subscribed == state # None /\ state.source = outer
Settled == Subscribed /\ \A c \in Clients : client[c] \in {"new", "idle"}

(* Flag::listening(_, flatten); listen() does no more than register the flag. *)
ListenFlatten(c) ==
    /\ client[c] = "new"
    /\ start' = [start EXCEPT ![c] = [sees |-> Current, subscribed |-> Settled]]
    /\ Goto(c, "idle")
    /\ UNCHANGED <<env, state, needed, source, fresh, flag, seen>>

(* The client clears its flag before it looks. *)
Clear(c) ==
    /\ client[c] = "idle" /\ c \in Getters
    /\ flag' = [flag EXCEPT ![c] = FALSE]
    /\ start' = [start EXCEPT ![c] = None]
    /\ Goto(c, "load")
    /\ UNCHANGED <<env, state, needed, source, fresh, seen>>

Load(c) ==
    /\ client[c] = "load"
    /\ needed' = [needed EXCEPT ![c] = generation]
    /\ Goto(c, "check")
    /\ UNCHANGED <<env, state, source, fresh, flag, seen, start>>

(* Mutant of CacheFits: any cached state will do. *)
AnyGeneration(c) == state # None
CacheFits(c) == state # None /\ state.generation = needed[c]

Check(c) ==
    /\ client[c] = "check"
    /\ \/ /\ CacheFits(c)
          /\ source' = [source EXCEPT ![c] = state.source]
          /\ Goto(c, "read")
       \/ /\ ~CacheFits(c)
          /\ Goto(c, "get")
          /\ UNCHANGED source
    /\ UNCHANGED <<env, state, needed, fresh, flag, seen, start>>

(* source_of_source.get(), without the lock *)
GetOuter(c) ==
    /\ client[c] = "get"
    /\ source' = [source EXCEPT ![c] = outer]
    /\ Goto(c, "listen")
    /\ UNCHANGED <<env, state, needed, fresh, flag, seen, start>>

(* From here on the gate in new_state keeps the subscription. *)
ListenInner(c) ==
    /\ client[c] = "listen"
    /\ fresh' = [fresh EXCEPT ![c] = source[c]]
    /\ Goto(c, "store")
    /\ UNCHANGED <<env, state, needed, source, flag, seen, start>>

(* The generation that new_state is given. *)
NewGeneration(c) == 0

(* Mutant of Store: the gate of new_state outlives the call. *)
StoreLeak(c) ==
    /\ client[c] = "store"
    /\ state' = [generation |-> NewGeneration(c), source |-> source[c]]
    /\ Goto(c, "read")
    /\ UNCHANGED <<env, needed, source, fresh, flag, seen, start>>

(* Under the lock: use the state of another thread if it is new enough, and *)
(* drop new_state with its gate; else replace the state and drop the old one*)
(* with its gate.                                                           *)
Store(c) ==
    /\ client[c] = "store"
    /\ \/ /\ state # None /\ state.generation >= needed[c]
          /\ source' = [source EXCEPT ![c] = state.source]
          /\ UNCHANGED state
       \/ /\ ~(state # None /\ state.generation >= needed[c])
          /\ state' = [generation |-> NewGeneration(c), source |-> source[c]]
          /\ UNCHANGED source
    /\ fresh' = [fresh EXCEPT ![c] = None]
    /\ Goto(c, "read")
    /\ UNCHANGED <<env, needed, flag, seen, start>>

(* Get of the inner source, and the end of get(). *)
Read(c) ==
    /\ client[c] = "read"
    /\ seen' = [seen EXCEPT ![c] = <<source[c], val[source[c]]>>]
    /\ source' = [source EXCEPT ![c] = None]
    /\ needed' = [needed EXCEPT ![c] = 0]
    /\ Goto(c, "idle")
    /\ UNCHANGED <<env, state, fresh, flag, start>>

------------------------------------------------------------------------------

SetterStep(p) == ReceiveOuter(p) \/ NotifyOuter(p) \/ NotifyInner(p)

GetStep(c) ==
    \/ Load(c) \/ Check(c) \/ GetOuter(c) \/ ListenInner(c) \/ Store(c) \/ Read(c)

Next ==
    \/ \E p \in Setters, s \in Sources : ReplaceOuter(p, s) \/ ReplaceInner(p, s)
    \/ \E p \in Setters : SetterStep(p)
    \/ \E c \in Clients : ListenFlatten(c) \/ Clear(c) \/ GetStep(c)

(* A call of set() or get() goes on, and a client whose flag is set comes to *)
(* look, in its main loop.                                                   *)
Fairness ==
    /\ \A p \in Setters : WF_vars(SetterStep(p))
    /\ \A c \in Clients : WF_vars(GetStep(c)) /\ WF_vars(flag[c] /\ Clear(c))

Spec == Init /\ [][Next]_vars
FairSpec == Spec /\ Fairness

------------------------------------------------------------------------------
(* Properties. *)

(* Every variable has its type.  A get() has a source when it needs one, and *)
(* only a get() between listen() and store holds a gate of its own.          *)
TypeOK ==
    /\ outer \in Sources
    /\ val \in [Sources -> 0..MaxSets]
    /\ changes \in 0..MaxSets
    /\ state = None \/ state \in State
    /\ setter \in [Setters -> {"idle", "replaced", "counted"}]
    /\ target \in [Setters -> Sources \cup {None}]
    /\ client \in [Clients -> ClientSteps \cup {"idle"}]
    /\ needed \in [Clients -> Generations]
    /\ source \in [Clients -> Sources \cup {None}]
    /\ fresh \in [Clients -> Sources \cup {None}]
    /\ flag \in [Clients -> BOOLEAN]
    /\ seen \in [Clients -> {None} \cup (Sources \X (0..MaxSets))]
    /\ start \in [Clients -> {None} \cup [sees : Sources \X (0..MaxSets), subscribed : BOOLEAN]]
    /\ \A c \in Clients :
         /\ client[c] \in {"listen", "store", "read"} <=> source[c] # None
         /\ client[c] = "store" => fresh[c] = source[c]
         /\ client[c] # "store" => fresh[c] = None
    /\ sets \in 0..MaxSets

(* Until then a generation tells whether a source is stale (flatten.rs:35). *)
NotWrapped == changes < GenSpan

AtRest(c) ==
    /\ \A p \in Setters : setter[p] = "idle"
    /\ client[c] = "idle" /\ ~flag[c]

(* "notifications when it does" (source.rs:22): a client whose flag is clear *)
(* while no set() is in progress has seen the current value.                 *)
NoChangeUnnoticed ==
    \A c \in Clients : NotWrapped /\ AtRest(c) /\ seen[c] # None => seen[c] = Current

(* The gate of the cached state keeps a subscription to the very source the  *)
(* clients that are at rest have last read from ("updated upon the next      *)
(* get()", flatten.rs:28).                                                   *)
SubscribedToCurrent ==
    \A c \in Clients : NotWrapped /\ AtRest(c) /\ seen[c] # None => Subscribed

(* A client that has only listened is told of every change of the outer      *)
(* source, and of every change of the value if the inner source was          *)
(* subscribed to when it came, however later calls of get() by others shift  *)
(* that subscription.  A get() in progress then may take it away once more.  *)
(* Without the second condition it fails, though the state is said to be     *)
(* updated "upon the next get() or listen()" (flatten.rs:28).                *)
WatcherIsTold ==
    \A c \in Clients :
      NotWrapped /\ AtRest(c) /\ start[c] # None =>
        /\ outer = start[c].sees[1]
        /\ start[c].subscribed => start[c].sees = Current

(* When the sets are over, every client that gets comes to see the current   *)
(* value.                                                                    *)
ClientsCatchUp ==
    <>[](\A c \in Getters : NotWrapped /\ seen[c] # None => seen[c] = Current)
==============================================================================
