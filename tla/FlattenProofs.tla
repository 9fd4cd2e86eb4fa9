----------------------------- MODULE FlattenProofs -----------------------------
(***************************************************************************)
(* Proofs about Flatten.tla, for every number of setters and clients and   *)
(* every set of sources.                                                   *)
(***************************************************************************)
EXTENDS Flatten, FiniteSetTheorems, TLAPS

USE FlattenAssumption

(* A set() of the outer source that has not notified the Flatten yet.         *)
OuterReplaced(p) == setter[p] = "replaced" /\ target[p] = None
OuterPending == \E p \in Setters : OuterReplaced(p) \/ setter[p] = "counted"

(* A set() of an inner source that has not notified it yet.                   *)
InnerPending(s) == \E p \in Setters : setter[p] = "replaced" /\ target[p] = s

(* The client has been told to look, or is going to be.                       *)
Told(c) == flag[c] \/ OuterPending

(* Every counted change is a set(), and so is every version of a value.       *)
CountOK ==
    /\ changes + Cardinality({p \in Setters : OuterReplaced(p)}) <= sets
    /\ \A s \in Sources : val[s] <= sets

(* What each step does, without the disjunctions of Next.                     *)
LEMMA NextCases ==
  ASSUME [Next]_vars
  PROVE  \/ \E p \in Setters, s \in Sources : ReplaceOuter(p, s) \/ ReplaceInner(p, s)
         \/ \E p \in Setters : ReceiveOuter(p) \/ NotifyOuter(p) \/ NotifyInner(p)
         \/ \E c \in Clients : \/ ListenFlatten(c) \/ Clear(c) \/ Load(c) \/ Check(c)
                              \/ GetOuter(c) \/ ListenInner(c) \/ Store(c) \/ Read(c)
         \/ UNCHANGED vars
  BY DEF Next, SetterStep, GetStep

------------------------------------------------------------------------------
(* Types, and the count of the sets. *)

LEMMA InitTypeOK == Init => TypeOK /\ CountOK
<1>. SUFFICES ASSUME Init PROVE TypeOK /\ CountOK
     OBVIOUS
<1>1. TypeOK
      BY DEF Init, TypeOK, ClientSteps, Generations
<1>2. {p \in Setters : OuterReplaced(p)} = {}
      BY DEF Init, OuterReplaced
<1>3. CountOK
  <2>1. Cardinality({p \in Setters : OuterReplaced(p)}) = 0
        BY <1>2, FS_EmptySet
  <2>2. changes = 0 /\ sets = 0 /\ \A s \in Sources : val[s] = 0
        BY DEF Init
  <2>. QED BY <2>1, <2>2 DEF CountOK
<1>. QED BY <1>1, <1>3

LEMMA PendingCount ==
  /\ IsFiniteSet({p \in Setters : OuterReplaced(p)})
  /\ Cardinality({p \in Setters : OuterReplaced(p)}) \in Nat
  BY FS_Subset, FS_CardinalityType

(* A setter that begins or ends its wait to be counted makes a difference of  *)
(* at most one.                                                               *)
LEMMA SetterCounts ==
  ASSUME TypeOK, NEW p \in Setters,
         \A q \in Setters \ {p} : setter'[q] = setter[q] /\ target'[q] = target[q]
  PROVE  LET before == Cardinality({q \in Setters : OuterReplaced(q)})
             after == Cardinality({q \in Setters : OuterReplaced(q)'})
         IN  /\ before \in Nat /\ after \in Nat
             /\ after <= before + 1
             /\ ~OuterReplaced(p)' => after <= before
             /\ OuterReplaced(p) /\ ~OuterReplaced(p)' => after = before - 1
<1>. DEFINE S == {q \in Setters : OuterReplaced(q)}
            T == {q \in Setters : OuterReplaced(q)'}
<1>1. IsFiniteSet(S) /\ IsFiniteSet(T)
      BY FS_Subset
<1>2. \A q \in Setters \ {p} : q \in S <=> q \in T
      BY DEF OuterReplaced
<1>3. T = S \cup {p} \/ T = S \ {p}
      BY <1>2
<1>4. (p \in S <=> OuterReplaced(p)) /\ (p \in T <=> OuterReplaced(p)')
      OBVIOUS
<1>. HIDE DEF S, T
<1>5. /\ Cardinality(S) \in Nat /\ Cardinality(T) \in Nat
      /\ Cardinality(S \cup {p}) = IF p \in S THEN Cardinality(S) ELSE Cardinality(S) + 1
      /\ Cardinality(S \ {p}) = IF p \in S THEN Cardinality(S) - 1 ELSE Cardinality(S)
      BY <1>1, FS_AddElement, FS_RemoveElement, FS_CardinalityType
<1>6. /\ Cardinality(T) <= Cardinality(S) + 1
      /\ p \notin T => Cardinality(T) <= Cardinality(S)
      /\ p \in S /\ p \notin T => Cardinality(T) = Cardinality(S) - 1
  <2>1. CASE T = S \cup {p}
        BY <1>5, <2>1
  <2>2. CASE T = S \ {p}
        BY <1>5, <2>2
  <2>. QED BY <1>3, <2>1, <2>2
<1>. QED BY <1>4, <1>5, <1>6 DEF S, T

(* The client's own part of the types.                                        *)
LEMMA SetterTypeOK ==
  ASSUME TypeOK, CountOK, NEW p \in Setters,
         \/ \E s \in Sources : ReplaceOuter(p, s) \/ ReplaceInner(p, s)
         \/ ReceiveOuter(p) \/ NotifyOuter(p) \/ NotifyInner(p)
  PROVE  TypeOK' /\ CountOK'
<1>. DEFINE before == Cardinality({q \in Setters : OuterReplaced(q)})
            after == Cardinality({q \in Setters : OuterReplaced(q)'})
<1>1. /\ setter \in [Setters -> {"idle", "replaced", "counted"}]
      /\ target \in [Setters -> Sources \cup {None}]
      /\ val \in [Sources -> 0..MaxSets] /\ sets \in 0..MaxSets /\ changes \in 0..MaxSets
      BY DEF TypeOK
<1>2. /\ setter' \in [Setters -> {"idle", "replaced", "counted"}]
      /\ target' \in [Setters -> Sources \cup {None}]
      /\ \A q \in Setters \ {p} : setter'[q] = setter[q] /\ target'[q] = target[q]
      BY <1>1 DEF ReplaceOuter, ReplaceInner, ReceiveOuter, NotifyOuter, NotifyInner
<1>3. /\ before \in Nat /\ after \in Nat /\ after <= before + 1
      /\ ~OuterReplaced(p)' => after <= before
      /\ OuterReplaced(p) /\ ~OuterReplaced(p)' => after = before - 1
      BY <1>2, SetterCounts
<1>4. changes + before <= sets /\ \A s \in Sources : val[s] <= sets
      BY DEF CountOK
<1>. HIDE DEF before, after
<1>5. /\ sets' \in 0..MaxSets /\ changes' \in Nat /\ changes' + after <= sets'
      /\ outer' \in Sources /\ flag' \in [Clients -> BOOLEAN]
      /\ val' \in [Sources -> 0..MaxSets] /\ \A s \in Sources : val'[s] <= sets'
  <2>1. outer \in Sources /\ flag \in [Clients -> BOOLEAN]
        BY DEF TypeOK
  <2>2. ASSUME NEW s \in Sources, ReplaceOuter(p, s)
        PROVE  /\ sets' \in 0..MaxSets /\ changes' \in Nat /\ changes' + after <= sets'
               /\ outer' \in Sources /\ flag' \in [Clients -> BOOLEAN]
               /\ val' \in [Sources -> 0..MaxSets] /\ \A r \in Sources : val'[r] <= sets'
        BY <1>1, <1>3, <1>4, <2>1, <2>2 DEF ReplaceOuter
  <2>3. ASSUME NEW s \in Sources, ReplaceInner(p, s)
        PROVE  /\ sets' \in 0..MaxSets /\ changes' \in Nat /\ changes' + after <= sets'
               /\ outer' \in Sources /\ flag' \in [Clients -> BOOLEAN]
               /\ val' \in [Sources -> 0..MaxSets] /\ \A r \in Sources : val'[r] <= sets'
    <3>1. ~OuterReplaced(p)'
          BY <1>1, <2>3 DEF ReplaceInner, OuterReplaced
    <3>. QED BY <1>1, <1>3, <1>4, <2>1, <2>3, <3>1 DEF ReplaceInner
  <2>4. CASE ReceiveOuter(p)
    <3>1. OuterReplaced(p) /\ ~OuterReplaced(p)'
          BY <1>1, <2>4 DEF ReceiveOuter, OuterReplaced
    <3>. QED BY <1>1, <1>3, <1>4, <2>1, <2>4, <3>1 DEF ReceiveOuter
  <2>5. CASE NotifyOuter(p)
    <3>1. ~OuterReplaced(p)'
          BY <1>1, <2>5 DEF NotifyOuter, OuterReplaced
    <3>2. flag' \in [Clients -> BOOLEAN]
          BY <2>1, <2>5, Zenon DEF NotifyOuter, NotifyClients
    <3>. QED BY <1>1, <1>3, <1>4, <2>1, <2>5, <3>1, <3>2 DEF NotifyOuter
  <2>6. CASE NotifyInner(p)
    <3>1. ~OuterReplaced(p)'
          BY <1>1, <2>6 DEF NotifyInner, OuterReplaced
    <3>2. flag' \in [Clients -> BOOLEAN]
          BY <2>1, <2>6, Zenon DEF NotifyInner, NotifyClients
    <3>. QED BY <1>1, <1>3, <1>4, <2>1, <2>6, <3>1, <3>2 DEF NotifyInner
  <2>. QED BY <2>2, <2>3, <2>4, <2>5, <2>6
<1>6. changes' \in 0..MaxSets
      BY <1>3, <1>5
<1>7. CountOK'
      BY <1>5 DEF CountOK, after
<1>8. UNCHANGED <<state, client, needed, source, fresh, seen, start>>
      BY DEF ReplaceOuter, ReplaceInner, ReceiveOuter, NotifyOuter, NotifyInner
<1>. QED BY <1>2, <1>5, <1>6, <1>7, <1>8 DEF TypeOK

LEMMA ClientTypeOK ==
  ASSUME TypeOK, NEW c \in Clients,
         \/ ListenFlatten(c) \/ Clear(c) \/ Load(c) \/ Check(c)
         \/ GetOuter(c) \/ ListenInner(c) \/ Store(c) \/ Read(c)
  PROVE  TypeOK'
<1>. USE DEF env, Goto, ClientSteps
<1>1. CASE ListenFlatten(c)
  <2>1. [sees |-> Current, subscribed |-> Settled] \in [sees : Sources \X (0..MaxSets), subscribed : BOOLEAN]
        BY DEF TypeOK, Current, Settled, Subscribed
  <2>. QED BY <1>1, <2>1 DEF TypeOK, ListenFlatten
<1>2. CASE Clear(c)
      BY <1>2 DEF TypeOK, Clear
<1>3. CASE Load(c)
  <2>1. generation \in Generations
        BY DEF TypeOK, generation, Generations
  <2>. QED BY <1>3, <2>1 DEF TypeOK, Load
<1>4. CASE Check(c)
      BY <1>4 DEF TypeOK, Check, CacheFits, State
<1>5. CASE GetOuter(c)
      BY <1>5 DEF TypeOK, GetOuter
<1>6. CASE ListenInner(c)
      BY <1>6 DEF TypeOK, ListenInner
<1>7. CASE Store(c)
  <2>1. source[c] \in Sources
        BY <1>7 DEF TypeOK, Store
  <2>2. state' = None \/ state' \in State
        BY <1>7, <2>1 DEF TypeOK, Store, State, NewGeneration, Generations
  <2>3. source' \in [Clients -> Sources \cup {None}] /\ source'[c] \in Sources
        BY <1>7, <2>1 DEF TypeOK, Store, State
  <2>4. \A d \in Clients \ {c} : source'[d] = source[d]
        BY <1>7 DEF TypeOK, Store
  <2>5. /\ client' = [client EXCEPT ![c] = "read"] /\ fresh' = [fresh EXCEPT ![c] = None]
        /\ UNCHANGED <<env, needed, flag, seen, start>> /\ client[c] = "store"
        BY <1>7 DEF Store
  <2>. HIDE DEF Goto
  <2>. QED BY <2>2, <2>3, <2>4, <2>5 DEF TypeOK
<1>8. CASE Read(c)
  <2>1. <<source[c], val[source[c]]>> \in Sources \X (0..MaxSets)
        BY <1>8 DEF TypeOK, Read
  <2>. QED BY <1>8, <2>1 DEF TypeOK, Read, Generations
<1>. QED BY <1>1, <1>2, <1>3, <1>4, <1>5, <1>6, <1>7, <1>8

LEMMA NextTypeOK == TypeOK /\ CountOK /\ [Next]_vars => TypeOK' /\ CountOK'
<1> SUFFICES ASSUME TypeOK, CountOK, [Next]_vars PROVE TypeOK' /\ CountOK'
    OBVIOUS
<1>1. ASSUME NEW c \in Clients,
             \/ ListenFlatten(c) \/ Clear(c) \/ Load(c) \/ Check(c)
             \/ GetOuter(c) \/ ListenInner(c) \/ Store(c) \/ Read(c)
      PROVE  TypeOK' /\ CountOK'
  <2>1. UNCHANGED env
        BY <1>1 DEF ListenFlatten, Clear, Load, Check, GetOuter, ListenInner, Store, Read
  <2>. QED BY <1>1, <2>1, ClientTypeOK DEF CountOK, OuterReplaced, env
<1>2. CASE UNCHANGED vars
      BY <1>2 DEF vars, TypeOK, CountOK, OuterReplaced
<1>. QED BY <1>1, <1>2, SetterTypeOK, NextCases

(* Every variable has its type, a get() has a source when it needs one, and   *)
(* only a get() between listen() and store holds a gate of its own.           *)
THEOREM TypeCorrect == Spec => []TypeOK
<1>. QED BY InitTypeOK, NextTypeOK, PTL DEF Spec

------------------------------------------------------------------------------
(* What clients know. *)

(* Clients that only watch are in no get().                                   *)
WatchersOK == \A c \in Clients \ Getters : client[c] \in {"new", "idle"} /\ seen[c] = None

(* As long as nothing has been counted, a source that was the outer one's     *)
(* value still is, or is about to be counted out.                             *)
Moved == changes # 0 \/ \E p \in Setters : OuterReplaced(p)
Recent(s) == s = outer \/ Moved

StateOK ==
    /\ state # None => state.generation = 0 /\ Recent(state.source)
    /\ \A c \in Clients : client[c] \in {"listen", "store"} => Recent(source[c])

(* What a get() in progress has found is still so, or its client is told; and *)
(* so is what an idle client has seen.                                        *)
GetHolds(c) ==
    /\ client[c] \in {"check", "get", "listen", "store"} => Told(c) \/ needed[c] = changes
    /\ client[c] \in {"listen", "store", "read"} => Told(c) \/ source[c] = outer
    /\ client[c] = "read" => state # None /\ state.source = source[c]
    /\ client[c] = "new" => seen[c] = None
    /\ client[c] = "idle" /\ seen[c] # None =>
         \/ Told(c)
         \/ /\ Subscribed /\ seen[c][1] = outer
            /\ seen[c][2] = val[outer] \/ InnerPending(outer)

GetOK == NotWrapped => \A c \in Getters : GetHolds(c)

(* What there was to see when a client listened is still so, or it is told.   *)
(* The subscription is not taken from it by a get() that began later.         *)
WatchOK ==
    \A c \in Clients : start[c] # None =>
      /\ client[c] = "idle"
      /\ \/ Told(c)
         \/ /\ outer = start[c].sees[1]
            /\ start[c].subscribed =>
                 /\ Subscribed
                 /\ start[c].sees[2] = val[outer] \/ InnerPending(outer)
                 /\ \A g \in Clients : client[g] \in {"listen", "store"} => source[g] = outer

ClientStep(c) ==
    \/ ListenFlatten(c) \/ Clear(c) \/ Load(c) \/ Check(c)
    \/ GetOuter(c) \/ ListenInner(c) \/ Store(c) \/ Read(c)
SetterMove(p) ==
    \/ \E s \in Sources : ReplaceOuter(p, s) \/ ReplaceInner(p, s)
    \/ ReceiveOuter(p) \/ NotifyOuter(p) \/ NotifyInner(p)

LEMMA Moves ==
  ASSUME [Next]_vars
  PROVE  \/ \E p \in Setters : SetterMove(p)
         \/ \E c \in Clients : ClientStep(c)
         \/ UNCHANGED vars
  BY NextCases DEF SetterMove, ClientStep

LEMMA SetterKeeps ==
  ASSUME TypeOK, NEW p \in Setters, SetterMove(p)
  PROVE  /\ UNCHANGED <<state, client, needed, source, fresh, seen, start>>
         /\ \A q \in Setters \ {p} : setter'[q] = setter[q] /\ target'[q] = target[q]
         /\ \A c \in Clients : flag[c] => flag'[c]
<1>1. UNCHANGED <<state, client, needed, source, fresh, seen, start>>
      BY DEF SetterMove, ReplaceOuter, ReplaceInner, ReceiveOuter, NotifyOuter, NotifyInner
<1>2. \A q \in Setters \ {p} : setter'[q] = setter[q] /\ target'[q] = target[q]
      BY DEF TypeOK, SetterMove, ReplaceOuter, ReplaceInner, ReceiveOuter, NotifyOuter, NotifyInner
<1>3. flag' = flag \/ NotifyClients
      BY DEF SetterMove, ReplaceOuter, ReplaceInner, ReceiveOuter, NotifyOuter, NotifyInner
<1>4. \A c \in Clients : flag[c] => flag'[c]
      BY <1>3, Zenon DEF NotifyClients
<1>. QED BY <1>1, <1>2, <1>4

LEMMA ClientKeeps ==
  ASSUME TypeOK, NEW c \in Clients, ClientStep(c)
  PROVE  /\ UNCHANGED env
         /\ \A d \in Clients \ {c} :
              /\ client'[d] = client[d] /\ needed'[d] = needed[d] /\ source'[d] = source[d]
              /\ flag'[d] = flag[d] /\ seen'[d] = seen[d] /\ start'[d] = start[d]
         /\ ~Clear(c) => flag' = flag
         /\ client[c] \in {"new", "idle"} => UNCHANGED <<state, source>>
         /\ client'[c] # "new"
<1>1. UNCHANGED env /\ (~Clear(c) => flag' = flag)
      BY DEF ClientStep, ListenFlatten, Clear, Load, Check, GetOuter, ListenInner, Store, Read
<1>2. \A d \in Clients \ {c} :
        /\ client'[d] = client[d] /\ needed'[d] = needed[d] /\ source'[d] = source[d]
        /\ flag'[d] = flag[d] /\ seen'[d] = seen[d] /\ start'[d] = start[d]
      BY DEF TypeOK, Goto,
             ClientStep, ListenFlatten, Clear, Load, Check, GetOuter, ListenInner, Store, Read
<1>3. /\ client[c] \in {"new", "idle"} => UNCHANGED <<state, source>>
      /\ client'[c] # "new"
      BY DEF TypeOK, Goto,
             ClientStep, ListenFlatten, Clear, Load, Check, GetOuter, ListenInner, Store, Read
<1>. QED BY <1>1, <1>2, <1>3

(* Once told a client stays told, until it clears its flag.                   *)
LEMMA ToldStays ==
  ASSUME TypeOK, [Next]_vars, NEW c \in Clients, client[c] # "new", ~Clear(c), Told(c)
  PROVE  Told(c)'
<1>1. ASSUME NEW p \in Setters, SetterMove(p) PROVE Told(c)'
  <2>1. CASE NotifyOuter(p)
    <3>1. flag'[c]
          BY <2>1, Zenon DEF NotifyOuter, NotifyClients
    <3>. QED BY <3>1 DEF Told
  <2>2. CASE ReceiveOuter(p)
    <3>1. setter'[p] = "counted"
          BY <2>2 DEF ReceiveOuter, TypeOK
    <3>. QED BY <3>1 DEF Told, OuterPending
  <2>3. CASE ~NotifyOuter(p) /\ ~ReceiveOuter(p)
    <3>1. ~OuterReplaced(p) /\ setter[p] # "counted"
          BY <1>1, <2>3 DEF SetterMove, ReplaceOuter, ReplaceInner, NotifyInner, OuterReplaced
    <3>2. OuterPending => OuterPending'
          BY <1>1, <3>1, SetterKeeps DEF OuterPending, OuterReplaced
    <3>. QED BY <1>1, <3>2, SetterKeeps DEF Told
  <2>. QED BY <2>1, <2>2, <2>3
<1>2. ASSUME NEW d \in Clients, ClientStep(d) PROVE Told(c)'
  <2>1. UNCHANGED env /\ flag'[c] = flag[c]
        BY <1>2, ClientKeeps
  <2>. QED BY <2>1 DEF Told, OuterPending, OuterReplaced, env
<1>3. CASE UNCHANGED vars
      BY <1>3 DEF vars, Told, OuterPending, OuterReplaced
<1>. QED BY <1>1, <1>2, <1>3, Moves

(* A change of the outer source is notified of later.                         *)
LEMMA OuterMoves ==
  ASSUME TypeOK, [Next]_vars
  PROVE  /\ outer' = outer \/ \E p \in Setters : OuterReplaced(p)'
         /\ changes' = changes \/ OuterPending'
         /\ changes' >= changes
<1>1. ASSUME NEW p \in Setters, SetterMove(p)
      PROVE  /\ outer' = outer \/ \E q \in Setters : OuterReplaced(q)'
             /\ changes' = changes \/ OuterPending'
             /\ changes' >= changes
  <2>1. changes \in Nat
        BY DEF TypeOK
  <2>2. ASSUME NEW s \in Sources, ReplaceOuter(p, s)
        PROVE  OuterReplaced(p)' /\ changes' = changes
        BY <2>2 DEF ReplaceOuter, OuterReplaced, TypeOK
  <2>3. CASE ReceiveOuter(p)
    <3>1. setter'[p] = "counted" /\ changes' = changes + 1 /\ outer' = outer
          BY <2>3 DEF ReceiveOuter, TypeOK
    <3>. QED BY <2>1, <3>1 DEF OuterPending
  <2>4. CASE (\E s \in Sources : ReplaceInner(p, s)) \/ NotifyOuter(p) \/ NotifyInner(p)
        BY <2>1, <2>4 DEF ReplaceInner, NotifyOuter, NotifyInner
  <2>. QED BY <1>1, <2>1, <2>2, <2>3, <2>4 DEF SetterMove
<1>2. ASSUME NEW c \in Clients, ClientStep(c) PROVE outer' = outer /\ changes' = changes
      BY <1>2, ClientKeeps DEF env
<1>3. CASE UNCHANGED vars
      BY <1>3 DEF vars, TypeOK
<1>4. changes \in Nat
      BY DEF TypeOK
<1>. QED BY <1>1, <1>2, <1>3, <1>4, Moves

(* A change of the subscribed inner source is notified of later, or has just  *)
(* been.                                                                      *)
LEMMA InnerMoves ==
  ASSUME TypeOK, [Next]_vars, NEW c \in Clients, client[c] # "new",
         Subscribed, outer' = outer, NEW v, v = val[outer] \/ InnerPending(outer)
  PROVE  v = val'[outer] \/ InnerPending(outer)' \/ flag'[c]
<1>1. ASSUME NEW p \in Setters, SetterMove(p)
      PROVE  v = val'[outer] \/ InnerPending(outer)' \/ flag'[c]
  <2>1. CASE NotifyInner(p) /\ target[p] = outer
    <3>1. Listening(outer)
          BY DEF Listening, Subscribed
    <3>2. NotifyClients
          BY <2>1, <3>1 DEF NotifyInner
    <3>3. flag'[c]
          BY <3>2, Zenon DEF NotifyClients
    <3>. QED BY <3>3
  <2>2. CASE ReplaceInner(p, outer)
    <3>1. setter'[p] = "replaced" /\ target'[p] = outer
          BY <2>2 DEF ReplaceInner, TypeOK
    <3>. QED BY <3>1 DEF InnerPending
  <2>3. CASE ~(NotifyInner(p) /\ target[p] = outer) /\ ~ReplaceInner(p, outer)
    <3>1. ~(setter[p] = "replaced" /\ target[p] = outer) /\ val'[outer] = val[outer]
          BY <1>1, <2>3 DEF TypeOK, SetterMove, ReplaceOuter, ReplaceInner, ReceiveOuter,
                            NotifyOuter, NotifyInner
    <3>2. InnerPending(outer) => InnerPending(outer)'
          BY <1>1, <3>1, SetterKeeps DEF InnerPending
    <3>. QED BY <3>1, <3>2
  <2>. QED BY <2>1, <2>2, <2>3
<1>2. ASSUME NEW d \in Clients, ClientStep(d) PROVE v = val'[outer] \/ InnerPending(outer)'
      BY <1>2, ClientKeeps DEF env, InnerPending
<1>3. CASE UNCHANGED vars
      BY <1>3 DEF vars, InnerPending
<1>. QED BY <1>1, <1>2, <1>3, Moves

LEMMA MovedStays ==
  ASSUME TypeOK, [Next]_vars
  PROVE  (Moved => Moved') /\ (outer' = outer \/ Moved')
<1>1. ASSUME Moved, NEW p \in Setters, SetterMove(p) PROVE Moved'
  <2>1. CASE ReceiveOuter(p)
        BY <2>1 DEF ReceiveOuter, TypeOK, Moved
  <2>2. ASSUME NEW r \in Sources, ReplaceOuter(p, r) PROVE Moved'
    <3>1. OuterReplaced(p)'
          BY <2>2 DEF ReplaceOuter, OuterReplaced, TypeOK
    <3>. QED BY <3>1 DEF Moved
  <2>3. CASE (\E r \in Sources : ReplaceInner(p, r)) \/ NotifyOuter(p) \/ NotifyInner(p)
    <3>1. ~OuterReplaced(p) /\ changes' = changes
          BY <2>3 DEF ReplaceInner, NotifyOuter, NotifyInner, OuterReplaced
    <3>. QED BY <1>1, <3>1, SetterKeeps DEF Moved, OuterReplaced
  <2>. QED BY <1>1, <2>1, <2>2, <2>3 DEF SetterMove
<1>2. ASSUME NEW d \in Clients, ClientStep(d) PROVE Moved' = Moved
      BY <1>2, ClientKeeps DEF env, Moved, OuterReplaced
<1>3. CASE UNCHANGED vars
      BY <1>3 DEF vars, Moved, OuterReplaced
<1>4. outer' = outer \/ Moved'
      BY OuterMoves DEF Moved
<1>. QED BY <1>1, <1>2, <1>3, <1>4, Moves

LEMMA InitKnown == Init => WatchersOK /\ StateOK /\ GetOK /\ WatchOK
  BY DEF Init, WatchersOK, StateOK, GetOK, GetHolds, WatchOK

LEMMA NextWatchers == TypeOK /\ WatchersOK /\ [Next]_vars => WatchersOK'
<1> SUFFICES ASSUME TypeOK, WatchersOK, [Next]_vars, NEW c \in Clients \ Getters
             PROVE  client'[c] \in {"new", "idle"} /\ seen'[c] = None
    BY DEF WatchersOK
<1>1. ASSUME NEW p \in Setters, SetterMove(p) PROVE UNCHANGED <<client, seen>>
      BY <1>1, SetterKeeps
<1>2. ASSUME NEW d \in Clients \ {c}, ClientStep(d)
      PROVE  client'[c] = client[c] /\ seen'[c] = seen[c]
      BY <1>2, ClientKeeps
<1>3. CASE ClientStep(c)
  <2>1. ListenFlatten(c)
        BY <1>3 DEF WatchersOK, ClientStep, Clear, Load, Check, GetOuter, ListenInner, Store, Read
  <2>. QED BY <2>1 DEF TypeOK, WatchersOK, ListenFlatten, Goto
<1>4. CASE UNCHANGED vars
      BY <1>4 DEF vars, WatchersOK
<1>. QED BY <1>1, <1>2, <1>3, <1>4, Moves DEF WatchersOK

LEMMA NoneApart == \A s \in Sources : [generation |-> 0, source |-> s] # None
<1>1. \A s \in Sources : [generation |-> 0, source |-> s] \in [generation : Nat, source : Sources]
      OBVIOUS
<1>. QED BY <1>1

LEMMA StoreState ==
  ASSUME TypeOK, NEW c \in Clients, Store(c)
  PROVE  \/ /\ UNCHANGED state /\ state # None /\ state.generation >= needed[c]
            /\ source'[c] = state.source
         \/ /\ state' # None /\ state'.generation = 0 /\ state'.source = source[c]
            /\ source' = source
<1>1. source[c] \in Sources
      BY DEF TypeOK, Store
<1>2. CASE state # None /\ state.generation >= needed[c] /\ UNCHANGED state
           /\ source' = [source EXCEPT ![c] = state.source]
      BY <1>2 DEF TypeOK
<1>3. CASE state' = [generation |-> 0, source |-> source[c]] /\ source' = source
      BY <1>1, <1>3, NoneApart
<1>. QED BY <1>2, <1>3 DEF Store, NewGeneration

LEMMA NextState == TypeOK /\ StateOK /\ [Next]_vars => StateOK'
<1> SUFFICES ASSUME TypeOK, StateOK, [Next]_vars PROVE StateOK'
    OBVIOUS
<1>. USE MovedStays DEF StateOK, Recent
<1>1. CASE (\E p \in Setters : SetterMove(p)) \/ UNCHANGED vars
  <2>1. UNCHANGED <<state, client, source>>
        BY <1>1, SetterKeeps DEF vars
  <2>. QED BY <2>1
<1>2. ASSUME NEW c \in Clients, ClientStep(c) PROVE StateOK'
  <2>1. ASSUME NEW d \in Clients \ {c}, client'[d] \in {"listen", "store"}
        PROVE  source'[d] = outer' \/ Moved'
    <3>1. client'[d] = client[d] /\ source'[d] = source[d]
          BY <1>2, ClientKeeps
    <3>. QED BY <2>1, <3>1
  <2>2. CASE GetOuter(c)
    <3>1. source'[c] = outer' /\ UNCHANGED state
          BY <2>2 DEF GetOuter, env, TypeOK
    <3>. QED BY <2>1, <3>1
  <2>3. CASE ListenInner(c)
    <3>1. source'[c] = source[c] /\ client[c] = "listen" /\ UNCHANGED state
          BY <2>3 DEF ListenInner
    <3>. QED BY <2>1, <3>1
  <2>4. CASE Store(c)
    <3>1. client[c] = "store" /\ client'[c] = "read"
          BY <2>4 DEF Store, Goto, TypeOK
    <3>. QED BY <2>1, <2>4, <3>1, StoreState
  <2>5. CASE ~GetOuter(c) /\ ~ListenInner(c) /\ ~Store(c)
    <3>1. UNCHANGED state /\ client'[c] \notin {"listen", "store"}
          BY <1>2, <2>5 DEF ClientStep, ListenFlatten, Clear, Load, Check, Read, Goto, TypeOK
    <3>. QED BY <2>1, <3>1
  <2>. QED BY <2>2, <2>3, <2>4, <2>5
<1>. QED BY <1>1, <1>2, Moves

LEMMA NextWatch == TypeOK /\ WatchOK /\ [Next]_vars => WatchOK'
<1> SUFFICES ASSUME TypeOK, WatchOK, [Next]_vars, NEW c \in Clients, start'[c] # None
             PROVE  /\ client'[c] = "idle"
                    /\ \/ Told(c)'
                       \/ /\ outer' = start'[c].sees[1]
                          /\ start'[c].subscribed =>
                               /\ Subscribed'
                               /\ start'[c].sees[2] = val'[outer'] \/ InnerPending(outer)'
                               /\ \A g \in Clients :
                                    client'[g] \in {"listen", "store"} => source'[g] = outer'
    BY DEF WatchOK
<1>1. CASE ListenFlatten(c)
  <2>1. /\ client'[c] = "idle" /\ start'[c] = [sees |-> Current, subscribed |-> Settled]
        /\ UNCHANGED <<env, state, source>>
        BY <1>1 DEF ListenFlatten, Goto, TypeOK
  <2>2. /\ start'[c].sees[1] = outer' /\ start'[c].sees[2] = val'[outer']
        /\ start'[c].subscribed => Settled
        BY <2>1 DEF Current, env
  <2>3. Settled => Subscribed' /\ \A g \in Clients : client'[g] \notin {"listen", "store"}
    <3>1. \A g \in Clients \ {c} : client'[g] = client[g]
          BY <1>1, ClientKeeps DEF ClientStep
    <3>. QED BY <2>1, <3>1 DEF Settled, Subscribed, env
  <2>. QED BY <2>1, <2>2, <2>3
<1>2. CASE ~ListenFlatten(c)
  <2>1. start'[c] = start[c] /\ ~Clear(c)
    <3>1. ASSUME NEW p \in Setters, SetterMove(p) PROVE UNCHANGED <<start, client>>
          BY <3>1, SetterKeeps
    <3>2. ASSUME NEW d \in Clients \ {c}, ClientStep(d) PROVE start'[c] = start[c]
          BY <3>2, ClientKeeps
    <3>3. CASE ClientStep(c)
          BY <1>2, <3>3 DEF ClientStep, Clear, Load, Check, GetOuter, ListenInner, Store, Read, TypeOK
    <3>4. ~Clear(c)
          BY DEF Clear, TypeOK
    <3>. QED BY <3>1, <3>2, <3>3, <3>4, Moves DEF vars
  <2>2. client[c] = "idle"
        BY <2>1 DEF WatchOK
  <2>3. ~ClientStep(c)
        BY <1>2, <2>1, <2>2 DEF ClientStep, Load, Check, GetOuter, ListenInner, Store, Read
  <2>4. client'[c] = "idle"
        BY <2>2, <2>3, Moves, SetterKeeps, ClientKeeps DEF vars
  <2>5. SUFFICES ASSUME ~Told(c)'
                 PROVE  /\ outer' = start[c].sees[1]
                        /\ start[c].subscribed =>
                             /\ Subscribed'
                             /\ start[c].sees[2] = val'[outer'] \/ InnerPending(outer)'
                             /\ \A g \in Clients :
                                  client'[g] \in {"listen", "store"} => source'[g] = outer'
        BY <2>1, <2>4
  <2>6. ~Told(c) /\ outer' = outer /\ ~flag'[c]
    <3>1. ~Told(c)
          BY <2>1, <2>2, <2>5, ToldStays
    <3>. QED BY <2>5, <3>1, OuterMoves DEF Told, OuterPending
  <2>7. outer' = start[c].sees[1]
        BY <2>1, <2>6 DEF WatchOK
  <2>. SUFFICES ASSUME start[c].subscribed
                PROVE  /\ Subscribed'
                       /\ start[c].sees[2] = val'[outer'] \/ InnerPending(outer)'
                       /\ \A g \in Clients :
                            client'[g] \in {"listen", "store"} => source'[g] = outer'
       BY <2>7
  <2>8. /\ Subscribed
        /\ start[c].sees[2] = val[outer] \/ InnerPending(outer)
        /\ \A g \in Clients : client[g] \in {"listen", "store"} => source[g] = outer
        BY <2>1, <2>6 DEF WatchOK
  <2>9. start[c].sees[2] = val'[outer'] \/ InnerPending(outer)'
    <3>1. start[c].sees[2] = val'[outer] \/ InnerPending(outer)' \/ flag'[c]
          BY <2>2, <2>6, <2>8, InnerMoves
    <3>. QED BY <2>6, <3>1
  <2>10. CASE (\E p \in Setters : SetterMove(p)) \/ UNCHANGED vars
    <3>1. UNCHANGED <<state, client, source>>
          BY <2>10, SetterKeeps DEF vars
    <3>. QED BY <2>6, <2>8, <2>9, <3>1 DEF Subscribed
  <2>11. ASSUME NEW d \in Clients, ClientStep(d)
         PROVE  /\ Subscribed'
                /\ \A g \in Clients : client'[g] \in {"listen", "store"} => source'[g] = outer'
    <3>1. \A g \in Clients \ {d} : client'[g] = client[g] /\ source'[g] = source[g]
          BY <2>11, ClientKeeps
    <3>2. CASE Store(d)
      <4>1. client[d] = "store" /\ client'[d] = "read"
            BY <3>2 DEF Store, Goto, TypeOK
      <4>2. Subscribed'
            BY <2>6, <2>8, <3>2, <4>1, StoreState DEF Subscribed
      <4>. QED BY <2>6, <2>8, <3>1, <4>1, <4>2
    <3>3. CASE ~Store(d)
      <4>1. UNCHANGED state /\ (client'[d] \in {"listen", "store"} => source'[d] = outer)
            BY <2>8, <2>11, <3>3 DEF ClientStep, ListenFlatten, Clear, Load, Check, GetOuter,
                                     ListenInner, Read, Goto, TypeOK
      <4>. QED BY <2>6, <2>8, <3>1, <4>1 DEF Subscribed
    <3>. QED BY <3>2, <3>3
  <2>. QED BY <2>9, <2>10, <2>11, Moves
<1>. QED BY <1>1, <1>2

LEMMA AtRestMeans ==
  ASSUME NEW c, AtRest(c)
  PROVE  ~Told(c) /\ \A s : ~InnerPending(s)
  BY DEF AtRest, Told, OuterPending, OuterReplaced, InnerPending

LEMMA WatchTells == TypeOK /\ WatchOK => WatcherIsTold
<1> SUFFICES ASSUME TypeOK, WatchOK, NEW c \in Clients, AtRest(c), start[c] # None
             PROVE  /\ outer = start[c].sees[1]
                    /\ start[c].subscribed => start[c].sees = Current
    BY DEF WatcherIsTold
<1>1. start[c].sees \in Sources \X (0..MaxSets)
      BY DEF TypeOK
<1>2. /\ outer = start[c].sees[1]
      /\ start[c].subscribed => start[c].sees[2] = val[outer]
      BY AtRestMeans DEF WatchOK
<1>. QED BY <1>1, <1>2 DEF Current

(* A client that only listens is told of every change of the outer source, and *)
(* of the inner source's value if that was subscribed to when it came, however *)
(* many others get() meanwhile and shift the subscription.                     *)
THEOREM WatcherIsToldHolds == Spec => []WatcherIsTold
<1>. QED BY InitTypeOK, NextTypeOK, InitKnown, NextWatch, WatchTells, PTL DEF Spec

------------------------------------------------------------------------------
(* One client that gets, among any number that watch. *)

OneGetter == \A c, d \in Getters : c = d

(* While others move, what a getter relies on moves only with notice.         *)
LEMMA OthersKeepGet ==
  ASSUME TypeOK, [Next]_vars, NEW c \in Getters, GetHolds(c), ~ClientStep(c), UNCHANGED state
  PROVE  GetHolds(c)'
<1>1. /\ client'[c] = client[c] /\ needed'[c] = needed[c] /\ source'[c] = source[c]
      /\ seen'[c] = seen[c]
      BY Moves, SetterKeeps, ClientKeeps DEF vars
<1>2. ~Clear(c)
      BY DEF ClientStep
<1>3. CASE client[c] = "new"
      BY <1>1, <1>3 DEF GetHolds
<1>4. CASE Told(c)' /\ client[c] # "new"
      BY <1>1, <1>4 DEF GetHolds
<1>5. CASE ~Told(c)' /\ client[c] # "new"
  <2>1. ~Told(c)
        BY <1>2, <1>5, ToldStays
  <2>2. outer' = outer /\ changes' = changes /\ ~flag'[c]
        BY <1>5, OuterMoves DEF Told, OuterPending
  <2>3. ASSUME Subscribed, seen[c][2] = val[outer] \/ InnerPending(outer)
        PROVE  seen[c][2] = val'[outer] \/ InnerPending(outer)'
    <3>1. seen[c][2] = val'[outer] \/ InnerPending(outer)' \/ flag'[c]
          BY <1>5, <2>2, <2>3, InnerMoves
    <3>. QED BY <2>2, <3>1
  <2>. QED BY <1>1, <2>1, <2>2, <2>3 DEF GetHolds, Subscribed
<1>. QED BY <1>3, <1>4, <1>5

(* A cached state fits, or is new enough, only if it is of the outer source   *)
(* there is now, or the client is told.                                       *)
LEMMA CachedIsCurrent ==
  ASSUME TypeOK, StateOK, NEW c \in Clients, state # None,
         state.generation >= needed[c], Told(c) \/ needed[c] = changes
  PROVE  Told(c) \/ state.source = outer
<1>1. needed[c] \in Nat /\ state.generation = 0
      BY DEF TypeOK, Generations, StateOK
<1>2. needed[c] = 0
      BY <1>1
<1>. QED BY <1>2 DEF StateOK, Recent, Moved, Told, OuterPending

LEMMA OwnGet ==
  ASSUME TypeOK, StateOK, NotWrapped, NEW c \in Getters, GetHolds(c), ClientStep(c)
  PROVE  GetHolds(c)'
<1>1. UNCHANGED env /\ (~Clear(c) => flag' = flag)
      BY ClientKeeps
<1>2. Subscribed' <=> state' # None /\ state'.source = outer
      BY <1>1 DEF Subscribed, env
<1>3. ~Clear(c) => (Told(c)' <=> Told(c))
      BY <1>1 DEF Told, OuterPending, OuterReplaced, env
<1>4. /\ client \in [Clients -> ClientSteps \cup {"idle"}] /\ needed \in [Clients -> Generations]
      /\ source \in [Clients -> Sources \cup {None}]
      /\ seen \in [Clients -> {None} \cup (Sources \X (0..MaxSets))] /\ changes \in Nat
      BY DEF TypeOK
<1>5. CASE ListenFlatten(c)
  <2>1. client'[c] = "idle" /\ seen'[c] = None
        BY <1>4, <1>5 DEF ListenFlatten, Goto, GetHolds
  <2>. QED BY <2>1 DEF GetHolds
<1>6. CASE Clear(c)
  <2>1. client'[c] = "load"
        BY <1>4, <1>6 DEF Clear, Goto
  <2>. QED BY <2>1 DEF GetHolds
<1>7. CASE Load(c)
  <2>1. generation = changes
        BY <1>4 DEF generation, NotWrapped
  <2>2. client'[c] = "check" /\ needed'[c] = changes'
        BY <1>1, <1>4, <1>7, <2>1 DEF Load, Goto, env
  <2>. QED BY <2>2 DEF GetHolds
<1>8. CASE Check(c)
  <2>1. /\ client[c] = "check" /\ needed' = needed /\ changes' = changes /\ outer' = outer
        /\ state' = state
        BY <1>8 DEF Check, env
  <2>2. CASE CacheFits(c) /\ source' = [source EXCEPT ![c] = state.source] /\ Goto(c, "read")
    <3>1. client'[c] = "read" /\ source'[c] = state.source
          BY <1>4, <2>2 DEF Goto
    <3>2. state # None /\ state.generation >= needed[c]
          BY <1>4, <2>2 DEF CacheFits, Generations
    <3>3. Told(c) \/ state.source = outer
          BY <2>1, <3>2, CachedIsCurrent DEF GetHolds
    <3>. QED BY <1>3, <1>8, <2>1, <3>1, <3>2, <3>3 DEF GetHolds, Check, Clear
  <2>3. CASE Goto(c, "get")
    <3>1. client'[c] = "get"
          BY <1>4, <2>3 DEF Goto
    <3>2. Told(c)' <=> Told(c)
          BY <1>3, <2>1 DEF Clear
    <3>. QED BY <2>1, <3>1, <3>2 DEF GetHolds
  <2>. QED BY <1>8, <2>2, <2>3 DEF Check
<1>9. CASE GetOuter(c)
  <2>1. client[c] = "get" /\ client'[c] = "listen" /\ source'[c] = outer /\ needed' = needed
        BY <1>4, <1>9 DEF GetOuter, Goto
  <2>2. Told(c)' <=> Told(c)
        BY <1>3, <2>1 DEF Clear
  <2>. QED BY <1>1, <2>1, <2>2 DEF GetHolds, env
<1>10. CASE ListenInner(c)
  <2>1. /\ client[c] = "listen" /\ client'[c] = "store" /\ source' = source /\ needed' = needed
        BY <1>4, <1>10 DEF ListenInner, Goto
  <2>2. Told(c)' <=> Told(c)
        BY <1>3, <2>1 DEF Clear
  <2>. QED BY <1>1, <2>1, <2>2 DEF GetHolds, env
<1>11. CASE Store(c)
  <2>1. client[c] = "store" /\ client'[c] = "read"
        BY <1>4, <1>11 DEF Store, Goto
  <2>2. Told(c)' <=> Told(c)
        BY <1>3, <2>1 DEF Clear
  <2>3. /\ state' # None /\ state'.source = source'[c]
        /\ Told(c) \/ source'[c] = outer
    <3>1. CASE /\ UNCHANGED state /\ state # None /\ state.generation >= needed[c]
               /\ source'[c] = state.source
          BY <2>1, <3>1, CachedIsCurrent DEF GetHolds
    <3>2. CASE state' # None /\ state'.source = source[c] /\ source' = source
          BY <2>1, <3>2 DEF GetHolds
    <3>. QED BY <1>11, <3>1, <3>2, StoreState
  <2>. QED BY <1>1, <2>1, <2>2, <2>3 DEF GetHolds, env
<1>12. CASE Read(c)
  <2>1. /\ client[c] = "read" /\ client'[c] = "idle" /\ state' = state
        /\ seen'[c] = <<source[c], val[source[c]]>>
        BY <1>4, <1>12 DEF Read, Goto
  <2>2. Told(c)' <=> Told(c)
        BY <1>3, <2>1 DEF Clear
  <2>3. Told(c) \/ (Subscribed' /\ seen'[c][1] = outer /\ seen'[c][2] = val[outer])
        BY <1>2, <2>1 DEF GetHolds
  <2>. QED BY <1>1, <2>1, <2>2, <2>3 DEF GetHolds, env
<1>. QED BY <1>5, <1>6, <1>7, <1>8, <1>9, <1>10, <1>11, <1>12 DEF ClientStep

LEMMA NextGet ==
  ASSUME OneGetter, TypeOK, WatchersOK, StateOK, GetOK, [Next]_vars
  PROVE  GetOK'
<1> SUFFICES ASSUME NotWrapped', NEW c \in Getters PROVE GetHolds(c)'
    BY DEF GetOK
<1>1. NotWrapped
  <2>1. changes \in Nat /\ changes' >= changes
        BY OuterMoves DEF TypeOK
  <2>2. changes' \in Nat
    <3>1. \A p \in Setters : SetterMove(p) => changes' = changes \/ changes' = changes + 1
          BY DEF SetterMove, ReplaceOuter, ReplaceInner, ReceiveOuter, NotifyOuter, NotifyInner
    <3>2. \A d \in Clients : ClientStep(d) => changes' = changes
          BY ClientKeeps DEF env
    <3>. QED BY <2>1, <3>1, <3>2, Moves DEF vars
  <2>. QED BY <2>1, <2>2 DEF NotWrapped
<1>2. GetHolds(c)
      BY <1>1 DEF GetOK
<1>3. CASE ClientStep(c)
      BY <1>1, <1>2, <1>3, OwnGet
<1>4. CASE ~ClientStep(c)
  <2>1. ASSUME NEW d \in Clients, ClientStep(d) PROVE UNCHANGED state
    <3>1. d \notin Getters
          BY <1>4, <2>1 DEF OneGetter
    <3>. QED BY <2>1, <3>1, ClientKeeps DEF WatchersOK
  <2>2. UNCHANGED state
        BY <2>1, Moves, SetterKeeps DEF vars
  <2>. QED BY <1>2, <1>4, <2>2, OthersKeepGet
<1>. QED BY <1>3, <1>4

LEMMA GetTells ==
  ASSUME TypeOK, WatchersOK, GetOK
  PROVE  NoChangeUnnoticed /\ SubscribedToCurrent
<1> SUFFICES ASSUME NEW c \in Clients, NotWrapped, AtRest(c), seen[c] # None
             PROVE  seen[c] = Current /\ Subscribed
    BY DEF NoChangeUnnoticed, SubscribedToCurrent
<1>1. c \in Getters
      BY DEF WatchersOK
<1>2. client[c] = "idle" /\ ~Told(c) /\ ~InnerPending(outer)
      BY AtRestMeans DEF AtRest
<1>3. Subscribed /\ seen[c][1] = outer /\ seen[c][2] = val[outer]
      BY <1>1, <1>2 DEF GetOK, GetHolds
<1>4. seen[c] \in Sources \X (0..MaxSets)
      BY DEF TypeOK
<1>. QED BY <1>3, <1>4 DEF Current

(* What holds of one getter throughout.                                       *)
LEMMA GetInvariant ==
  ASSUME OneGetter
  PROVE  Spec => [](TypeOK /\ WatchersOK /\ GetOK)
<1>1. Init => TypeOK /\ CountOK /\ WatchersOK /\ StateOK /\ GetOK
      BY InitTypeOK, InitKnown
<1>2. TypeOK /\ CountOK /\ WatchersOK /\ StateOK /\ GetOK /\ [Next]_vars
      => TypeOK' /\ CountOK' /\ WatchersOK' /\ StateOK' /\ GetOK'
      BY NextTypeOK, NextWatchers, NextState, NextGet
<1>. QED BY <1>1, <1>2, PTL DEF Spec

(* With one client that gets, that client notices every change: while its flag *)
(* is clear and no set() is in progress, it has seen the current value.        *)
THEOREM NoChangeUnnoticedHolds ==
  ASSUME OneGetter
  PROVE  Spec => []NoChangeUnnoticed
<1>1. TypeOK /\ WatchersOK /\ GetOK => NoChangeUnnoticed
      BY GetTells
<1>. QED BY <1>1, GetInvariant, PTL

(* With one client that gets, the subscription is to the source it has read.   *)
THEOREM SubscribedToCurrentHolds ==
  ASSUME OneGetter
  PROVE  Spec => []SubscribedToCurrent
<1>1. TypeOK /\ WatchersOK /\ GetOK => SubscribedToCurrent
      BY GetTells
<1>. QED BY <1>1, GetInvariant, PTL

==============================================================================
