---------------------------- MODULE DeliveryProofs ----------------------------
(***************************************************************************)
(* Proofs about Delivery.tla, for every number of senders and logs, every  *)
(* capacity of the buffers and of the filters, and every filter.           *)
(***************************************************************************)
EXTENDS Delivery, SequenceTheorems, TLAPS

(* The numbers of a sequence of numbers, and whether they rise.               *)
In(q) == {q[i] : i \in DOMAIN q}
Rises(q) == \A i, j \in DOMAIN q : i < j => q[i] < q[j]

(* What is left of a sender's pushes when the last so many are taken away.    *)
Before(s, q) == pushed[s] - Len(q)
Rest(last, q) == Len(q) <= last /\ \A i \in DOMAIN q : q[i] = (last - Len(q)) + i

(* A buffer holds the last pushes, and all that have not been flushed; the    *)
(* input of a filter is what is left of the buffer.                           *)
BufferHolds(s) ==
    /\ Rest(pushed[s], buffer[s]) /\ Rest(pushed[s], input[s])
    /\ Len(input[s]) <= Len(buffer[s])
    /\ Rises(out[s]) /\ \A n \in In(out[s]) : n <= Before(s, input[s])
    /\ sender[s] # "filter" => input[s] = <<>> /\ out[s] = <<>>
    /\ sent[s] <= pushed[s]
    /\ IF sender[s] \in {"send", "filter"}
       THEN sent[s] = pushed[s]
       ELSE open => sent[s] = Before(s, buffer[s])

BufferOK == \A s \in Senders : BufferHolds(s)

(* How far a log has come with the batch it is owed, or being given.          *)
Reached(l, s) ==
    IF l \notin owed[s] THEN Received(l, s) = Due(l, s, sent[s])
    ELSE IF at[s] # l THEN Received(l, s) = Due(l, s, Before(s, buffer[s]))
    ELSE /\ Received(l, s) \cup In(out[s]) = Due(l, s, Before(s, input[s]))
         /\ \A m \in Received(l, s), n \in In(out[s]) : m < n

(* What a log has received from a sender is in order, due, and without gaps.  *)
(* Only members are owed anything; a log that has received anything has       *)
(* listened, and did so before the batch that it is owed.                     *)
LogHolds(l, s) ==
    /\ InOrder(l, s)
    /\ Received(l, s) \subseteq Due(l, s, sent[s])
    /\ \A n \in Received(l, s) : Due(l, s, n) \subseteq Received(l, s)
    /\ l \in members /\ alive[l] => Reached(l, s)
    /\ l \in owed[s] => l \in members /\ since[l][s] <= Before(s, buffer[s])
    /\ since[l][s] <= sent[s]
    /\ l \in members => open
    /\ open /\ alive[l] /\ l \notin members => Received(l, s) = {}

DirectHolds(l) == InOrder(l, None) /\ Received(l, None) = 1..given[l]

LogOK == \A l \in Logs : DirectHolds(l) /\ \A s \in Senders : LogHolds(l, s)

(* Every number is one of the messages there have been.                       *)
CountOK == (\A s \in Senders : pushed[s] <= created) /\ \A l \in Logs : given[l] <= created

SenderStep(s) ==
    \/ NewBuffer(s) \/ Push(s) \/ PushPanics(s) \/ DropBuffer(s)
    \/ Flush(s) \/ FlushClosed(s) \/ CatchPanic(s) \/ Unwind(s) \/ FlushEnd(s)
    \/ (\E l \in Logs : Call(s, l)) \/ Discard(s) \/ Gather(s) \/ PassOn(s)
    \/ GiveUp(s) \/ PassOnRest(s)

LogStep(l) ==
    \/ Listen(l) \/ Lock(l) \/ Drain(l) \/ Take(l) \/ ReceiveDirectly(l) \/ DropLog(l) \/ Forget(l)

LEMMA NextCases ==
  ASSUME [Next]_vars
  PROVE  \/ \E s \in Senders : SenderStep(s)
         \/ \E l \in Logs : LogStep(l)
         \/ Close
         \/ UNCHANGED vars
  BY DEF Next, FlushStep, SenderStep, LogStep

------------------------------------------------------------------------------
(* Types. *)

USE DeliveryAssumption

LEMMA InitTypeOK == Init => TypeOK /\ CountOK
<1> SUFFICES ASSUME Init PROVE TypeOK /\ CountOK
    OBVIOUS
<1>1. open = TRUE /\ members = {} /\ owed = [s \in Senders |-> {}] /\ alive = [l \in Logs |-> TRUE]
      BY DEF Init, Notifier!Init
<1>2. NotifierTypes
      BY <1>1 DEF NotifierTypes
<1>3. SenderTypes /\ CallTypes
      BY DEF Init, SenderTypes, CallTypes, SenderStates
<1>4. LogTypes /\ CountOK
      BY DEF Init, LogTypes, CountOK
<1>6. OtherTypes
  <2>1. since = [l \in Logs |-> [s \in Senders |-> 0]] /\ 0 \in 0..MaxPush
        BY DEF Init
  <2>2. [s \in Senders |-> 0] \in [Senders -> 0..MaxPush]
        BY <2>1
  <2>3. since \in [Logs -> [Senders -> 0..MaxPush]]
        BY <2>1, <2>2
  <2>. QED BY <2>1, <2>3 DEF Init, OtherTypes
<1>5. BuffersFit /\ CallsFit
      BY <1>1 DEF Init, BuffersFit, CallsFit
<1>. QED BY <1>2, <1>3, <1>4, <1>5, <1>6 DEF TypeOK

LEMMA TaggedIs ==
  ASSUME NEW s \in Senders, NEW q \in Seq(Numbers)
  PROVE  /\ Tagged(s, q) \in Seq(Messages) /\ DOMAIN Tagged(s, q) = DOMAIN q
         /\ \A i \in DOMAIN q : Tagged(s, q)[i] = <<s, q[i]>>
<1>1. DOMAIN q = 1..Len(q) /\ \A i \in DOMAIN q : <<s, q[i]>> \in Messages
      BY DEF Messages
<1>. QED BY <1>1 DEF Tagged

(* What one call of the log does.                                             *)
LEMMA ReceiveIs ==
  ASSUME TypeOK, NEW s \in Senders, sender[s] = "filter", Receive(s)
  PROVE  /\ log' \in [Logs -> Seq(Messages)]
         /\ at[s] \in Logs
         /\ ~alive[at[s]] => log' = log
         /\ alive[at[s]] => log'[at[s]] = log[at[s]] \o Tagged(s, out[s])
         /\ \A l \in Logs \ {at[s]} : log'[l] = log[l]
<1>1. /\ log \in [Logs -> Seq(Messages)] /\ at[s] \in Logs
      /\ Tagged(s, out[s]) \in Seq(Messages)
      BY TaggedIs DEF TypeOK, LogTypes, CallTypes, CallsFit, NotifierTypes
<1>2. log[at[s]] \o Tagged(s, out[s]) \in Seq(Messages)
      BY <1>1
<1>3. \/ alive[at[s]] /\ log' = [log EXCEPT ![at[s]] = log[at[s]] \o Tagged(s, out[s])]
      \/ ~alive[at[s]] /\ log' = log
      BY DEF Receive, Record, Upgraded
<1>. HIDE DEF Tagged
<1>. QED BY <1>1, <1>2, <1>3

(* The end of a call leaves everything but the log in order.                  *)
LEMMA ReturnTypeOK ==
  ASSUME TypeOK, CountOK, NEW s \in Senders, sender[s] = "filter", Return(s),
         log' \in [Logs -> Seq(Messages)]
  PROVE  TypeOK' /\ CountOK'
<1>. USE DEF TypeOK, notifier, call, store, fixed, rest, Goto
<1>1. SenderTypes'
      BY DEF Return, SenderTypes, SenderStates, Flushing
<1>2. CallTypes' /\ out'[s] = <<>> /\ \A r \in Senders \ {s} : out'[r] = out[r]
      BY DEF Return, CallTypes
<1>3. BuffersFit'
      BY <1>2 DEF Return, Notifier!Deliver, SenderTypes, BuffersFit
<1>4. NotifierTypes'
      BY DEF Return, Notifier!Deliver, NotifierTypes
<1>5. CallsFit'
      BY DEF Return, Notifier!Deliver, SenderTypes, NotifierTypes, CallTypes, CallsFit
<1>6. LogTypes' /\ OtherTypes' /\ CountOK'
      BY DEF Return, LogTypes, OtherTypes, CountOK
<1>. QED BY <1>1, <1>2, <1>3, <1>4, <1>5, <1>6

(* ... and so does a step to the next message of the batch.                   *)
LEMMA AdvanceTypeOK ==
  ASSUME TypeOK, CountOK, NEW s \in Senders, sender[s] = "filter", input[s] # <<>>, Advance(s),
         log' \in [Logs -> Seq(Messages)], out' \in [Senders -> Seq(Numbers)],
         Len(out'[s]) <= Batch, \A r \in Senders \ {s} : out'[r] = out[r]
  PROVE  TypeOK' /\ CountOK'
<1>. USE DEF TypeOK, notifier, call, store, fixed, rest, Goto
<1>1. SenderTypes' /\ NotifierTypes' /\ OtherTypes' /\ CountOK'
      BY DEF Advance, SenderTypes, NotifierTypes, OtherTypes, CountOK
<1>2. CallTypes'
  <2>1. input[s] \in Seq(Numbers) /\ Tail(input[s]) \in Seq(Numbers)
        BY DEF CallTypes
  <2>. QED BY <2>1 DEF Advance, CallTypes
<1>3. LogTypes' /\ BuffersFit' /\ CallsFit'
      BY DEF Advance, LogTypes, BuffersFit, CallsFit
<1>. QED BY <1>1, <1>2, <1>3

LEMMA SenderTypeOK ==
  ASSUME TypeOK, CountOK, NEW s \in Senders, SenderStep(s)
  PROVE  TypeOK' /\ CountOK'
<1>. USE DEF TypeOK, notifier, call, store, fixed, rest, Goto
<1>1. CASE NewBuffer(s)
  <2>1. SenderTypes' /\ BuffersFit' /\ CallsFit'
        BY <1>1 DEF NewBuffer, SenderTypes, BuffersFit, CallsFit, SenderStates
  <2>. QED BY <1>1, <2>1 DEF NewBuffer, CallTypes, NotifierTypes, LogTypes, OtherTypes, CountOK
<1>2. CASE Push(s)
  <2>1. created + 1 <= MaxPush /\ pushed[s] \in Nat /\ pushed[s] <= created /\ created \in Nat
        BY <1>2 DEF Push, MorePushes, SenderTypes, OtherTypes, CountOK
  <2>2. pushed'[s] = pushed[s] + 1 /\ pushed'[s] \in Numbers
        BY <1>2, <2>1 DEF Push, SenderTypes, Numbers
  <2>3. buffer'[s] = Append(buffer[s], pushed'[s]) /\ buffer'[s] \in Seq(Numbers)
        /\ Len(buffer'[s]) = Len(buffer[s]) + 1
        BY <1>2, <2>2 DEF Push, SenderTypes
  <2>4. SenderTypes'
        BY <1>2, <2>2, <2>3 DEF Push, SenderTypes, SenderStates, Flushing, Numbers
  <2>5. BuffersFit'
    <3>1. sender'[s] = IF Len(buffer'[s]) = Capacity THEN "flush" ELSE "open"
          BY <1>2 DEF Push, IsFull, SenderTypes
    <3>2. Len(buffer[s]) < Capacity /\ Len(buffer[s]) \in Nat
          BY <1>2 DEF Push, SenderTypes
    <3>3. \A r \in Senders \ {s} : buffer'[r] = buffer[r] /\ sender'[r] = sender[r]
          BY <1>2 DEF Push, SenderTypes
    <3>4. out' = out /\ open' = open
          BY <1>2 DEF Push
    <3>. QED BY <2>3, <3>1, <3>2, <3>3, <3>4 DEF BuffersFit
  <2>6. CallsFit'
        BY <1>2 DEF Push, CallsFit, SenderTypes
  <2>7. OtherTypes' /\ CountOK'
        BY <1>2, <2>1 DEF Push, OtherTypes, CountOK, SenderTypes, LogTypes
  <2>. QED BY <1>2, <2>4, <2>5, <2>6, <2>7 DEF Push, CallTypes, NotifierTypes, LogTypes
<1>3. CASE DropBuffer(s)
  <2>1. SenderTypes' /\ BuffersFit' /\ CallsFit'
        BY <1>3 DEF DropBuffer, SenderTypes, BuffersFit, CallsFit, SenderStates, Flushing
  <2>. QED BY <1>3, <2>1 DEF DropBuffer, CallTypes, NotifierTypes, LogTypes, OtherTypes, CountOK
<1>4. CASE Flush(s)
  <2>1. SenderTypes'
        BY <1>4 DEF Flush, SenderTypes, SenderStates, Flushing
  <2>2. NotifierTypes'
        BY <1>4 DEF Flush, Notifier!Begin, NotifierTypes
  <2>3. BuffersFit'
        BY <1>4 DEF Flush, Notifier!Begin, SenderTypes, BuffersFit
  <2>4. CallsFit'
        BY <1>4 DEF Flush, Notifier!Begin, SenderTypes, NotifierTypes, CallsFit
  <2>. QED BY <1>4, <2>1, <2>2, <2>3, <2>4 DEF Flush, CallTypes, LogTypes, OtherTypes, CountOK
<1>5. CASE FlushClosed(s)
  <2>1. SenderTypes' /\ BuffersFit' /\ CallsFit'
        BY <1>5 DEF FlushClosed, SenderTypes, BuffersFit, CallsFit, SenderStates
  <2>. QED BY <1>5, <2>1 DEF FlushClosed, CallTypes, NotifierTypes, LogTypes, OtherTypes, CountOK
<1>6. CASE Unwind(s)
      BY <1>6 DEF Unwind, SenderTypes, BuffersFit, CallsFit, CallTypes, NotifierTypes, LogTypes,
                  OtherTypes, CountOK
<1>7. CASE FlushEnd(s)
  <2>1. SenderTypes' /\ BuffersFit' /\ CallsFit'
        BY <1>7 DEF FlushEnd, SenderTypes, BuffersFit, CallsFit, SenderStates
  <2>. QED BY <1>7, <2>1 DEF FlushEnd, CallTypes, NotifierTypes, LogTypes, OtherTypes, CountOK
<1>8. ASSUME NEW l \in Logs, Call(s, l) PROVE TypeOK' /\ CountOK'
  <2>1. SenderTypes'
        BY <1>8 DEF Call, SenderTypes, SenderStates, Flushing
  <2>2. CallTypes' /\ out'[s] = <<>> /\ \A r \in Senders \ {s} : out'[r] = out[r]
        BY <1>8 DEF Call, SenderTypes, CallTypes
  <2>3. BuffersFit'
        BY <1>8, <2>2 DEF Call, SenderTypes, BuffersFit
  <2>4. CallsFit'
        BY <1>8 DEF Call, SenderTypes, CallTypes, CallsFit
  <2>. QED BY <1>8, <2>1, <2>2, <2>3, <2>4 DEF Call, NotifierTypes, LogTypes, OtherTypes, CountOK
<1>9. CASE Discard(s) \/ Gather(s) \/ PassOn(s)
  <2>1. sender[s] = "filter" /\ input[s] # <<>> /\ Advance(s) /\ input[s] \in Seq(Numbers)
        BY <1>9 DEF Discard, Gather, PassOn, CallTypes
  <2>2. Head(input[s]) \in Numbers
        BY <2>1
  <2>3. log' \in [Logs -> Seq(Messages)]
        BY <1>9, <2>1, ReceiveIs DEF Discard, Gather, PassOn, LogTypes
  <2>4. \/ UNCHANGED out
        \/ /\ Len(out[s]) < Batch
           /\ out' = [out EXCEPT ![s] = Append(out[s], Head(input[s]))]
        \/ out' = [out EXCEPT ![s] = <<Head(input[s])>>]
        BY <1>9 DEF Discard, Gather, PassOn
  <2>5. out \in [Senders -> Seq(Numbers)] /\ Len(out[s]) <= Batch
        BY DEF CallTypes, BuffersFit
  <2>6. /\ out' \in [Senders -> Seq(Numbers)] /\ Len(out'[s]) <= Batch
        /\ \A r \in Senders \ {s} : out'[r] = out[r]
    <3>1. Append(out[s], Head(input[s])) \in Seq(Numbers) /\ <<Head(input[s])>> \in Seq(Numbers)
          BY <2>2, <2>5
    <3>2. /\ Len(out[s]) < Batch => Len(Append(out[s], Head(input[s]))) <= Batch
          /\ Len(<<Head(input[s])>>) <= Batch
          BY <2>2, <2>5
    <3>3. ASSUME NEW q \in Seq(Numbers), Len(q) <= Batch, out' = [out EXCEPT ![s] = q]
          PROVE  /\ out' \in [Senders -> Seq(Numbers)] /\ Len(out'[s]) <= Batch
                 /\ \A r \in Senders \ {s} : out'[r] = out[r]
          BY <2>5, <3>3
    <3>. HIDE DEF TypeOK
    <3>4. CASE UNCHANGED out
          BY <2>5, <3>4
    <3>5. CASE Len(out[s]) < Batch /\ out' = [out EXCEPT ![s] = Append(out[s], Head(input[s]))]
          BY <3>1, <3>2, <3>3, <3>5, Zenon
    <3>6. CASE out' = [out EXCEPT ![s] = <<Head(input[s])>>]
          BY <3>1, <3>2, <3>3, <3>6, Zenon
    <3>. QED BY <2>4, <3>4, <3>5, <3>6
  <2>. QED BY <2>1, <2>3, <2>6, AdvanceTypeOK
<1>10. CASE GiveUp(s) \/ PassOnRest(s)
  <2>1. sender[s] = "filter" /\ Return(s)
        BY <1>10 DEF GiveUp, PassOnRest
  <2>2. log' \in [Logs -> Seq(Messages)]
        BY <1>10, <2>1, ReceiveIs DEF GiveUp, PassOnRest, LogTypes
  <2>. QED BY <2>1, <2>2, ReturnTypeOK
<1>11. CASE PushPanics(s) \/ CatchPanic(s)
  <2>1. SenderTypes' /\ CallsFit'
        BY <1>11 DEF PushPanics, CatchPanic, SenderTypes, CallsFit, SenderStates, Flushing
  <2>2. ~open /\ sender'[s] \in {"open", "unwinding"} /\ UNCHANGED <<open, buffer, out>>
        BY <1>11 DEF PushPanics, CatchPanic, SenderTypes, BuffersFit
  <2>3. \A r \in Senders \ {s} : sender'[r] = sender[r]
        BY <1>11 DEF PushPanics, CatchPanic, SenderTypes
  <2>4. BuffersFit'
        BY <2>2, <2>3 DEF BuffersFit
  <2>. QED BY <1>11, <2>1, <2>4 DEF PushPanics, CatchPanic, CallTypes, NotifierTypes, LogTypes, OtherTypes,
                              CountOK
<1>. QED BY <1>1, <1>2, <1>3, <1>4, <1>5, <1>6, <1>7, <1>8, <1>9, <1>10, <1>11 DEF SenderStep

LEMMA LogTypeOK ==
  ASSUME TypeOK, CountOK, NEW l \in Logs, LogStep(l)
  PROVE  TypeOK' /\ CountOK'
<1>. USE DEF TypeOK, notifier, call, store, fixed, rest, senders
<1>1. CASE Listen(l)
  <2>1. NotifierTypes' /\ BuffersFit' /\ CallsFit'
        BY <1>1 DEF Listen, Notifier!Join, NotifierTypes, BuffersFit, CallsFit
  <2>2. OtherTypes'
    <3>1. since' = [since EXCEPT ![l] = sent] /\ sent \in [Senders -> 0..MaxPush]
          BY <1>1 DEF Listen, SenderTypes
    <3>2. since' \in [Logs -> [Senders -> 0..MaxPush]]
          BY <3>1 DEF OtherTypes
    <3>. QED BY <1>1, <3>2 DEF Listen, OtherTypes
  <2>. QED BY <1>1, <2>1, <2>2 DEF Listen, SenderTypes, CallTypes, LogTypes, CountOK
<1>2. CASE Lock(l) \/ Drain(l) \/ Take(l)
  <2>1. log[l] \in Seq(Messages) /\ drained[l] \in Seq(Messages) /\ <<>> \in Seq(Messages)
        BY DEF LogTypes
  <2>2. drained[l] \o log[l] \in Seq(Messages)
        BY <2>1
  <2>3. LogTypes'
        BY <1>2, <2>1, <2>2 DEF Lock, Drain, Take, LogTypes
  <2>4. UNCHANGED <<senders, notifier, fixed, given, rest>>
        BY <1>2 DEF Lock, Drain, Take
  <2>5. SenderTypes' /\ CallTypes' /\ NotifierTypes' /\ OtherTypes' /\ CountOK'
        BY <2>4 DEF SenderTypes, CallTypes, NotifierTypes, OtherTypes, CountOK
  <2>6. BuffersFit' /\ CallsFit'
        BY <2>4 DEF BuffersFit, CallsFit
  <2>. QED BY <2>3, <2>5, <2>6
<1>3. CASE ReceiveDirectly(l)
  <2>1. created + 1 <= MaxPush /\ given[l] \in Nat /\ given[l] <= created /\ created \in Nat
        BY <1>3 DEF ReceiveDirectly, MorePushes, LogTypes, OtherTypes, CountOK
  <2>2. given'[l] = given[l] + 1 /\ <<None, given'[l]>> \in Messages
        BY <1>3, <2>1 DEF ReceiveDirectly, LogTypes, Messages, Numbers
  <2>3. log[l] \o <<<<None, given'[l]>>>> \in Seq(Messages)
        BY <2>2 DEF LogTypes
  <2>4. LogTypes'
        BY <1>3, <2>1, <2>3 DEF ReceiveDirectly, Record, LogTypes
  <2>5. OtherTypes' /\ CountOK'
        BY <1>3, <2>1 DEF ReceiveDirectly, OtherTypes, CountOK, LogTypes, SenderTypes
  <2>. QED BY <1>3, <2>4, <2>5 DEF ReceiveDirectly, SenderTypes, CallTypes, NotifierTypes,
                                   BuffersFit, CallsFit
<1>4. CASE DropLog(l) \/ Forget(l)
  <2>1. NotifierTypes' /\ CallsFit'
        BY <1>4 DEF DropLog, Forget, Notifier!Die, Notifier!Leave, NotifierTypes, CallsFit
  <2>2. open' = open /\ UNCHANGED senders
        BY <1>4 DEF DropLog, Forget, Notifier!Die, Notifier!Leave
  <2>3. BuffersFit'
        BY <2>2 DEF BuffersFit
  <2>. QED BY <1>4, <2>1, <2>3 DEF DropLog, Forget, SenderTypes, CallTypes, LogTypes, OtherTypes, CountOK
<1>. QED BY <1>1, <1>2, <1>3, <1>4 DEF LogStep

LEMMA NextTypeOK == TypeOK /\ CountOK /\ [Next]_vars => TypeOK' /\ CountOK'
<1> SUFFICES ASSUME TypeOK, CountOK, [Next]_vars PROVE TypeOK' /\ CountOK'
    OBVIOUS
<1>. USE DEF TypeOK, SenderTypes, CallTypes, NotifierTypes, LogTypes, OtherTypes, BuffersFit,
             CallsFit, CountOK
<1>1. CASE Close
      BY <1>1 DEF Close, Notifier!Close, senders, call, store, fixed, rest
<1>2. CASE UNCHANGED vars
      BY <1>2 DEF vars
<1>. QED BY <1>1, <1>2, NextCases, SenderTypeOK, LogTypeOK

(* Every variable has its type: no buffer, of a sender or of a filter, is ever *)
(* overrun, and one that is being filled has room while the notifier is open.  *)
THEOREM TypeCorrect == Spec => []TypeOK
<1>. QED BY InitTypeOK, NextTypeOK, PTL DEF Spec

------------------------------------------------------------------------------
(* Buffers. *)

LEMMA TailRest ==
  ASSUME NEW last \in Nat, NEW q \in Seq(Numbers), q # <<>>, Rest(last, q)
  PROVE  /\ Tail(q) \in Seq(Numbers) /\ Len(Tail(q)) = Len(q) - 1 /\ Rest(last, Tail(q))
         /\ Head(q) = (last - Len(q)) + 1
<1>1. /\ Tail(q) \in Seq(Numbers) /\ Len(Tail(q)) = Len(q) - 1 /\ Len(q) \in Nat
      /\ \A i \in 1..Len(Tail(q)) : Tail(q)[i] = q[i + 1]
      /\ Head(q) = q[1] /\ Len(q) >= 1
      BY DEF Numbers
<1>2. DOMAIN q = 1..Len(q) /\ DOMAIN Tail(q) = 1..Len(Tail(q))
      BY <1>1
<1>3. Head(q) = (last - Len(q)) + 1
      BY <1>1, <1>2 DEF Rest
<1>4. ASSUME NEW i \in DOMAIN Tail(q) PROVE Tail(q)[i] = (last - Len(Tail(q))) + i
  <2>1. i \in Nat /\ i + 1 \in DOMAIN q /\ Tail(q)[i] = q[i + 1]
        BY <1>1, <1>2
  <2>2. q[i + 1] = (last - Len(q)) + (i + 1)
        BY <2>1 DEF Rest
  <2>. QED BY <1>1, <2>1, <2>2
<1>5. Len(Tail(q)) <= last
      BY <1>1 DEF Rest
<1>. QED BY <1>1, <1>3, <1>4, <1>5 DEF Rest

LEMMA PushRest ==
  ASSUME NEW last \in Nat, NEW q \in Seq(Numbers), Rest(last, q), NEW n, n = last + 1
  PROVE  Rest(n, Append(q, n)) /\ Len(Append(q, n)) = Len(q) + 1
<1>1. /\ Len(Append(q, n)) = Len(q) + 1 /\ Len(q) \in Nat
      /\ DOMAIN q = 1..Len(q) /\ DOMAIN Append(q, n) = 1..(Len(q) + 1)
      /\ \A i \in 1..Len(q) : Append(q, n)[i] = q[i]
      /\ Append(q, n)[Len(q) + 1] = n
      OBVIOUS
<1>. HIDE DEF Numbers
<1>2. ASSUME NEW i \in DOMAIN Append(q, n) PROVE Append(q, n)[i] = (n - Len(Append(q, n))) + i
  <2>1. CASE i = Len(q) + 1
        BY <1>1, <2>1
  <2>2. CASE i \in 1..Len(q)
        BY <1>1, <2>2 DEF Rest
  <2>. QED BY <1>1, <2>1, <2>2
<1>. QED BY <1>1, <1>2 DEF Rest

LEMMA NoneRest == ASSUME NEW last \in Nat PROVE Rest(last, <<>>) /\ Rises(<<>>) /\ In(<<>>) = {}
  BY DEF Rest, Rises, In

(* A sender touches nothing of another one.                                   *)
LEMMA OthersStay ==
  ASSUME TypeOK, NEW s \in Senders, SenderStep(s), NEW r \in Senders \ {s}
  PROVE  /\ buffer'[r] = buffer[r] /\ sender'[r] = sender[r] /\ dropping'[r] = dropping[r]
         /\ pushed'[r] = pushed[r] /\ sent'[r] = sent[r]
         /\ at'[r] = at[r] /\ input'[r] = input[r] /\ out'[r] = out[r] /\ owed'[r] = owed[r]
<1>. USE DEF TypeOK, SenderTypes, CallTypes, NotifierTypes, notifier, call, Goto
<1>1. CASE NewBuffer(s) \/ Push(s) \/ PushPanics(s) \/ DropBuffer(s)
      BY <1>1 DEF NewBuffer, Push, PushPanics, DropBuffer
<1>2. CASE Flush(s) \/ FlushClosed(s) \/ CatchPanic(s) \/ Unwind(s) \/ FlushEnd(s)
      BY <1>2 DEF Flush, Notifier!Begin, FlushClosed, CatchPanic, Unwind, FlushEnd
<1>3. ASSUME NEW l \in Logs, Call(s, l)
      PROVE  /\ buffer'[r] = buffer[r] /\ sender'[r] = sender[r] /\ dropping'[r] = dropping[r]
             /\ pushed'[r] = pushed[r] /\ sent'[r] = sent[r]
             /\ at'[r] = at[r] /\ input'[r] = input[r] /\ out'[r] = out[r] /\ owed'[r] = owed[r]
      BY <1>3 DEF Call
<1>4. CASE Discard(s) \/ Gather(s) \/ PassOn(s)
      BY <1>4 DEF Discard, Gather, PassOn, Advance
<1>5. CASE GiveUp(s) \/ PassOnRest(s)
      BY <1>5 DEF GiveUp, PassOnRest, Return, Notifier!Deliver
<1>. QED BY <1>1, <1>2, <1>3, <1>4, <1>5 DEF SenderStep

LEMMA BufferStays ==
  ASSUME NEW s \in Senders, BufferHolds(s), open' => open,
         /\ buffer'[s] = buffer[s] /\ sender'[s] = sender[s] /\ pushed'[s] = pushed[s]
         /\ sent'[s] = sent[s] /\ input'[s] = input[s] /\ out'[s] = out[s]
  PROVE  BufferHolds(s)'
  BY DEF BufferHolds, Before

(* The types of one sender, for the steps below.                              *)
LEMMA SenderIs ==
  ASSUME TypeOK, NEW s \in Senders
  PROVE  /\ buffer[s] \in Seq(Numbers) /\ input[s] \in Seq(Numbers) /\ out[s] \in Seq(Numbers)
         /\ pushed[s] \in Nat /\ sent[s] \in Nat
         /\ Len(buffer[s]) \in Nat /\ Len(input[s]) \in Nat
         /\ sender \in [Senders -> SenderStates] /\ buffer \in [Senders -> Seq(Numbers)]
         /\ pushed \in [Senders -> 0..MaxPush] /\ sent \in [Senders -> 0..MaxPush]
         /\ at \in [Senders -> Logs \cup {None}] /\ input \in [Senders -> Seq(Numbers)]
         /\ out \in [Senders -> Seq(Numbers)]
<1>1. /\ sender \in [Senders -> SenderStates] /\ buffer \in [Senders -> Seq(Numbers)]
      /\ pushed \in [Senders -> 0..MaxPush] /\ sent \in [Senders -> 0..MaxPush]
      /\ at \in [Senders -> Logs \cup {None}] /\ input \in [Senders -> Seq(Numbers)]
      /\ out \in [Senders -> Seq(Numbers)]
      BY DEF TypeOK, SenderTypes, CallTypes
<1>. QED BY <1>1

(* A filter goes on to the next message, with or without it in its buffer.    *)
LEMMA AdvanceBuffer ==
  ASSUME TypeOK, NEW s \in Senders, BufferHolds(s), Discard(s) \/ Gather(s) \/ PassOn(s)
  PROVE  /\ input'[s] = Tail(input[s]) /\ Before(s, input[s])' = Before(s, input[s]) + 1
         /\ Head(input[s]) = Before(s, input[s]) + 1 /\ Head(input[s]) \in Numbers
         /\ UNCHANGED <<buffer, pushed, sent, sender, at, owed, open, members, alive, since, passing>>
         /\ \/ Discard(s) /\ out'[s] = out[s]
            \/ Gather(s) /\ In(out'[s]) = In(out[s]) \cup {Head(input[s])}
            \/ PassOn(s) /\ In(out'[s]) = {Head(input[s])}
         /\ BufferHolds(s)'
<1>1. /\ input' = [input EXCEPT ![s] = Tail(input[s])] /\ input[s] # <<>> /\ sender[s] = "filter"
      /\ UNCHANGED <<buffer, pushed, sent, sender, at, owed, open, members, alive, since, passing>>
      BY DEF Discard, Gather, PassOn, Advance, notifier, fixed
<1>2. /\ Tail(input[s]) \in Seq(Numbers) /\ Len(Tail(input[s])) = Len(input[s]) - 1
      /\ Rest(pushed[s], Tail(input[s])) /\ Head(input[s]) = (pushed[s] - Len(input[s])) + 1
      BY <1>1, SenderIs, TailRest DEF BufferHolds
<1>3. input'[s] = Tail(input[s]) /\ Head(input[s]) \in Numbers
      BY <1>1, SenderIs
<1>4. /\ Before(s, input[s])' = Before(s, input[s]) + 1 /\ Head(input[s]) = Before(s, input[s]) + 1
      /\ Before(s, input[s]) \in Int
      BY <1>1, <1>2, <1>3, SenderIs DEF Before
<1>5. /\ \/ Discard(s) /\ out'[s] = out[s]
         \/ Gather(s) /\ In(out'[s]) = In(out[s]) \cup {Head(input[s])}
         \/ PassOn(s) /\ In(out'[s]) = {Head(input[s])}
      /\ Rises(out'[s])
  <2>1. CASE Discard(s)
        BY <2>1, SenderIs DEF Discard, BufferHolds
  <2>2. CASE Gather(s)
    <3>1. out'[s] = Append(out[s], Head(input[s]))
          BY <2>2, SenderIs DEF Gather
    <3>2. /\ DOMAIN out[s] = 1..Len(out[s]) /\ DOMAIN out'[s] = 1..(Len(out[s]) + 1)
          /\ \A i \in 1..Len(out[s]) : out'[s][i] = out[s][i]
          /\ out'[s][Len(out[s]) + 1] = Head(input[s]) /\ Len(out[s]) \in Nat
          BY <1>3, <3>1, SenderIs
    <3>3. \A i \in DOMAIN out[s] : out[s][i] < Head(input[s])
      <4>1. ASSUME NEW i \in DOMAIN out[s] PROVE out[s][i] \in Nat /\ out[s][i] \in In(out[s])
            BY SenderIs DEF In, Numbers
      <4>. QED BY <1>4, <4>1 DEF BufferHolds
    <3>4. In(out'[s]) = In(out[s]) \cup {Head(input[s])}
          BY <3>2 DEF In
    <3>5. Rises(out'[s])
          BY <3>2, <3>3 DEF BufferHolds, Rises
    <3>. QED BY <2>2, <3>4, <3>5
  <2>3. CASE PassOn(s)
    <3>1. out'[s] = <<Head(input[s])>>
          BY <2>3, SenderIs DEF PassOn
    <3>. QED BY <2>3, <3>1 DEF In, Rises
  <2>. QED BY <2>1, <2>2, <2>3
<1>6. \A n \in In(out'[s]) : n <= Before(s, input[s])'
  <2>1. \A n \in In(out[s]) : n \in Nat /\ n <= Before(s, input[s])
        BY SenderIs DEF In, Numbers, BufferHolds
  <2>. QED BY <1>4, <1>5, <2>1
<1>7. BufferHolds(s)'
  <2>1. /\ Rest(pushed'[s], buffer'[s]) /\ Rest(pushed'[s], input'[s])
        /\ Len(input'[s]) <= Len(buffer'[s]) /\ sent'[s] <= pushed'[s]
        BY <1>1, <1>2, <1>3, SenderIs DEF BufferHolds
  <2>2. sender'[s] = "filter" /\ sent'[s] = pushed'[s]
        BY <1>1 DEF BufferHolds
  <2>. QED BY <1>5, <1>6, <2>1, <2>2 DEF BufferHolds
<1>. QED BY <1>1, <1>3, <1>4, <1>5, <1>7

LEMMA SenderBuffer ==
  ASSUME TypeOK, NEW s \in Senders, BufferHolds(s), SenderStep(s)
  PROVE  BufferHolds(s)'
<1>. USE SenderIs, NoneRest DEF Goto, BufferHolds, Before, call, notifier
<1>1. CASE \/ NewBuffer(s) \/ DropBuffer(s) \/ FlushClosed(s) \/ Unwind(s)
           \/ PushPanics(s) \/ CatchPanic(s)
  <2>1. CASE NewBuffer(s)
        BY <2>1 DEF NewBuffer
  <2>2. CASE DropBuffer(s)
        BY <2>2 DEF DropBuffer
  <2>3. CASE FlushClosed(s)
    <3>1. ~open' /\ sender'[s] \in {"none", "unwinding"} /\ buffer'[s] \in {<<>>, buffer[s]}
          BY <2>3 DEF FlushClosed
    <3>. QED BY <2>3, <3>1 DEF FlushClosed
  <2>4. CASE Unwind(s)
        BY <2>4 DEF Unwind
  <2>5. CASE PushPanics(s) \/ CatchPanic(s)
        BY <2>5 DEF PushPanics, CatchPanic
  <2>. QED BY <1>1, <2>1, <2>2, <2>3, <2>4, <2>5
<1>2. CASE Push(s)
  <2>1. /\ pushed'[s] = pushed[s] + 1 /\ buffer'[s] = Append(buffer[s], pushed'[s])
        /\ sender[s] = "open" /\ sender'[s] \in {"flush", "open"}
        /\ UNCHANGED <<input, out, sent, open>>
        BY <1>2 DEF Push
  <2>2. Rest(pushed'[s], buffer'[s]) /\ Len(buffer'[s]) = Len(buffer[s]) + 1
        BY <2>1, PushRest
  <2>. QED BY <2>1, <2>2
<1>3. CASE Flush(s)
  <2>1. /\ sent'[s] = pushed[s] /\ sender'[s] = "send" /\ sender[s] = "flush"
        /\ UNCHANGED <<buffer, input, out, pushed>>
        BY <1>3 DEF Flush
  <2>. QED BY <2>1
<1>4. CASE FlushEnd(s)
  <2>1. /\ buffer'[s] = <<>> /\ sender'[s] \in {"none", "open"} /\ sender[s] = "send"
        /\ UNCHANGED <<input, out, pushed, sent, open>>
        BY <1>4 DEF FlushEnd
  <2>. QED BY <2>1
<1>5. ASSUME NEW l \in Logs, Call(s, l) PROVE BufferHolds(s)'
  <2>1. /\ input'[s] = buffer[s] /\ out'[s] = <<>> /\ sender[s] = "send" /\ sender'[s] = "filter"
        /\ UNCHANGED <<buffer, pushed, sent>>
        BY <1>5 DEF Call
  <2>. QED BY <2>1
<1>6. CASE Discard(s) \/ Gather(s) \/ PassOn(s)
      BY <1>6, AdvanceBuffer
<1>7. CASE GiveUp(s) \/ PassOnRest(s)
  <2>1. /\ sender[s] = "filter" /\ sender'[s] = "send" /\ input'[s] = <<>> /\ out'[s] = <<>>
        /\ UNCHANGED <<buffer, pushed, sent>>
        BY <1>7 DEF GiveUp, PassOnRest, Return
  <2>. QED BY <2>1
<1>. QED BY <1>1, <1>2, <1>3, <1>4, <1>5, <1>6, <1>7 DEF SenderStep

LEMMA LogKeeps ==
  ASSUME (\E l \in Logs : LogStep(l)) \/ Close \/ UNCHANGED vars
  PROVE  UNCHANGED <<senders, passing, raw>> /\ (open' => open)
<1>1. ASSUME NEW l \in Logs, LogStep(l) PROVE UNCHANGED <<senders, passing, raw, open>>
      BY <1>1 DEF LogStep, Listen, Lock, Drain, Take, ReceiveDirectly, DropLog, Forget,
                  notifier, fixed, Notifier!Join, Notifier!Die, Notifier!Leave
<1>2. CASE Close
      BY <1>2 DEF Close, fixed, Notifier!Close
<1>3. CASE UNCHANGED vars
      BY <1>3 DEF vars, senders, call
<1>. QED BY <1>1, <1>2, <1>3

LEMMA SenderKeeps ==
  ASSUME NEW s \in Senders, SenderStep(s)
  PROVE  UNCHANGED <<open, members, alive, since, passing, drained, given, raw>>
<1>. USE DEF notifier, fixed, store
<1>1. CASE \/ NewBuffer(s) \/ Push(s) \/ PushPanics(s) \/ DropBuffer(s)
           \/ FlushClosed(s) \/ CatchPanic(s) \/ Unwind(s) \/ FlushEnd(s)
      BY <1>1 DEF NewBuffer, Push, PushPanics, DropBuffer, FlushClosed, CatchPanic, Unwind, FlushEnd
<1>2. CASE Flush(s)
      BY <1>2 DEF Flush, Notifier!Begin
<1>3. ASSUME NEW l \in Logs, Call(s, l)
      PROVE  UNCHANGED <<open, members, alive, since, passing, drained, given, raw>>
      BY <1>3 DEF Call
<1>4. CASE Discard(s) \/ Gather(s) \/ PassOn(s)
      BY <1>4 DEF Discard, Gather, PassOn, Advance
<1>5. CASE GiveUp(s) \/ PassOnRest(s)
      BY <1>5 DEF GiveUp, PassOnRest, Return, Notifier!Deliver
<1>. QED BY <1>1, <1>2, <1>3, <1>4, <1>5 DEF SenderStep

LEMMA NextBuffer == TypeOK /\ BufferOK /\ [Next]_vars => BufferOK'
<1> SUFFICES ASSUME TypeOK, BufferOK, [Next]_vars, NEW r \in Senders PROVE BufferHolds(r)'
    BY DEF BufferOK
<1>1. BufferHolds(r)
      BY DEF BufferOK
<1>2. ASSUME NEW s \in Senders, SenderStep(s) PROVE BufferHolds(r)'
  <2>1. CASE r = s
        BY <1>1, <1>2, <2>1, SenderBuffer
  <2>2. CASE r # s
        BY <1>1, <1>2, <2>2, OthersStay, SenderKeeps, BufferStays
  <2>. QED BY <2>1, <2>2
<1>3. CASE (\E l \in Logs : LogStep(l)) \/ Close \/ UNCHANGED vars
      BY <1>1, <1>3, LogKeeps, BufferStays DEF senders, call
<1>. QED BY <1>2, <1>3, NextCases

------------------------------------------------------------------------------
(* Messages that come into a log. *)

Of(q, s) == {q[i][2] : i \in {j \in DOMAIN q : q[j][1] = s}}
Rising(q, s) ==
    \A i, j \in DOMAIN q : i < j /\ q[i][1] = s /\ q[j][1] = s => q[i][2] < q[j][2]

LEMMA AppendOf ==
  ASSUME NEW q \in Seq(Messages), NEW m \in Seq(Messages), NEW r,
         \A i \in DOMAIN m : m[i][1] = r
  PROVE  /\ \A s : s # r => Of(q \o m, s) = Of(q, s) /\ (Rising(q, s) => Rising(q \o m, s))
         /\ Of(q \o m, r) = Of(q, r) \cup {m[i][2] : i \in DOMAIN m}
         /\ /\ Rising(q, r) /\ \A i, j \in DOMAIN m : i < j => m[i][2] < m[j][2]
            /\ \A a \in Of(q, r), i \in DOMAIN m : a < m[i][2]
            => Rising(q \o m, r)
<1>. DEFINE w == q \o m
<1>1. /\ DOMAIN q = 1..Len(q) /\ DOMAIN m = 1..Len(m) /\ Len(q) \in Nat /\ Len(m) \in Nat
      /\ DOMAIN w = 1..(Len(q) + Len(m))
      OBVIOUS
<1>2. \A i \in DOMAIN q : i \in DOMAIN w /\ w[i] = q[i]
      BY <1>1
<1>3. \A i \in DOMAIN m : i + Len(q) \in DOMAIN w /\ w[i + Len(q)] = m[i]
      BY <1>1
<1>4. \A k \in DOMAIN w :
        \/ k \in DOMAIN q
        \/ k > Len(q) /\ k - Len(q) \in DOMAIN m /\ w[k] = m[k - Len(q)]
      BY <1>1
<1>. HIDE DEF w
<1>5. ASSUME NEW s, s # r PROVE Of(w, s) = Of(q, s) /\ (Rising(q, s) => Rising(w, s))
  <2>1. \A k \in DOMAIN w : w[k][1] = s => k \in DOMAIN q
        BY <1>4, <1>5
  <2>2. Of(w, s) = Of(q, s)
        BY <1>2, <2>1 DEF Of
  <2>. QED BY <1>2, <2>1, <2>2 DEF Rising
<1>6. Of(w, r) = Of(q, r) \cup {m[i][2] : i \in DOMAIN m}
  <2>1. ASSUME NEW n \in Of(w, r) PROVE n \in Of(q, r) \cup {m[i][2] : i \in DOMAIN m}
    <3>1. PICK k \in DOMAIN w : w[k][1] = r /\ n = w[k][2]
          BY <2>1 DEF Of
    <3>. QED BY <1>2, <1>4, <3>1 DEF Of
  <2>2. ASSUME NEW i \in DOMAIN q, q[i][1] = r PROVE q[i][2] \in Of(w, r)
        BY <1>2, <2>2 DEF Of
  <2>3. ASSUME NEW i \in DOMAIN m PROVE m[i][2] \in Of(w, r)
        BY <1>3, <2>3 DEF Of
  <2>. QED BY <2>1, <2>2, <2>3 DEF Of
<1>7. ASSUME Rising(q, r), \A i, j \in DOMAIN m : i < j => m[i][2] < m[j][2],
             \A a \in Of(q, r), i \in DOMAIN m : a < m[i][2],
             NEW i \in DOMAIN w, NEW j \in DOMAIN w, i < j, w[i][1] = r, w[j][1] = r
      PROVE  w[i][2] < w[j][2]
  <2>1. CASE i \in DOMAIN q /\ j \in DOMAIN q
        BY <1>2, <1>7, <2>1 DEF Rising
  <2>2. CASE i \in DOMAIN q /\ j \notin DOMAIN q
    <3>1. w[i][2] \in Of(q, r)
          BY <1>2, <1>7, <2>2 DEF Of
    <3>. QED BY <1>4, <1>7, <2>2, <3>1
  <2>3. CASE i \notin DOMAIN q
    <3>1. i > Len(q) /\ j > Len(q)
          BY <1>1, <1>4, <1>7, <2>3
    <3>2. j \notin DOMAIN q
          BY <1>1, <3>1
    <3>3. /\ i - Len(q) \in DOMAIN m /\ j - Len(q) \in DOMAIN m
          /\ w[i] = m[i - Len(q)] /\ w[j] = m[j - Len(q)]
          BY <1>4, <2>3, <3>2
    <3>4. i - Len(q) < j - Len(q)
          BY <1>1, <1>7
    <3>. QED BY <1>7, <3>3, <3>4
  <2>. QED BY <2>1, <2>2, <2>3
<1>8. /\ Rising(q, r) /\ \A i, j \in DOMAIN m : i < j => m[i][2] < m[j][2]
      /\ \A a \in Of(q, r), i \in DOMAIN m : a < m[i][2]
      => Rising(w, r)
      BY <1>7 DEF Rising
<1>. QED BY <1>5, <1>6, <1>8 DEF w

LEMMA AllOf ==
  ASSUME NEW l, NEW s
  PROVE  /\ Received(l, s) = Of(All(l), s) /\ Received(l, s)' = Of(All(l)', s)
         /\ InOrder(l, s) <=> Rising(All(l), s)
         /\ InOrder(l, s)' <=> Rising(All(l)', s)
<1>1. Received(l, s) = Of(All(l), s) /\ Received(l, s)' = Of(All(l)', s)
      BY DEF Received, Of
<1>. QED BY <1>1 DEF InOrder, Rising

LEMMA AllStays ==
  ASSUME NEW l, All(l)' = All(l)
  PROVE  \A s : Received(l, s)' = Received(l, s) /\ (InOrder(l, s)' <=> InOrder(l, s))
<1> SUFFICES ASSUME NEW s
             PROVE  Received(l, s)' = Received(l, s) /\ (InOrder(l, s)' <=> InOrder(l, s))
    OBVIOUS
<1>. QED BY AllOf

LEMMA AllTypes == ASSUME TypeOK, NEW l \in Logs PROVE All(l) \in Seq(Messages)
<1>1. drained[l] \in Seq(Messages) /\ log[l] \in Seq(Messages)
      BY DEF TypeOK, LogTypes
<1>. QED BY <1>1 DEF All

LEMMA Concat3 ==
  ASSUME NEW a \in Seq(Messages), NEW b \in Seq(Messages), NEW c \in Seq(Messages)
  PROVE  (a \o b) \o c = a \o (b \o c)
  BY ConcatAssociative

(* What a sender gives a log comes after what the log has received.           *)
LEMMA ReceiveGives ==
  ASSUME TypeOK, NEW s \in Senders, BufferHolds(s), sender[s] = "filter", Receive(s),
         UNCHANGED drained, NEW l \in Logs
  PROVE  /\ \A r : r # s => Received(l, r)' = Received(l, r) /\ (InOrder(l, r) => InOrder(l, r)')
         /\ l # at[s] \/ ~alive[l] =>
              Received(l, s)' = Received(l, s) /\ (InOrder(l, s) => InOrder(l, s)')
         /\ l = at[s] /\ alive[l] =>
              /\ Received(l, s)' = Received(l, s) \cup In(out[s])
              /\ InOrder(l, s) /\ (\A m \in Received(l, s), n \in In(out[s]) : m < n)
                   => InOrder(l, s)'
<1>1. CASE l # at[s] \/ ~alive[l]
  <2>1. log'[l] = log[l]
        BY <1>1, ReceiveIs
  <2>2. All(l)' = All(l)
        BY <2>1 DEF All
  <2>. QED BY <1>1, <2>2, AllStays
<1>2. CASE l = at[s] /\ alive[l]
  <2>. DEFINE m == Tagged(s, out[s])
  <2>1. /\ m \in Seq(Messages) /\ DOMAIN m = DOMAIN out[s]
        /\ \A i \in DOMAIN m : m[i] = <<s, out[s][i]>>
        BY SenderIs, TaggedIs
  <2>2. log'[l] = log[l] \o m
        BY <1>2, ReceiveIs
  <2>3. drained[l] \in Seq(Messages) /\ log[l] \in Seq(Messages)
        BY DEF TypeOK, LogTypes
  <2>. HIDE DEF m
  <2>4. All(l)' = All(l) \o m
    <3>. DEFINE a == drained[l]
                b == log[l]
    <3>1. a \in Seq(Messages) /\ b \in Seq(Messages) /\ m \in Seq(Messages)
          BY <2>1, <2>3
    <3>. HIDE DEF a, b
    <3>2. (a \o b) \o m = a \o (b \o m)
          BY ONLY <3>1, Concat3, Zenon
    <3>. QED BY <2>2, <3>2 DEF All, a, b
  <2>5. \A i \in DOMAIN m : m[i][1] = s /\ m[i][2] = out[s][i]
        BY <2>1
  <2>6. {m[i][2] : i \in DOMAIN m} = In(out[s])
        BY <2>1, <2>5 DEF In
  <2>7. \A i, j \in DOMAIN m : i < j => m[i][2] < m[j][2]
        BY <2>1, <2>5 DEF BufferHolds, Rises
  <2>8. /\ \A r : r # s => Of(All(l)', r) = Of(All(l), r) /\ (Rising(All(l), r) => Rising(All(l)', r))
        /\ Of(All(l)', s) = Of(All(l), s) \cup In(out[s])
        /\ Rising(All(l), s) /\ (\A a \in Of(All(l), s), i \in DOMAIN m : a < m[i][2])
             => Rising(All(l)', s)
    <3>. DEFINE q == All(l)
    <3>1. q \in Seq(Messages)
          BY AllTypes
    <3>. HIDE DEF q
    <3>2. /\ \A r : r # s => Of(q \o m, r) = Of(q, r) /\ (Rising(q, r) => Rising(q \o m, r))
          /\ Of(q \o m, s) = Of(q, s) \cup In(out[s])
          /\ Rising(q, s) /\ (\A a \in Of(q, s), i \in DOMAIN m : a < m[i][2])
               => Rising(q \o m, s)
      <4>1. \A i \in DOMAIN m : m[i][1] = s
            BY <2>5
      <4>2. /\ \A r : r # s => Of(q \o m, r) = Of(q, r) /\ (Rising(q, r) => Rising(q \o m, r))
            /\ Of(q \o m, s) = Of(q, s) \cup {m[i][2] : i \in DOMAIN m}
            /\ /\ Rising(q, s) /\ \A i, j \in DOMAIN m : i < j => m[i][2] < m[j][2]
               /\ \A a \in Of(q, s), i \in DOMAIN m : a < m[i][2]
               => Rising(q \o m, s)
            BY <2>1, <3>1, <4>1, AppendOf, Zenon
      <4>. QED BY <2>6, <2>7, <4>2
    <3>. QED BY <2>4, <3>2 DEF q
  <2>9. \A i \in DOMAIN m : m[i][2] \in In(out[s])
        BY <2>6
  <2>10. /\ Received(l, s)' = Received(l, s) \cup In(out[s])
         /\ InOrder(l, s) /\ (\A a \in Received(l, s), n \in In(out[s]) : a < n) => InOrder(l, s)'
        BY <2>8, <2>9, AllOf
  <2>11. ASSUME NEW r, r # s
         PROVE  Received(l, r)' = Received(l, r) /\ (InOrder(l, r) => InOrder(l, r)')
        BY <2>8, <2>11, AllOf
  <2>. QED BY <1>2, <2>10, <2>11
<1>. QED BY <1>1, <1>2

------------------------------------------------------------------------------
(* Logs. *)

(* A log keeps its place with a sender while nothing changes between the two, *)
(* and even when it dies, or leaves because it is dead or nobody can send.    *)
LEMMA LogStays ==
  ASSUME NEW l \in Logs, NEW s \in Senders, LogHolds(l, s),
         Received(l, s)' = Received(l, s), InOrder(l, s)',
         since'[l][s] = since[l][s], passing'[l] = passing[l],
         sent'[s] = sent[s], owed'[s] = owed[s], open' => open, alive'[l] => alive[l],
         open' = open \/ l \notin members',
         \/ l \in members' <=> l \in members
         \/ l \notin members' /\ l \notin owed[s] /\ ~(open' /\ alive'[l]),
         \/ l \notin owed[s]
         \/ /\ buffer'[s] = buffer[s] /\ pushed'[s] = pushed[s] /\ at'[s] = at[s]
            /\ input'[s] = input[s] /\ out'[s] = out[s]
  PROVE  LogHolds(l, s)'
<1>1. Due(l, s, sent[s])' = Due(l, s, sent[s])
      BY DEF Due
<1>2. \A n : Due(l, s, n)' = Due(l, s, n)
      BY DEF Due
<1>3. l \in members' /\ alive'[l] /\ l \notin owed[s] => Reached(l, s)'
      BY <1>1 DEF LogHolds, Reached
<1>4. ASSUME l \in members', alive'[l], l \in owed[s] PROVE Reached(l, s)'
  <2>1. /\ Before(s, buffer[s])' = Before(s, buffer[s]) /\ Before(s, input[s])' = Before(s, input[s])
        /\ In(out[s])' = In(out[s])
        BY <1>4 DEF Before, In
  <2>2. /\ Due(l, s, Before(s, buffer[s]))' = Due(l, s, Before(s, buffer[s]))
        /\ Due(l, s, Before(s, input[s]))' = Due(l, s, Before(s, input[s]))
        BY <2>1 DEF Due
  <2>3. Reached(l, s)
        BY <1>4 DEF LogHolds
  <2>. QED BY <1>4, <2>1, <2>2, <2>3 DEF Reached
<1>5. l \in owed[s] => l \in members' /\ since[l][s] <= Before(s, buffer[s])'
      BY DEF LogHolds, Before
<1>6. open' /\ alive'[l] /\ l \notin members' => Received(l, s)' = {}
      BY DEF LogHolds
<1>7. l \in members' => open'
      BY DEF LogHolds
<1>. QED BY <1>1, <1>2, <1>3, <1>4, <1>5, <1>6, <1>7 DEF LogHolds

(* The steps of a sender towards a log, one that is not in a call, ...        *)
LEMMA IdleLog ==
  ASSUME TypeOK, NEW s \in Senders, NEW l \in Logs, LogHolds(l, s),
         \/ NewBuffer(s) \/ Push(s) \/ PushPanics(s) \/ DropBuffer(s)
         \/ FlushClosed(s) \/ CatchPanic(s) \/ Unwind(s) \/ FlushEnd(s)
  PROVE  LogHolds(l, s)'
<1>1. /\ UNCHANGED <<sent, notifier, store, fixed>> /\ l \notin owed[s]
      BY DEF NewBuffer, Push, PushPanics, DropBuffer, FlushClosed, CatchPanic, Unwind, FlushEnd,
             TypeOK, CallsFit
<1>2. All(l)' = All(l)
      BY <1>1 DEF All, store
<1>3. Received(l, s)' = Received(l, s) /\ InOrder(l, s)'
      BY <1>2, AllStays DEF LogHolds
<1>. QED BY <1>1, <1>3, LogStays DEF notifier, fixed

(* ... begins a flush, ...                                                    *)
LEMMA FlushLog ==
  ASSUME TypeOK, NEW s \in Senders, NEW l \in Logs, BufferHolds(s), LogHolds(l, s), Flush(s)
  PROVE  LogHolds(l, s)'
<1>1. /\ sent'[s] = pushed[s] /\ owed'[s] = members /\ owed[s] = {} /\ at[s] = None
      /\ sender[s] = "flush" /\ open
      /\ UNCHANGED <<open, members, alive, buffer, pushed, call, store, fixed>>
      BY SenderIs DEF Flush, Notifier!Begin, fixed, TypeOK, NotifierTypes, CallsFit
<1>2. All(l)' = All(l)
      BY <1>1 DEF All, store
<1>3. Received(l, s)' = Received(l, s) /\ InOrder(l, s)'
      BY <1>2, AllStays DEF LogHolds
<1>4. sent[s] = Before(s, buffer[s]) /\ sent[s] <= pushed[s] /\ sent[s] \in Nat /\ pushed[s] \in Nat
      BY <1>1, SenderIs DEF BufferHolds
<1>5. \A n : Due(l, s, n)' = Due(l, s, n)
      BY <1>1 DEF Due, fixed
<1>6. Due(l, s, sent[s])' = Due(l, s, pushed[s]) /\ Due(l, s, sent[s]) \subseteq Due(l, s, pushed[s])
  <2>1. Due(l, s, sent[s])' = Due(l, s, pushed[s])
        BY <1>1 DEF Due, fixed
  <2>2. \A n \in Numbers : n <= sent[s] => n <= pushed[s]
        BY <1>4 DEF Numbers
  <2>. QED BY <2>1, <2>2 DEF Due
<1>7. Due(l, s, Before(s, buffer[s]))' = Due(l, s, sent[s])
      BY <1>1, <1>4 DEF Due, fixed, Before
<1>8. l \in members' /\ alive'[l] => Reached(l, s)'
      BY <1>1, <1>3, <1>7 DEF LogHolds, Reached, call
<1>9. since[l][s] <= pushed[s]
  <2>1. since[l][s] \in Nat
        BY DEF TypeOK, OtherTypes
  <2>. QED BY <1>4, <2>1 DEF LogHolds
<1>10. l \in owed'[s] => since'[l][s] <= Before(s, buffer[s])'
      BY <1>1, <1>4 DEF LogHolds, Before, fixed
<1>. QED BY <1>1, <1>3, <1>5, <1>6, <1>8, <1>9, <1>10 DEF LogHolds, fixed

(* ... and calls a listener.                                                  *)
LEMMA CallLog ==
  ASSUME TypeOK, NEW s \in Senders, NEW l \in Logs, BufferHolds(s), LogHolds(l, s),
         NEW k \in Logs, Call(s, k)
  PROVE  LogHolds(l, s)'
<1>1. /\ at'[s] = k /\ input'[s] = buffer[s] /\ out'[s] = <<>> /\ k \in owed[s] /\ at[s] = None
      /\ UNCHANGED <<buffer, pushed, sent, notifier, store, fixed>>
      BY SenderIs DEF Call, TypeOK, CallsFit
<1>2. All(l)' = All(l)
      BY <1>1 DEF All, store
<1>3. Received(l, s)' = Received(l, s) /\ InOrder(l, s)'
      BY <1>2, AllStays DEF LogHolds
<1>4. CASE l # k
  <2>1. Due(l, s, sent[s])' = Due(l, s, sent[s]) /\ \A n : Due(l, s, n)' = Due(l, s, n)
        BY <1>1 DEF Due, fixed
  <2>2. Due(l, s, Before(s, buffer[s]))' = Due(l, s, Before(s, buffer[s]))
        BY <1>1 DEF Due, fixed, Before
  <2>3. Reached(l, s) => Reached(l, s)'
        BY <1>1, <1>3, <1>4, <2>1, <2>2 DEF Reached, notifier
  <2>. QED BY <1>1, <1>3, <2>1, <2>3 DEF LogHolds, notifier, fixed, Before
<1>5. CASE l = k
  <2>1. Due(l, s, sent[s])' = Due(l, s, sent[s]) /\ \A n : Due(l, s, n)' = Due(l, s, n)
        BY <1>1 DEF Due, fixed
  <2>2. Due(l, s, Before(s, input[s]))' = Due(l, s, Before(s, buffer[s]))
        BY <1>1 DEF Due, fixed, Before
  <2>3. In(out[s])' = {}
        BY <1>1 DEF In
  <2>4. l \in members /\ alive[l] => Received(l, s) = Due(l, s, Before(s, buffer[s]))
        BY <1>1, <1>5 DEF LogHolds, Reached
  <2>5. l \in members' /\ alive'[l] => Reached(l, s)'
        BY <1>1, <1>3, <1>5, <2>2, <2>3, <2>4 DEF Reached, notifier
  <2>. QED BY <1>1, <1>3, <2>1, <2>5 DEF LogHolds, notifier, fixed, Before
<1>. QED BY <1>4, <1>5

(* What a call does to logs other than the one it is for.                     *)
LEMMA ElsewhereLog ==
  ASSUME TypeOK, NEW s \in Senders, NEW l \in Logs, LogHolds(l, s), l # at[s], l # at'[s],
         Received(l, s)' = Received(l, s), InOrder(l, s)', l \in owed'[s] <=> l \in owed[s],
         UNCHANGED <<buffer, pushed, sent, open, members, alive, fixed>>
  PROVE  LogHolds(l, s)'
<1>1. Due(l, s, sent[s])' = Due(l, s, sent[s]) /\ \A n : Due(l, s, n)' = Due(l, s, n)
      BY DEF Due, fixed
<1>2. Due(l, s, Before(s, buffer[s]))' = Due(l, s, Before(s, buffer[s]))
      BY DEF Due, fixed, Before
<1>3. Reached(l, s) => Reached(l, s)'
      BY <1>1, <1>2 DEF Reached
<1>. QED BY <1>1, <1>3 DEF LogHolds, fixed, Before

(* The log has what came before the next message of its batch, or the filter  *)
(* still has it; then it has come as far as the next message.                 *)
LEMMA FilterLog ==
  ASSUME TypeOK, NEW s \in Senders, NEW l \in Logs, BufferHolds(s), LogHolds(l, s),
         Discard(s) \/ Gather(s) \/ PassOn(s)
  PROVE  LogHolds(l, s)'
<1>. DEFINE b == Before(s, input[s])
            n == Head(input[s])
<1>1. /\ Before(s, input[s])' = b + 1 /\ n = b + 1 /\ n \in Numbers
      /\ UNCHANGED <<buffer, pushed, sent, sender, at, owed, open, members, alive, since, passing, drained, raw>>
      /\ \/ Discard(s) /\ out'[s] = out[s]
         \/ Gather(s) /\ In(out'[s]) = In(out[s]) \cup {n}
         \/ PassOn(s) /\ In(out'[s]) = {n}
      /\ sender[s] = "filter" /\ at[s] \in owed[s]
      BY AdvanceBuffer, SenderKeeps DEF SenderStep, Discard, Gather, PassOn, TypeOK, CallsFit
<1>2. CASE l # at[s]
  <2>1. Received(l, s)' = Received(l, s) /\ InOrder(l, s)'
    <3>1. CASE Discard(s) \/ Gather(s)
      <4>1. All(l)' = All(l)
            BY <1>1, <3>1 DEF All, Discard, Gather
      <4>. QED BY <4>1, AllStays DEF LogHolds
    <3>2. CASE PassOn(s)
          BY <1>1, <1>2, <3>2, ReceiveGives DEF PassOn, LogHolds
    <3>. QED BY <1>1, <3>1, <3>2
  <2>. QED BY <1>1, <1>2, <2>1, ElsewhereLog DEF fixed
<1>3. CASE l = at[s]
  <2>1. Due(l, s, sent[s])' = Due(l, s, sent[s]) /\ \A k : Due(l, s, k)' = Due(l, s, k)
        BY <1>1 DEF Due
  <2>2. since[l][s] \in Nat /\ b \in Int /\ since[l][s] <= b /\ b <= sent[s]
    <3>1. since[l][s] \in Nat /\ since[l][s] <= Before(s, buffer[s])
          BY <1>1, <1>3 DEF TypeOK, OtherTypes, LogHolds
    <3>2. Before(s, buffer[s]) <= b /\ b <= pushed[s] /\ b \in Int /\ Before(s, buffer[s]) \in Int
          BY SenderIs DEF Before, BufferHolds
    <3>3. sent[s] = pushed[s]
          BY <1>1 DEF BufferHolds
    <3>. QED BY <3>1, <3>2, <3>3
  <2>. HIDE DEF b, n
  <2>3. Due(l, s, b + 1) = IF n \in passing[l] THEN Due(l, s, b) \cup {n} ELSE Due(l, s, b)
    <3>1. \A k \in Numbers : since[l][s] < k /\ k <= b + 1 <=> (since[l][s] < k /\ k <= b) \/ k = n
          BY <1>1, <2>2 DEF Numbers
    <3>. QED BY <1>1, <3>1 DEF Due
  <2>4. Due(l, s, Before(s, input[s]))' = Due(l, s, b + 1)
        BY <1>1, <2>1 DEF Due
  <2>5. \A k \in Due(l, s, b) : k \in Numbers /\ k <= b /\ k < n /\ Due(l, s, k) \subseteq Due(l, s, b)
        BY <1>1, <2>2 DEF Due, Numbers
  <2>6. Due(l, s, b) \subseteq Due(l, s, sent[s])
    <3>1. sent[s] \in Nat
          BY SenderIs
    <3>. QED BY <2>2, <3>1 DEF Due, Numbers
  <2>7. n \in passing[l] <=> Passes(s)
        BY <1>3 DEF Passes, n
  <2>8. CASE ~alive[l]
    <3>1. Received(l, s)' = Received(l, s) /\ InOrder(l, s)'
      <4>1. CASE Discard(s) \/ Gather(s)
        <5>1. All(l)' = All(l)
              BY <1>1, <4>1 DEF All, Discard, Gather
        <5>. QED BY <5>1, AllStays DEF LogHolds
      <4>2. CASE PassOn(s)
            BY <1>3, <2>8, <4>2 DEF PassOn, Upgraded
      <4>. QED BY <1>1, <4>1, <4>2
    <3>. QED BY <1>1, <2>1, <2>8, <3>1 DEF LogHolds, Before
  <2>9. CASE alive[l]
    <3>1. /\ l \in members /\ l \in owed[s]
          /\ Received(l, s) \cup In(out[s]) = Due(l, s, b)
          /\ \A m \in Received(l, s), k \in In(out[s]) : m < k
          BY <1>1, <1>3, <2>9 DEF LogHolds, Reached, b
    <3>2. CASE Discard(s) \/ Gather(s)
      <4>1. All(l)' = All(l)
            BY <1>1, <3>2 DEF All, Discard, Gather
      <4>2. Received(l, s)' = Received(l, s) /\ InOrder(l, s)'
            BY <4>1, AllStays DEF LogHolds
      <4>3. CASE Discard(s)
        <5>1. Due(l, s, b + 1) = Due(l, s, b) /\ In(out[s])' = In(out[s])
              BY <1>1, <2>3, <2>7, <4>3 DEF Discard, PassOn, Gather
        <5>2. Reached(l, s)'
              BY <1>1, <1>3, <2>4, <3>1, <4>2, <5>1 DEF Reached
        <5>. QED BY <1>1, <2>1, <4>2, <5>2 DEF LogHolds, Before
      <4>4. CASE Gather(s)
        <5>1. Due(l, s, b + 1) = Due(l, s, b) \cup {n} /\ In(out[s])' = In(out[s]) \cup {n}
              BY <1>1, <2>3, <2>7, <4>4 DEF Discard, PassOn, Gather
        <5>2. \A m \in Received(l, s) : m < n
              BY <2>5, <3>1
        <5>3. Reached(l, s)'
              BY <1>1, <1>3, <2>4, <3>1, <4>2, <5>1, <5>2 DEF Reached
        <5>. QED BY <1>1, <2>1, <4>2, <5>3 DEF LogHolds, Before
      <4>. QED BY <3>2, <4>3, <4>4
    <3>3. CASE PassOn(s)
      <4>1. Received(l, s)' = Due(l, s, b) /\ InOrder(l, s)'
            BY <1>1, <1>3, <2>9, <3>1, <3>3, ReceiveGives DEF PassOn, LogHolds
      <4>2. Due(l, s, b + 1) = Due(l, s, b) \cup {n} /\ In(out[s])' = {n}
            BY <1>1, <2>3, <2>7, <3>3 DEF Discard, PassOn, Gather
      <4>3. Reached(l, s)'
            BY <1>1, <1>3, <2>4, <2>5, <3>1, <4>1, <4>2 DEF Reached
      <4>. QED BY <1>1, <2>1, <2>5, <2>6, <3>1, <4>1, <4>3 DEF LogHolds, Before
    <3>. QED BY <1>1, <3>2, <3>3
  <2>. QED BY <2>8, <2>9
<1>. QED BY <1>2, <1>3

(* When the call returns, a log that is alive has the batch.                  *)
LEMMA ReturnLog ==
  ASSUME TypeOK, NEW s \in Senders, NEW l \in Logs, BufferHolds(s), LogHolds(l, s),
         GiveUp(s) \/ PassOnRest(s)
  PROVE  LogHolds(l, s)'
<1>1. /\ sender[s] = "filter" /\ at[s] \in owed[s] /\ at'[s] = None /\ owed'[s] = owed[s] \ {at[s]}
      /\ UNCHANGED <<buffer, pushed, sent, open, members, alive, fixed, drained>>
  <2>1. Return(s) /\ sender[s] = "filter"
        BY DEF GiveUp, PassOnRest
  <2>. QED BY <2>1, SenderIs DEF Return, Notifier!Deliver, TypeOK, CallsFit, NotifierTypes
<1>2. \/ UNCHANGED log /\ (GiveUp(s) \/ out[s] = <<>>)
      \/ Receive(s)
      BY DEF GiveUp, PassOnRest
<1>3. CASE l # at[s] \/ ~alive[l]
  <2>1. Received(l, s)' = Received(l, s) /\ InOrder(l, s)'
    <3>1. CASE UNCHANGED log
      <4>1. All(l)' = All(l)
            BY <1>1, <3>1 DEF All
      <4>. QED BY <4>1, AllStays DEF LogHolds
    <3>2. CASE Receive(s)
          BY <1>1, <1>3, <3>2, ReceiveGives DEF LogHolds
    <3>. QED BY <1>2, <3>1, <3>2
  <2>2. CASE l # at[s]
        BY <1>1, <2>1, <2>2, ElsewhereLog
  <2>3. CASE ~alive[l] /\ l = at[s]
    <3>1. Due(l, s, sent[s])' = Due(l, s, sent[s]) /\ \A n : Due(l, s, n)' = Due(l, s, n)
          BY <1>1 DEF Due, fixed
    <3>. QED BY <1>1, <2>1, <2>3, <3>1 DEF LogHolds, fixed
  <2>. QED BY <1>3, <2>2, <2>3
<1>4. CASE l = at[s] /\ alive[l]
  <2>1. PassOnRest(s) /\ input[s] = <<>>
        BY <1>4 DEF GiveUp, PassOnRest, Upgraded
  <2>2. /\ l \in members /\ l \in owed[s]
        /\ Received(l, s) \cup In(out[s]) = Due(l, s, Before(s, input[s]))
        /\ \A m \in Received(l, s), k \in In(out[s]) : m < k
        BY <1>1, <1>4 DEF LogHolds, Reached
  <2>3. Before(s, input[s]) = sent[s]
        BY <1>1, <2>1, SenderIs DEF Before, BufferHolds
  <2>4. Received(l, s)' = Received(l, s) \cup In(out[s]) /\ InOrder(l, s)'
    <3>1. CASE Receive(s)
          BY <1>1, <1>4, <2>2, <3>1, ReceiveGives DEF LogHolds
    <3>2. CASE UNCHANGED log /\ out[s] = <<>>
      <4>1. All(l)' = All(l) /\ In(out[s]) = {}
            BY <1>1, <3>2 DEF All, In
      <4>. QED BY <4>1, AllStays DEF LogHolds
    <3>. QED BY <2>1, <3>1, <3>2 DEF PassOnRest
  <2>5. Due(l, s, sent[s])' = Due(l, s, sent[s]) /\ \A n : Due(l, s, n)' = Due(l, s, n)
        BY <1>1 DEF Due, fixed
  <2>6. Received(l, s)' = Due(l, s, sent[s])
        BY <2>2, <2>3, <2>4
  <2>7. \A n \in Due(l, s, sent[s]) : Due(l, s, n) \subseteq Due(l, s, sent[s])
        BY SenderIs DEF Due, Numbers
  <2>8. Reached(l, s)'
        BY <1>1, <1>4, <2>5, <2>6 DEF Reached
  <2>. QED BY <1>1, <1>4, <2>2, <2>4, <2>5, <2>6, <2>7, <2>8 DEF LogHolds, fixed
<1>. QED BY <1>3, <1>4

(* What one sender gives is nothing to another, or to who delivers directly.  *)
LEMMA OtherSenderLog ==
  ASSUME TypeOK, BufferOK, NEW s \in Senders, SenderStep(s), NEW l \in Logs, NEW r, r # s
  PROVE  Received(l, r)' = Received(l, r) /\ (InOrder(l, r) => InOrder(l, r)')
<1>1. UNCHANGED drained
      BY SenderKeeps
<1>2. CASE UNCHANGED log
  <2>1. All(l)' = All(l)
        BY <1>1, <1>2 DEF All
  <2>. QED BY <2>1, AllStays
<1>3. CASE ~UNCHANGED log
  <2>1. Receive(s) /\ sender[s] = "filter"
        BY <1>3 DEF SenderStep, NewBuffer, Push, PushPanics, DropBuffer, Flush, FlushClosed,
                    CatchPanic, Unwind, FlushEnd, Call, Discard, Gather, PassOn, GiveUp, PassOnRest, store
  <2>. QED BY <1>1, <2>1, ReceiveGives DEF BufferOK
<1>. QED BY <1>2, <1>3

LEMMA SenderLog ==
  ASSUME TypeOK, BufferOK, LogOK, NEW s \in Senders, SenderStep(s)
  PROVE  LogOK'
<1>1. ASSUME NEW l \in Logs PROVE DirectHolds(l)'
  <2>1. Received(l, None)' = Received(l, None) /\ InOrder(l, None)'
        BY OtherSenderLog DEF LogOK, DirectHolds
  <2>2. UNCHANGED given
        BY SenderKeeps
  <2>. QED BY <2>1, <2>2 DEF LogOK, DirectHolds
<1>2. ASSUME NEW l \in Logs PROVE LogHolds(l, s)'
  <2>1. LogHolds(l, s) /\ BufferHolds(s)
        BY DEF LogOK, BufferOK
  <2>. QED BY <2>1, IdleLog, FlushLog, CallLog, FilterLog, ReturnLog DEF SenderStep
<1>3. ASSUME NEW l \in Logs, NEW r \in Senders \ {s} PROVE LogHolds(l, r)'
  <2>1. LogHolds(l, r) /\ Received(l, r)' = Received(l, r) /\ InOrder(l, r)'
        BY OtherSenderLog DEF LogOK, LogHolds
  <2>. QED BY <2>1, OthersStay, SenderKeeps, LogStays
<1>. QED BY <1>1, <1>2, <1>3 DEF LogOK

(* A new listener starts with what is flushed from now on.                    *)
LEMMA ListenLog ==
  ASSUME TypeOK, LogOK, NEW k \in Logs, Listen(k), NEW l \in Logs, NEW s \in Senders
  PROVE  LogHolds(l, s)'
<1>1. /\ alive[k] /\ open /\ k \notin members /\ members' = members \cup {k}
      /\ \A r \in Senders : owed[r] = {}
      /\ since' = [since EXCEPT ![k] = sent]
      /\ UNCHANGED <<senders, open, owed, alive, passing, store>>
      BY DEF Listen, Notifier!Join, Notifier!NothingOwed
<1>2. All(l)' = All(l)
      BY <1>1 DEF All, store
<1>3. LogHolds(l, s) /\ Received(l, s)' = Received(l, s) /\ InOrder(l, s)'
      BY <1>2, AllStays DEF LogOK, LogHolds
<1>4. since \in [Logs -> [Senders -> 0..MaxPush]] /\ sent[s] \in Nat
      BY SenderIs DEF TypeOK, OtherTypes
<1>5. CASE l # k
      BY <1>1, <1>3, <1>4, <1>5, LogStays DEF senders, call
<1>6. CASE l = k
  <2>1. Received(l, s)' = {} /\ since'[l][s] = sent[s] /\ sent'[s] = sent[s] /\ l \notin owed'[s]
        BY <1>1, <1>3, <1>4, <1>6 DEF LogHolds, senders
  <2>2. Due(l, s, sent[s])' = {}
        BY <1>4, <2>1 DEF Due, Numbers
  <2>3. Reached(l, s)'
        BY <2>1, <2>2 DEF Reached
  <2>. QED BY <1>1, <1>3, <1>4, <1>6, <2>1, <2>2, <2>3 DEF LogHolds
<1>. QED BY <1>5, <1>6

(* A direct message is the next one of its kind.                              *)
LEMMA DirectLog ==
  ASSUME TypeOK, CountOK, LogOK, NEW k \in Logs, ReceiveDirectly(k), NEW l \in Logs
  PROVE  /\ DirectHolds(l)'
         /\ \A s \in Senders : Received(l, s)' = Received(l, s) /\ InOrder(l, s)'
<1>. DEFINE n == given[k] + 1
            m == <<<<None, n>>>>
<1>1. /\ given' = [given EXCEPT ![k] = n] /\ log' = [log EXCEPT ![k] = log[k] \o <<<<None, given'[k]>>>>]
      /\ UNCHANGED drained
      BY DEF ReceiveDirectly, Record
<1>2. /\ given \in [Logs -> 0..MaxGiven] /\ log \in [Logs -> Seq(Messages)]
      /\ drained[l] \in Seq(Messages) /\ log[l] \in Seq(Messages)
      BY DEF TypeOK, LogTypes
<1>3. given'[k] = n /\ given[k] \in Nat
      BY <1>1, <1>2
<1>4. CASE l # k
  <2>1. log'[l] = log[l] /\ given'[l] = given[l]
        BY <1>1, <1>2, <1>4
  <2>2. All(l)' = All(l)
        BY <1>1, <2>1 DEF All
  <2>3. \A s : Received(l, s)' = Received(l, s) /\ (InOrder(l, s)' <=> InOrder(l, s))
        BY <2>2, AllStays
  <2>4. DirectHolds(l)'
        BY <2>1, <2>3 DEF LogOK, DirectHolds
  <2>. QED BY <2>3, <2>4 DEF LogOK, LogHolds
<1>5. CASE l = k
  <2>1. n \in Numbers
        BY <1>3 DEF ReceiveDirectly, MorePushes, CountOK, TypeOK, OtherTypes, Numbers
  <2>2. m \in Seq(Messages) /\ DOMAIN m = {1} /\ m[1] = <<None, n>>
    <3>1. <<None, n>> \in Messages
          BY <2>1 DEF Messages
    <3>. HIDE DEF n
    <3>. QED BY <3>1
  <2>3. log'[l] = log[l] \o m
        BY <1>1, <1>2, <1>3, <1>5
  <2>. HIDE DEF m, n
  <2>4. All(l)' = All(l) \o m
    <3>. DEFINE a == drained[l]
                b == log[l]
    <3>1. a \in Seq(Messages) /\ b \in Seq(Messages) /\ m \in Seq(Messages)
          BY <1>2, <2>2
    <3>. HIDE DEF a, b
    <3>2. (a \o b) \o m = a \o (b \o m)
          BY ONLY <3>1, Concat3, Zenon
    <3>. QED BY <1>1, <2>3, <3>2 DEF All, a, b
  <2>. DEFINE q == All(l)
  <2>5. q \in Seq(Messages)
        BY AllTypes
  <2>. HIDE DEF q
  <2>6. \A i \in DOMAIN m : m[i][1] = None
        BY <2>2
  <2>7. /\ \A s : s # None => Of(q \o m, s) = Of(q, s) /\ (Rising(q, s) => Rising(q \o m, s))
        /\ Of(q \o m, None) = Of(q, None) \cup {m[i][2] : i \in DOMAIN m}
        /\ /\ Rising(q, None) /\ \A i, j \in DOMAIN m : i < j => m[i][2] < m[j][2]
           /\ \A a \in Of(q, None), i \in DOMAIN m : a < m[i][2]
           => Rising(q \o m, None)
        BY <2>2, <2>5, <2>6, AppendOf, Zenon
  <2>8. ASSUME NEW s \in Senders PROVE Received(l, s)' = Received(l, s) /\ InOrder(l, s)'
    <3>1. s # None /\ InOrder(l, s)
          BY DEF LogOK, LogHolds
    <3>. QED BY <2>4, <2>7, <3>1, AllOf DEF q
  <2>9. DirectHolds(l)'
    <3>1. InOrder(l, None) /\ Received(l, None) = 1..given[k]
          BY <1>5 DEF LogOK, DirectHolds
    <3>2. Rising(q, None) /\ Of(q, None) = 1..given[k]
          BY <3>1, AllOf DEF q
    <3>3. \A i \in DOMAIN m : i = 1 /\ m[i][2] = n
          BY <2>2
    <3>4. /\ \A i, j \in DOMAIN m : i < j => m[i][2] < m[j][2]
          /\ \A a \in Of(q, None), i \in DOMAIN m : a < m[i][2]
          BY <1>3, <3>2, <3>3 DEF n
    <3>5. Of(q \o m, None) = 1..n
      <4>1. {m[i][2] : i \in DOMAIN m} = {n}
            BY <2>2, <3>3
      <4>2. (1..given[k]) \cup {n} = 1..n
            BY <1>3 DEF n
      <4>. QED BY <2>7, <3>2, <4>1, <4>2
    <3>6. Rising(q \o m, None)
          BY <2>7, <3>2, <3>4
    <3>7. Received(l, None)' = 1..given'[l] /\ InOrder(l, None)'
          BY <1>3, <1>5, <2>4, <3>5, <3>6, AllOf DEF q
    <3>. QED BY <3>7 DEF DirectHolds
  <2>. QED BY <2>8, <2>9
<1>. QED BY <1>4, <1>5

LEMMA StoreLog ==
  ASSUME TypeOK, CountOK, LogOK, NEW k \in Logs, LogStep(k)
  PROVE  LogOK'
<1>1. CASE Listen(k)
  <2>1. \A l \in Logs, s \in Senders : LogHolds(l, s)'
        BY <1>1, ListenLog
  <2>2. ASSUME NEW l \in Logs PROVE DirectHolds(l)'
    <3>1. All(l)' = All(l) /\ given' = given
          BY <1>1 DEF Listen, All, store
    <3>. QED BY <3>1, AllStays DEF LogOK, DirectHolds
  <2>. QED BY <2>1, <2>2 DEF LogOK
<1>2. CASE ReceiveDirectly(k)
  <2>1. UNCHANGED <<senders, notifier, fixed>>
        BY <1>2 DEF ReceiveDirectly
  <2>2. ASSUME NEW l \in Logs, NEW s \in Senders PROVE LogHolds(l, s)'
    <3>1. LogHolds(l, s) /\ Received(l, s)' = Received(l, s) /\ InOrder(l, s)'
          BY <1>2, DirectLog DEF LogOK
    <3>. QED BY <2>1, <3>1, LogStays DEF senders, call, notifier, fixed
  <2>. QED BY <1>2, <2>2, DirectLog DEF LogOK
<1>3. CASE Lock(k) \/ Drain(k) \/ Take(k) \/ DropLog(k) \/ Forget(k)
  <2>1. ASSUME NEW l \in Logs PROVE All(l)' = All(l)
    <3>1. /\ drained \in [Logs -> Seq(Messages)] /\ log \in [Logs -> Seq(Messages)]
          BY DEF TypeOK, LogTypes
    <3>2. \/ UNCHANGED <<drained, log>>
          \/ /\ drained' = [drained EXCEPT ![k] = drained[k] \o log[k]]
             /\ log' = [log EXCEPT ![k] = <<>>]
          BY <1>3 DEF Lock, Drain, Take, DropLog, Forget, store
    <3>3. CASE UNCHANGED <<drained, log>>
          BY <3>3 DEF All
    <3>4. CASE /\ drained' = [drained EXCEPT ![k] = drained[k] \o log[k]]
               /\ log' = [log EXCEPT ![k] = <<>>]
      <4>1. CASE l = k
        <5>1. drained'[l] = All(l) /\ log'[l] = <<>>
              BY <3>1, <3>4, <4>1 DEF All
        <5>2. All(l) \in Seq(Messages)
              BY AllTypes
        <5>3. All(l) \o <<>> = All(l)
              BY <5>2, ConcatEmptySeq
        <5>. QED BY <5>1, <5>3 DEF All
      <4>2. CASE l # k
            BY <3>1, <3>4, <4>2 DEF All
      <4>. QED BY <4>1, <4>2
    <3>. QED BY <3>2, <3>3, <3>4
  <2>2. /\ UNCHANGED <<senders, fixed, owed, open, given>>
        /\ \A l \in Logs : alive'[l] => alive[l]
        /\ \/ UNCHANGED members
           \/ members' = members \ {k} /\ ~alive[k] /\ alive' = alive /\ \A s \in Senders : owed[s] = {}
    <3>1. CASE Lock(k) \/ Drain(k) \/ Take(k)
          BY <3>1 DEF Lock, Drain, Take, notifier
    <3>2. CASE DropLog(k)
          BY <3>2 DEF DropLog, Notifier!Die, store, TypeOK, NotifierTypes
    <3>3. CASE Forget(k)
          BY <3>3 DEF Forget, Notifier!Leave, Notifier!NothingOwed, store
    <3>. QED BY <1>3, <3>1, <3>2, <3>3
  <2>3. ASSUME NEW l \in Logs, NEW s \in Senders PROVE LogHolds(l, s)'
    <3>1. LogHolds(l, s) /\ Received(l, s)' = Received(l, s) /\ InOrder(l, s)'
          BY <2>1, AllStays DEF LogOK, LogHolds
    <3>2. \/ l \in members' <=> l \in members
          \/ l \notin members' /\ l \notin owed[s] /\ ~(open' /\ alive'[l])
          BY <2>2
    <3>. QED BY <2>2, <3>1, <3>2, LogStays DEF senders, call, fixed
  <2>4. ASSUME NEW l \in Logs PROVE DirectHolds(l)'
        BY <2>1, <2>2, AllStays DEF LogOK, DirectHolds
  <2>. QED BY <2>3, <2>4 DEF LogOK
<1>. QED BY <1>1, <1>2, <1>3 DEF LogStep

LEMMA NextLog == TypeOK /\ CountOK /\ BufferOK /\ LogOK /\ [Next]_vars => LogOK'
<1> SUFFICES ASSUME TypeOK, CountOK, BufferOK, LogOK, [Next]_vars PROVE LogOK'
    OBVIOUS
<1>1. CASE Close \/ UNCHANGED vars
  <2>1. /\ UNCHANGED <<senders, fixed, owed, alive, store>>
        /\ \/ UNCHANGED <<open, members>>
           \/ ~open' /\ members' = {} /\ \A s \in Senders : owed[s] = {}
        BY <1>1 DEF Close, Notifier!Close, Notifier!NothingOwed, vars, senders, call, fixed, store
  <2>2. \A l : All(l)' = All(l)
        BY <2>1 DEF All, store
  <2>3. ASSUME NEW l \in Logs, NEW s \in Senders PROVE LogHolds(l, s)'
    <3>1. LogHolds(l, s) /\ Received(l, s)' = Received(l, s) /\ InOrder(l, s)'
          BY <2>2, AllStays DEF LogOK, LogHolds
    <3>2. \/ l \in members' <=> l \in members
          \/ l \notin members' /\ l \notin owed[s] /\ ~(open' /\ alive'[l])
          BY <2>1
    <3>3. (open' => open) /\ (open' = open \/ l \notin members')
          BY <1>1, <2>1, LogKeeps
    <3>. QED BY <2>1, <3>1, <3>2, <3>3, LogStays DEF senders, call, fixed
  <2>4. ASSUME NEW l \in Logs PROVE DirectHolds(l)'
        BY <2>1, <2>2, AllStays DEF LogOK, DirectHolds, store
  <2>. QED BY <2>3, <2>4 DEF LogOK
<1>. QED BY <1>1, NextCases, SenderLog, StoreLog

LEMMA InitLog == Init => BufferOK /\ LogOK
<1> SUFFICES ASSUME Init PROVE BufferOK /\ LogOK
    OBVIOUS
<1>1. BufferOK
  <2>1. \A s \in Senders : /\ buffer[s] = <<>> /\ input[s] = <<>> /\ out[s] = <<>>
                           /\ pushed[s] = 0 /\ sent[s] = 0 /\ sender[s] = "none"
        BY DEF Init
  <2>2. Rest(0, <<>>) /\ Rises(<<>>) /\ In(<<>>) = {} /\ Len(<<>>) = 0
        BY NoneRest
  <2>3. ASSUME NEW s \in Senders PROVE BufferHolds(s)
    <3>1. Before(s, buffer[s]) = 0 /\ sender[s] \notin {"send", "filter"}
          BY <2>1, <2>2 DEF Before
    <3>2. \A n \in In(out[s]) : n <= Before(s, input[s])
          BY <2>1, <2>2
    <3>. QED BY <2>1, <2>2, <3>1, <3>2 DEF BufferHolds
  <2>. QED BY <2>3 DEF BufferOK
<1>2. ASSUME NEW l \in Logs PROVE All(l) = <<>>
      BY DEF Init, All
<1>3. ASSUME NEW l \in Logs, NEW s PROVE Received(l, s) = {} /\ InOrder(l, s)
      BY <1>2 DEF Received, InOrder
<1>4. /\ members = {} /\ \A s \in Senders : owed[s] = {} /\ sent[s] = 0
      /\ \A l \in Logs : given[l] = 0 /\ \A s \in Senders : since[l][s] = 0
      BY DEF Init, Notifier!Init
<1>5. ASSUME NEW l \in Logs PROVE DirectHolds(l)
  <2>1. 1..given[l] = {}
        BY <1>4
  <2>. QED BY <1>3, <2>1 DEF DirectHolds
<1>6. ASSUME NEW l \in Logs, NEW s \in Senders PROVE LogHolds(l, s)
  <2>1. /\ Received(l, s) = {} /\ InOrder(l, s) /\ l \notin members /\ l \notin owed[s]
        /\ since[l][s] = 0 /\ sent[s] = 0
        BY <1>3, <1>4
  <2>. QED BY <2>1 DEF LogHolds
<1>. QED BY <1>1, <1>5, <1>6 DEF LogOK

LEMMA LogTells ==
  ASSUME TypeOK, BufferOK, LogOK
  PROVE  InOrderOnce /\ DropDelivers
<1>1. InOrderOnce
      BY DEF LogOK, LogHolds, DirectHolds, Reached, InOrderOnce
<1>2. ASSUME NEW l \in members, NEW s \in Senders, alive[l], sender[s] = "none"
      PROVE  Received(l, s) = Due(l, s, pushed[s])
  <2>1. l \in Logs /\ l \notin owed[s] /\ buffer[s] = <<>>
        BY <1>2 DEF TypeOK, NotifierTypes, CallsFit, BuffersFit
  <2>2. Received(l, s) = Due(l, s, sent[s])
        BY <1>2, <2>1 DEF LogOK, LogHolds, Reached
  <2>3. open
        BY <1>2, <2>1 DEF LogOK, LogHolds
  <2>4. sent[s] = pushed[s]
        BY <1>2, <2>1, <2>3, SenderIs DEF BufferOK, BufferHolds, Before
  <2>. QED BY <2>2, <2>4
<1>. QED BY <1>1, <1>2 DEF DropDelivers

LEMMA LogInvariant == Spec => [](TypeOK /\ BufferOK /\ LogOK)
<1>1. Init => TypeOK /\ CountOK /\ BufferOK /\ LogOK
      BY InitTypeOK, InitLog
<1>2. TypeOK /\ CountOK /\ BufferOK /\ LogOK /\ [Next]_vars
      => TypeOK' /\ CountOK' /\ BufferOK' /\ LogOK'
      BY NextTypeOK, NextBuffer, NextLog
<1>. QED BY <1>1, <1>2, PTL DEF Spec

(* However the buffers fill, the filters batch and the owners drain, a log has *)
(* each sender's messages in order, once and without gaps, and all that were   *)
(* flushed since it listened when it is owed none.                             *)
THEOREM InOrderOnceHolds == Spec => []InOrderOnce
<1>1. TypeOK /\ BufferOK /\ LogOK => InOrderOnce
      BY LogTells
<1>. QED BY <1>1, LogInvariant, PTL

(* What was pushed has been delivered to whoever still listens when there is   *)
(* no Buffer left.                                                             *)
THEOREM DropDeliversHolds == Spec => []DropDelivers
<1>1. TypeOK /\ BufferOK /\ LogOK => DropDelivers
      BY LogTells
<1>. QED BY <1>1, LogInvariant, PTL

==============================================================================
