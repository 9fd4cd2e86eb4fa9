------------------------------ MODULE Forwarding ------------------------------
(***************************************************************************)
(* A network of Notifiers (src/src/notifier.rs) joined by the listeners    *)
(* that pass messages on: NotifierForwarder, GateListener (src/src/gate.rs)*)
(* and pairs of listeners (src/src/simple_listeners.rs).  A call of notify,*)
(* listen or count on one notifier walks down the network on the stack of  *)
(* its thread, with the lock of every notifier on the way held.            *)
(*                                                                         *)
(* A link is one listener: it is registered with the notifier From[l], has *)
(* a gate, and passes on to the targets To[l]: one forwarder or sink, two  *)
(* if it is a pair, none if it is a NullListener.  What is modelled in     *)
(* Notifier.tla, the vector and its cursors, is a set here.                *)
(***************************************************************************)
EXTENDS Naturals, Sequences, FiniteSets

CONSTANTS Threads,      \* the callers
          Notifiers,    \* the notifiers, each in an Arc
          Sinks,        \* targets of a listener that only record messages
          Links,        \* the listeners
          From,         \* per link, the notifier that its owner registers it with
          To,           \* per link, the notifiers and sinks it passes messages to
          Rank,         \* per notifier, its height: the network has no cycles
          Registered,   \* the links that are registered when the story begins
          MaxLosses,    \* bound: how many notifiers, gates and sinks are dropped or closed
          None

Nodes == Notifiers \cup Sinks

ASSUME ForwardingAssumption ==
    /\ IsFiniteSet(Threads) /\ None \notin Threads \cup Links
    /\ Notifiers \cap Sinks = {} /\ Links \cap Nodes = {}
    /\ From \in [Links -> Notifiers]
    /\ To \in [Links -> SUBSET Nodes]
    /\ Registered \subseteq Links /\ MaxLosses \in Nat
    /\ Rank \in [Notifiers -> Nat]
    /\ \A l \in Links : \A n \in To[l] \cap Notifiers : Rank[n] < Rank[From[l]]

VARIABLES
    open,        \* per notifier, whether it has not been closed
    owned,       \* per notifier, whether an Arc outlives the calls
    members,     \* per notifier, the links in its vector
    readers,     \* per notifier, the threads with a read guard
    writer,      \* per notifier, the thread with the write guard
    gate,        \* per link, whether its Gate exists
    alive,       \* per sink, whether it exists
    fresh,       \* the links that have not been given to listen() yet
    call,        \* per thread, the method it has called
    arg,         \* per thread, the link given to listen()
    stack,       \* per thread, the notifiers it is in, outermost first
    losses,      \* how many notifiers, gates and sinks are gone
    steady,      \* history: what has been connected all through a notify()
    shut,        \* history: the links whose gate was gone when it began
    reached,     \* history: the notifiers and links it has come to
    passed       \* history: what has been told by which link, as pairs

network == <<open, owned, members, gate, alive, fresh, losses>>
locks == <<readers, writer>>
history == <<steady, shut>>
vars == <<open, owned, members, readers, writer, gate, alive, fresh, call, arg,
          stack, losses, steady, shut, reached, passed>>

Calls == {"none", "notify", "listen", "count"}

(* An activation of notify_many(), or of the loop of a writer, at a notifier: *)
(* the links still to call, the one being called, the targets it has yet to   *)
(* pass on to and what they have answered.                                    *)
Frames == [at : Notifiers,
           mode : {"lock", "send", "ask", "reap"},
           left : SUBSET Links,
           link : Links \cup {None},
           targets : SUBSET Nodes,
           answer : BOOLEAN]

Frame(n) == [at |-> n, mode |-> "lock", left |-> {}, link |-> None,
             targets |-> {}, answer |-> FALSE]

Depth(t) == Len(stack[t])
Top(t) == stack[t][Depth(t)]
Busy(t) == stack[t] # <<>>
SetTop(t, frame) == [stack EXCEPT ![t][Depth(t)] = frame]

(* The writing methods have one frame of their own and ask; what they call is *)
(* notify_many() with an empty batch.                                         *)
Writes(t) == Depth(t) = 1 /\ call[t] # "notify"
Batch(t) == call[t] = "notify"

(* An Arc is held by the owner, and by each activation. *)
Strong(n) == owned[n] \/ \E t \in Threads : \E i \in DOMAIN stack[t] : stack[t][i].at = n

Connected ==
    {n \in Notifiers : owned[n] /\ open[n]} \cup {s \in Sinks : alive[s]}
      \cup {l \in Links : gate[l] /\ l \in members[From[l]]}

Init ==
    /\ open = [n \in Notifiers |-> TRUE]
    /\ owned = [n \in Notifiers |-> TRUE]
    /\ members = [n \in Notifiers |-> {l \in Registered : From[l] = n}]
    /\ readers = [n \in Notifiers |-> {}]
    /\ writer = [n \in Notifiers |-> None]
    /\ gate = [l \in Links |-> TRUE]
    /\ alive = [s \in Sinks |-> TRUE]
    /\ fresh = Links \ Registered
    /\ call = [t \in Threads |-> "none"]
    /\ arg = [t \in Threads |-> None]
    /\ stack = [t \in Threads |-> <<>>]
    /\ losses = 0
    /\ steady = [t \in Threads |-> {}]
    /\ shut = [t \in Threads |-> {}]
    /\ reached = [t \in Threads |-> {}]
    /\ passed = [t \in Threads |-> {}]

------------------------------------------------------------------------------
(* The calls that threads make on notifiers they have an Arc of. *)

Begin(t, c, n, l) ==
    /\ ~Busy(t) /\ owned[n]
    /\ call' = [call EXCEPT ![t] = c]
    /\ arg' = [arg EXCEPT ![t] = l]
    /\ stack' = [stack EXCEPT ![t] = <<Frame(n)>>]
    /\ steady' = [steady EXCEPT ![t] = IF c = "notify" THEN Connected ELSE {}]
    /\ shut' = [shut EXCEPT ![t] = IF c = "notify" THEN {k \in Links : ~gate[k]} ELSE {}]
    /\ UNCHANGED <<open, owned, members, gate, alive, losses, locks, reached, passed>>

BeginNotify(t, n) == Begin(t, "notify", n, None) /\ UNCHANGED fresh
BeginCount(t, n) == Begin(t, "count", n, None) /\ UNCHANGED fresh
BeginListen(t, l) ==
    /\ l \in fresh
    /\ Begin(t, "listen", From[l], l)
    /\ fresh' = fresh \ {l}

BeginCall(t) ==
    \/ \E n \in Notifiers : BeginNotify(t, n) \/ BeginCount(t, n)
    \/ \E l \in Links : BeginListen(t, l)

------------------------------------------------------------------------------
(* Within a call. *)

Inside(t, mode) == Busy(t) /\ Top(t).mode = mode
Idle(t) == Top(t).link = None

(* Mutant of Unlocked: the panic of a thread leaves its read guards behind. *)
UnlockedWriter(t) ==
    /\ UNCHANGED readers
    /\ writer' = [n \in Notifiers |-> IF writer[n] = t THEN None ELSE writer[n]]

(* The guards of a thread are dropped as its stack unwinds; the poison that a *)
(* panic leaves in a lock of std is ignored by whoever comes next.            *)
Unlocked(t) ==
    /\ readers' = [n \in Notifiers |-> readers[n] \ {t}]
    /\ writer' = [n \in Notifiers |-> IF writer[n] = t THEN None ELSE writer[n]]

(* The call is over, one way or the other. *)
Leave(t) ==
    /\ Unlocked(t)
    /\ stack' = [stack EXCEPT ![t] = <<>>]
    /\ call' = [call EXCEPT ![t] = "none"]
    /\ arg' = [arg EXCEPT ![t] = None]
    /\ steady' = [steady EXCEPT ![t] = {}]
    /\ shut' = [shut EXCEPT ![t] = {}]
    /\ reached' = [reached EXCEPT ![t] = {}]
    /\ passed' = [passed EXCEPT ![t] = {}]

(* notify_many() on a closed notifier, however deep in the network. *)
FindsClosed(t) ==
    /\ Inside(t, "lock") /\ ~Writes(t)
    /\ writer[Top(t).at] = None /\ ~open[Top(t).at]

Panic(t) == FindsClosed(t) /\ Leave(t) /\ UNCHANGED network

(* A message has come to x; an empty batch carries none. *)
Reach(t, x) == reached' = [reached EXCEPT ![t] = IF Batch(t) THEN @ \cup {x} ELSE @]

(* The link l is done with telling x of it. *)
Pass(t, l, x) == passed' = [passed EXCEPT ![t] = IF Batch(t) THEN @ \cup {<<l, x>>} ELSE @]

AcquireRead(t) ==
    LET n == Top(t).at
    IN  /\ Inside(t, "lock") /\ ~Writes(t)
        /\ writer[n] = None /\ open[n]
        /\ readers' = [readers EXCEPT ![n] = @ \cup {t}]
        /\ stack' = SetTop(t, [Top(t) EXCEPT !.mode = "send", !.left = members[n]])
        /\ Reach(t, n)
        /\ UNCHANGED <<network, writer, call, arg, history, passed>>

(* listen() asks the newcomer first, count() all there are; on a closed       *)
(* notifier there is nobody to ask.                                           *)
AcquireWrite(t) ==
    LET n == Top(t).at
    IN  /\ Inside(t, "lock") /\ Writes(t)
        /\ writer[n] = None /\ readers[n] = {}
        /\ writer' = [writer EXCEPT ![n] = t]
        /\ stack' = SetTop(t,
             CASE ~open[n] -> [Top(t) EXCEPT !.mode = "ask"]
               [] open[n] /\ call[t] = "listen" ->
                    [Top(t) EXCEPT !.mode = "ask", !.left = {arg[t]}]
               [] open[n] /\ call[t] = "count" ->
                    [Top(t) EXCEPT !.mode = "reap", !.left = members[n]])
        /\ UNCHANGED <<network, readers, call, arg, history, reached, passed>>

(* Mutant of Answered: the walk does not move on from the link that answered.  *)
AnsweredStill(t, l, answer) ==
    /\ stack' = SetTop(t, [Top(t) EXCEPT !.left = @ \ {l}])
    /\ UNCHANGED members

(* Mutant of Answered: a notify() that finds a dead link starts again, with the *)
(* lock that it has.                                                           *)
AnsweredRelock(t, l, answer) ==
    LET f == [Top(t) EXCEPT !.left = @ \ {l}, !.link = None, !.answer = FALSE]
    IN  /\ stack' = SetTop(t, IF f.mode = "send" /\ ~answer THEN Frame(f.at) ELSE
                               IF f.mode = "ask" /\ answer THEN [f EXCEPT !.mode = "reap"] ELSE f)
        /\ members' = IF f.mode = "reap" /\ ~answer
                        THEN [members EXCEPT ![f.at] = @ \ {l}] ELSE members

(* What a walk does with the answer of a link: was_alive is not kept here, for *)
(* a link that has answered FALSE answers so again.  Before a newcomer is let  *)
(* in the dead are removed, if the vector is full.                             *)
Answered(t, l, answer) ==
    LET f == [Top(t) EXCEPT !.left = @ \ {l}, !.link = None, !.answer = FALSE]
        n == f.at
    IN  \/ /\ f.mode = "send" \/ (f.mode = "ask" /\ ~answer) \/ (f.mode = "reap" /\ answer)
           /\ stack' = SetTop(t, f)
           /\ UNCHANGED members
        \/ /\ f.mode = "reap" /\ ~answer
           /\ stack' = SetTop(t, f)
           /\ members' = [members EXCEPT ![n] = @ \ {l}]
        \/ /\ f.mode = "ask" /\ answer
           /\ \E full \in BOOLEAN :
                stack' = SetTop(t, [f EXCEPT !.mode = "reap",
                                             !.left = IF full THEN members[n] ELSE {}])
           /\ UNCHANGED members

(* Mutant of PassGate: the gate is not looked at. *)
PassOpen(t, l) ==
    /\ stack' = SetTop(t, [Top(t) EXCEPT !.link = l, !.targets = To[l]])
    /\ Reach(t, l)
    /\ UNCHANGED members

(* GateListener::receive looks at its gate, and then calls its target: the     *)
(* Gate may go in between.                                                     *)
PassGate(t, l) ==
    IF gate[l]
      THEN /\ stack' = SetTop(t, [Top(t) EXCEPT !.link = l, !.targets = To[l]])
           /\ Reach(t, l)
           /\ UNCHANGED members
      ELSE Answered(t, l, FALSE) /\ UNCHANGED reached

Receive(t) ==
    /\ Busy(t) /\ Idle(t)
    /\ \E l \in Top(t).left : PassGate(t, l)
    /\ UNCHANGED <<open, owned, gate, alive, fresh, losses, locks, call, arg, history,
                   passed>>

(* Mutant of Told: a target is called until it answers TRUE. *)
ToldAgain(t, x, answer) ==
    [Top(t) EXCEPT !.targets = IF answer THEN @ \ {x} ELSE @, !.answer = @ \/ answer]

(* A target has answered.  A pair calls both whatever the first has answered.  *)
Told(t, x, answer) ==
    [Top(t) EXCEPT !.targets = @ \ {x}, !.answer = @ \/ answer]

CallSink(t) ==
    /\ Busy(t) /\ ~Idle(t)
    /\ \E s \in Top(t).targets \cap Sinks :
         /\ stack' = SetTop(t, Told(t, s, alive[s]))
         /\ IF alive[s] THEN Pass(t, Top(t).link, s) ELSE UNCHANGED passed
    /\ UNCHANGED <<network, locks, call, arg, history, reached>>

(* NotifierForwarder::receive upgrades its weak reference and calls            *)
(* notify_many(), with the messages there are, even if there are none.         *)
CallForwarder(t) ==
    /\ Busy(t) /\ ~Idle(t)
    /\ \E n \in Top(t).targets \cap Notifiers :
         stack' = IF Strong(n) THEN [stack EXCEPT ![t] = Append(@, Frame(n))]
                               ELSE SetTop(t, Told(t, n, FALSE))
    /\ UNCHANGED <<network, locks, call, arg, history, reached, passed>>

(* Mutant of LinkDone: a pair whose first listener answers TRUE is done. *)
LinkDoneEarly(t) ==
    /\ Busy(t) /\ ~Idle(t)
    /\ Top(t).targets = {} \/ Top(t).answer
    /\ Answered(t, Top(t).link, Top(t).answer)
    /\ UNCHANGED <<open, owned, gate, alive, fresh, losses, locks, call, arg, history,
                   reached, passed>>

LinkDone(t) ==
    /\ Busy(t) /\ ~Idle(t) /\ Top(t).targets = {}
    /\ Answered(t, Top(t).link, Top(t).answer)
    /\ UNCHANGED <<open, owned, gate, alive, fresh, losses, locks, call, arg, history,
                   reached, passed>>

WalkOver(t) == Busy(t) /\ Idle(t) /\ Top(t).left = {} /\ Top(t).mode # "lock"

(* notify_many() returns to the forwarder that called it, which answers TRUE. *)
ReturnToForwarder(t) ==
    /\ WalkOver(t) /\ Depth(t) > 1
    /\ readers' = [readers EXCEPT ![Top(t).at] = @ \ {t}]
    /\ LET below == SubSeq(stack[t], 1, Depth(t) - 1)
           f == below[Len(below)]
       IN  stack' = [stack EXCEPT ![t] =
             [below EXCEPT ![Len(below)] =
                [f EXCEPT !.targets = @ \ {Top(t).at}, !.answer = TRUE]]]
    /\ Pass(t, stack[t][Depth(t) - 1].link, Top(t).at)
    /\ UNCHANGED <<network, writer, call, arg, history, reached>>

(* The call is over; a newcomer that has answered TRUE is pushed. *)
Return(t) ==
    LET n == Top(t).at
    IN  /\ WalkOver(t) /\ Depth(t) = 1
        /\ members' = IF call[t] = "listen" /\ Top(t).mode = "reap"
                        THEN [members EXCEPT ![n] = @ \cup {arg[t]}] ELSE members
        /\ Leave(t)
        /\ UNCHANGED <<open, owned, gate, alive, fresh, losses>>

------------------------------------------------------------------------------
(* The owners. *)

calls == <<readers, writer, fresh, call, arg, stack, shut, reached, passed>>

(* What has been disconnected is steady for nobody. *)
Disconnect(gone) ==
    /\ losses < MaxLosses /\ losses' = losses + 1
    /\ steady' = [t \in Threads |-> steady[t] \ gone]

Close(n) ==
    /\ owned[n] /\ open[n] /\ writer[n] = None /\ readers[n] = {}
    /\ open' = [open EXCEPT ![n] = FALSE]
    /\ members' = [members EXCEPT ![n] = {}]
    /\ Disconnect({n} \cup members[n])
    /\ UNCHANGED <<owned, gate, alive, calls>>

DropNotifier(n) ==
    /\ owned[n]
    /\ owned' = [owned EXCEPT ![n] = FALSE]
    /\ Disconnect({n})
    /\ UNCHANGED <<open, members, gate, alive, calls>>

DropGate(l) ==
    /\ gate[l]
    /\ gate' = [gate EXCEPT ![l] = FALSE]
    /\ Disconnect({l})
    /\ UNCHANGED <<open, owned, members, alive, calls>>

DropSink(s) ==
    /\ alive[s]
    /\ alive' = [alive EXCEPT ![s] = FALSE]
    /\ Disconnect({s})
    /\ UNCHANGED <<open, owned, members, gate, calls>>

------------------------------------------------------------------------------

Step(t) ==
    \/ AcquireRead(t) \/ Panic(t) \/ AcquireWrite(t)
    \/ Receive(t) \/ CallSink(t) \/ CallForwarder(t) \/ LinkDone(t)
    \/ ReturnToForwarder(t) \/ Return(t)

Next ==
    \/ \E t \in Threads : BeginCall(t) \/ Step(t)
    \/ \E n \in Notifiers : Close(n) \/ DropNotifier(n)
    \/ \E l \in Links : DropGate(l)
    \/ \E s \in Sinks : DropSink(s)

(* A lock may, or may not, make readers wait behind a waiting writer.  A step  *)
(* is only relied upon if it needs no more than the strictest of locks gives.  *)
WriterWaits(n) ==
    \E t \in Threads : Inside(t, "lock") /\ Writes(t) /\ Top(t).at = n

Unhindered(t) == Inside(t, "lock") /\ ~Writes(t) => ~WriterWaits(Top(t).at)

Fairness == \A t \in Threads : WF_vars(Unhindered(t) /\ Step(t))

Spec == Init /\ [][Next]_vars
FairSpec == Spec /\ Fairness

------------------------------------------------------------------------------
(* Properties. *)

(* The locks are held just by the activations that have taken them: what a     *)
(* thread leaves by a return or by a panic it holds no more.                   *)
LockOK ==
    \A n \in Notifiers :
      /\ readers[n] = {t \in Threads :
                         \E i \in DOMAIN stack[t] : stack[t][i].at = n /\ stack[t][i].mode = "send"}
      /\ writer[n] # None => readers[n] = {}
      /\ \A t \in Threads :
           writer[n] = t <=> Busy(t) /\ stack[t][1].at = n /\ stack[t][1].mode \in {"ask", "reap"}

(* An activation calls links of its own notifier, and passes on what the link  *)
(* called is for.  Only the innermost activation may be waiting for its lock,  *)
(* those above it are in a forwarder, and only the outermost can be a writer.  *)
FrameOK(t, i) ==
    LET f == stack[t][i]
    IN  /\ f.mode = "lock" => f.left = {} /\ f.link = None
        /\ f.mode \in {"ask", "reap"} => i = 1 /\ call[t] # "notify"
        /\ i = 1 /\ f.mode = "send" => call[t] = "notify"
        /\ \A l \in f.left : From[l] = f.at
        /\ f.link # None => f.link \in f.left /\ f.targets \subseteq To[f.link]
        /\ i < Depth(t) => f.link # None /\ stack[t][i + 1].at \in f.targets

StackOK ==
    \A t \in Threads :
      /\ Busy(t) => call[t] # "none"
      /\ Busy(t) /\ call[t] = "listen" => arg[t] \in Links /\ stack[t][1].at = From[arg[t]]
      /\ \A i \in DOMAIN stack[t] : FrameOK(t, i)

(* Every variable has its type, and a notifier has only links of its own.      *)
TypeOK ==
    /\ open \in [Notifiers -> BOOLEAN] /\ owned \in [Notifiers -> BOOLEAN]
    /\ members \in [Notifiers -> SUBSET Links]
    /\ readers \in [Notifiers -> SUBSET Threads]
    /\ writer \in [Notifiers -> Threads \cup {None}]
    /\ gate \in [Links -> BOOLEAN] /\ alive \in [Sinks -> BOOLEAN]
    /\ fresh \in SUBSET Links
    /\ call \in [Threads -> Calls] /\ arg \in [Threads -> Links \cup {None}]
    /\ stack \in [Threads -> Seq(Frames)]
    /\ losses \in 0..MaxLosses
    /\ steady \in [Threads -> SUBSET (Nodes \cup Links)]
    /\ shut \in [Threads -> SUBSET Links]
    /\ reached \in [Threads -> SUBSET (Notifiers \cup Links)]
    /\ passed \in [Threads -> SUBSET (Links \X Nodes)]
    /\ \A n \in Notifiers : \A l \in members[n] : From[l] = n
    /\ StackOK

(* As long as calls are in progress one of them can go on, even if readers     *)
(* have to wait behind waiting writers: no deadlock across the network, and    *)
(* nobody waits for himself ("may or may not deadlock if locked again from the *)
(* same thread", maybe_sync.rs:55).  For this the network must have no cycles. *)
CanGoOn(t) ==
    \/ Top(t).mode # "lock"
    \/ IF Writes(t) THEN writer[Top(t).at] = None /\ readers[Top(t).at] = {}
                    ELSE writer[Top(t).at] = None /\ ~WriterWaits(Top(t).at)

SomebodyGoesOn ==
    (\E t \in Threads : Busy(t)) => \E t \in Threads : Busy(t) /\ CanGoOn(t)

(* What the link l leads to and has told of the batch. *)
Informed(t, l) == {x \in To[l] : <<l, x>> \in passed[t]}

(* Wherever a notify() that is about to return has come to, each of the links  *)
(* there has told everything of it that it leads to, of what was connected all *)
(* through the call: no link of the network swallows a batch, nor leaves it to *)
(* another that leads to the same (notifier.rs:169-174), whatever comes and    *)
(* goes meanwhile.                                                             *)
Complete ==
    \A t \in Threads :
      WalkOver(t) /\ Depth(t) = 1 /\ Batch(t) =>
        \A l \in steady[t] \cap Links :
          From[l] \in reached[t] => To[l] \cap steady[t] \subseteq Informed(t, l)

(* "drop the Gate when no more messages should be delivered" (gate.rs:9-12): a *)
(* call that begins after the drop passes nothing through the gate; one that   *)
(* was in progress still may.                                                  *)
GateStopsLaterCalls == \A t \in Threads : reached[t] \cap shut[t] = {}

(* When no more calls begin, all in progress come to an end.                   *)
CallsFinish ==
    <>[][\A t \in Threads : ~BeginCall(t)]_vars => <>[](\A t \in Threads : ~Busy(t))

(* What a user of a notifier is told of its panics (notifier.rs:216-222): they *)
(* are for notify() on a notifier that was itself closed.  Listeners "do not   *)
(* panic under any possible incoming message stream" (listener.rs:57).         *)
PanicsOnlyIfClosed ==
    \A t \in Threads :
      FindsClosed(t) => call[t] = "notify" /\ ~open[stack[t][1].at]
==============================================================================
