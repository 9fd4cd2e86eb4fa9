--------------------------- MODULE ForwardingProofs ---------------------------
(***************************************************************************)
(* Proofs about Forwarding.tla, for every network without cycles and any   *)
(* number of threads.                                                      *)
(***************************************************************************)
EXTENDS Forwarding, SequenceTheorems, WellFoundedInduction, TLAPS

USE ForwardingAssumption

(* What a step does to the stacks: the innermost activation of t changes, is  *)
(* joined by one further in, or returns; or t leaves all of them.             *)
OthersStay(t) ==
    /\ stack' \in [Threads -> Seq(Frames)]
    /\ \A u \in Threads \ {t} : stack'[u] = stack[u]

TopBecomes(t, f) ==
    /\ OthersStay(t)
    /\ Len(stack'[t]) = Depth(t) /\ stack'[t][Depth(t)] = f
    /\ \A i \in 1..(Depth(t) - 1) : stack'[t][i] = stack[t][i]

Pushes(t, n) ==
    /\ OthersStay(t)
    /\ Len(stack'[t]) = Depth(t) + 1 /\ stack'[t][Depth(t) + 1] = Frame(n)
    /\ \A i \in 1..Depth(t) : stack'[t][i] = stack[t][i]

Below(t) ==
    [stack[t][Depth(t) - 1] EXCEPT !.targets = @ \ {Top(t).at}, !.answer = TRUE]

Pops(t) ==
    /\ OthersStay(t)
    /\ Depth(t) > 1
    /\ Len(stack'[t]) = Depth(t) - 1 /\ stack'[t][Depth(t) - 1] = Below(t)
    /\ \A i \in 1..(Depth(t) - 2) : stack'[t][i] = stack[t][i]

LEMMA FrameType == \A n \in Notifiers : Frame(n) \in Frames
  BY DEF Frame, Frames

LEMMA TopType ==
  ASSUME TypeOK, NEW t \in Threads, Busy(t)
  PROVE  /\ stack[t] \in Seq(Frames) /\ Depth(t) \in Nat \ {0}
         /\ Depth(t) \in DOMAIN stack[t] /\ DOMAIN stack[t] = 1..Depth(t)
         /\ Top(t) \in Frames /\ FrameOK(t, Depth(t))
         /\ \A i \in 1..Depth(t) : stack[t][i] \in Frames
<1>1. stack[t] \in Seq(Frames) /\ stack[t] # <<>>
      BY DEF TypeOK, Busy
<1>2. Depth(t) \in Nat \ {0} /\ DOMAIN stack[t] = 1..Depth(t)
      BY <1>1 DEF Depth
<1>3. \A i \in 1..Depth(t) : stack[t][i] \in Frames
      BY <1>1 DEF Depth
<1>4. Depth(t) \in 1..Depth(t)
      BY <1>2
<1>5. FrameOK(t, Depth(t))
      BY <1>2, <1>4 DEF TypeOK, StackOK
<1>. QED BY <1>1, <1>2, <1>3, <1>4, <1>5 DEF Top

(* The three ways in which a stack is changed in place.                       *)
LEMMA TopSet ==
  ASSUME TypeOK, NEW t \in Threads, Busy(t), NEW f \in Frames, stack' = SetTop(t, f)
  PROVE  TopBecomes(t, f)
<1>1. stack \in [Threads -> Seq(Frames)] /\ stack[t] \in Seq(Frames)
      BY DEF TypeOK
<1>2. Depth(t) \in 1..Len(stack[t]) /\ Depth(t) \in Nat
      BY TopType DEF Depth
<1>. DEFINE new == [stack[t] EXCEPT ![Depth(t)] = f]
<1>3. stack' = [stack EXCEPT ![t] = new]
      BY DEF SetTop
<1>4. /\ new \in Seq(Frames) /\ Len(new) = Len(stack[t])
      /\ \A i \in 1..Len(stack[t]) : new[i] = IF i = Depth(t) THEN f ELSE stack[t][i]
      BY <1>1, <1>2, ExceptSeq
<1>. HIDE DEF new
<1>5. stack'[t] = new /\ OthersStay(t)
      BY <1>1, <1>3, <1>4 DEF OthersStay
<1>6. Len(stack[t]) = Depth(t)
      BY DEF Depth
<1>. QED BY <1>2, <1>4, <1>5, <1>6 DEF TopBecomes

LEMMA Pushed ==
  ASSUME TypeOK, NEW t \in Threads, Busy(t), NEW n \in Notifiers,
         stack' = [stack EXCEPT ![t] = Append(@, Frame(n))]
  PROVE  Pushes(t, n)
<1>1. stack \in [Threads -> Seq(Frames)] /\ stack[t] \in Seq(Frames)
      BY DEF TypeOK
<1>. DEFINE new == Append(stack[t], Frame(n))
<1>2. /\ new \in Seq(Frames) /\ Len(new) = Depth(t) + 1 /\ new[Depth(t) + 1] = Frame(n)
      /\ \A i \in 1..Depth(t) : new[i] = stack[t][i]
      BY <1>1, FrameType DEF Depth
<1>. HIDE DEF new
<1>3. stack'[t] = new /\ OthersStay(t)
      BY <1>1, <1>2 DEF OthersStay, new
<1>. QED BY <1>2, <1>3 DEF Pushes

LEMMA Popped ==
  ASSUME TypeOK, NEW t \in Threads, ReturnToForwarder(t)
  PROVE  Pops(t) /\ Below(t) \in Frames
<1>1. /\ stack \in [Threads -> Seq(Frames)] /\ stack[t] \in Seq(Frames)
      /\ Busy(t) /\ Depth(t) > 1 /\ Depth(t) \in Nat /\ Len(stack[t]) = Depth(t)
      BY TopType DEF TypeOK, ReturnToForwarder, WalkOver, Depth
<1>2. Below(t) \in Frames
  <2>1. stack[t][Depth(t) - 1] \in Frames
        BY <1>1, TopType
  <2>. QED BY <2>1 DEF Below, Frames
<1>. DEFINE below == SubSeq(stack[t], 1, Depth(t) - 1)
<1>. DEFINE new == [below EXCEPT ![Depth(t) - 1] = Below(t)]
<1>3. /\ below \in Seq(Frames) /\ Len(below) = Depth(t) - 1
      /\ \A i \in 1..(Depth(t) - 1) : below[i] = stack[t][i]
      BY <1>1
<1>4. stack' = [stack EXCEPT ![t] = [below EXCEPT ![Len(below)] =
                    [below[Len(below)] EXCEPT !.targets = @ \ {Top(t).at}, !.answer = TRUE]]]
      BY DEF ReturnToForwarder
<1>. HIDE DEF below
<1>5. stack' = [stack EXCEPT ![t] = new]
  <2>1. Len(below) = Depth(t) - 1 /\ below[Len(below)] = stack[t][Depth(t) - 1]
        BY <1>1, <1>3
  <2>. QED BY <1>4, <2>1, Zenon DEF Below
<1>6. /\ new \in Seq(Frames) /\ Len(new) = Depth(t) - 1
      /\ \A i \in 1..(Depth(t) - 1) :
           new[i] = IF i = Depth(t) - 1 THEN Below(t) ELSE below[i]
      BY <1>1, <1>2, <1>3, ExceptSeq
<1>. HIDE DEF new
<1>7. stack'[t] = new /\ OthersStay(t)
      BY <1>1, <1>5, <1>6 DEF OthersStay
<1>. QED BY <1>1, <1>2, <1>3, <1>6, <1>7 DEF Pops

(* What each step within a call makes of the innermost activation.            *)
LEMMA AcquireReadTop ==
  ASSUME TypeOK, NEW t \in Threads, AcquireRead(t)
  PROVE  \E f \in Frames :
           /\ TopBecomes(t, f) /\ f.at = Top(t).at /\ f.mode = "send"
           /\ f.left = members[f.at] /\ f.link = None
<1>. DEFINE f == [Top(t) EXCEPT !.mode = "send", !.left = members[Top(t).at]]
<1>1. Busy(t) /\ Top(t).mode = "lock" /\ stack' = SetTop(t, f)
      BY DEF AcquireRead, Inside
<1>2. Top(t) \in Frames /\ Top(t).link = None
      BY <1>1, TopType DEF FrameOK, Top
<1>3. members[Top(t).at] \in SUBSET Links
      BY <1>2 DEF TypeOK, Frames
<1>4. /\ f \in Frames /\ f.at = Top(t).at /\ f.mode = "send"
      /\ f.left = members[f.at] /\ f.link = None
      BY <1>2, <1>3 DEF Frames
<1>5. TopBecomes(t, f)
      BY <1>1, <1>4, TopSet
<1>. QED BY <1>4, <1>5

LEMMA AcquireWriteTop ==
  ASSUME TypeOK, NEW t \in Threads, AcquireWrite(t)
  PROVE  \E f \in Frames :
           /\ TopBecomes(t, f) /\ f.at = Top(t).at /\ f.mode \in {"ask", "reap"}
           /\ f.left \subseteq members[f.at] \cup (IF call[t] = "listen" THEN {arg[t]} ELSE {})
           /\ f.link = None
<1>1. Busy(t) /\ Top(t).mode = "lock" /\ Writes(t)
      BY DEF AcquireWrite, Inside
<1>2. Top(t) \in Frames /\ Top(t).link = None /\ Top(t).left = {}
      BY <1>1, TopType DEF FrameOK, Top
<1>3. members[Top(t).at] \in SUBSET Links /\ open[Top(t).at] \in BOOLEAN
      BY <1>2 DEF TypeOK, Frames
<1>4. call[t] \in {"listen", "count"} /\ (call[t] = "listen" => arg[t] \in Links)
      BY <1>1 DEF TypeOK, StackOK, Writes, Calls
<1>. DEFINE none == [Top(t) EXCEPT !.mode = "ask"]
            one == [Top(t) EXCEPT !.mode = "ask", !.left = {arg[t]}]
            all == [Top(t) EXCEPT !.mode = "reap", !.left = members[Top(t).at]]
<1>5. stack' = SetTop(t, CASE ~open[Top(t).at] -> none
                           [] open[Top(t).at] /\ call[t] = "listen" -> one
                           [] open[Top(t).at] /\ call[t] = "count" -> all)
      BY DEF AcquireWrite
<1>6. PICK f : /\ stack' = SetTop(t, f)
               /\ f = none \/ (f = one /\ call[t] = "listen") \/ f = all
  <2>. HIDE DEF none, one, all
  <2>. QED BY <1>3, <1>4, <1>5
<1>7. /\ f \in Frames /\ f.at = Top(t).at /\ f.mode \in {"ask", "reap"} /\ f.link = None
      /\ f.left \subseteq members[f.at] \cup (IF call[t] = "listen" THEN {arg[t]} ELSE {})
  <2>1. CASE f = none
        BY <1>2, <2>1 DEF Frames
  <2>2. CASE f = one /\ call[t] = "listen"
        BY <1>2, <1>4, <2>2 DEF Frames
  <2>3. CASE f = all
        BY <1>2, <1>3, <2>3 DEF Frames
  <2>. QED BY <1>6, <2>1, <2>2, <2>3
<1>8. TopBecomes(t, f)
      BY <1>1, <1>6, <1>7, TopSet
<1>. QED BY <1>7, <1>8

(* A link has answered: its activation goes on with the others, and a link    *)
(* that has said FALSE to a writer is removed.                                *)
Goes(t, l, answer, f) ==
    /\ TopBecomes(t, f) /\ f.at = Top(t).at /\ f.link = None
    /\ \/ /\ f.mode = Top(t).mode /\ f.left = Top(t).left \ {l}
          /\ \/ members' = members
             \/ f.mode = "reap" /\ ~answer /\ members' = [members EXCEPT ![f.at] = @ \ {l}]
       \/ /\ Top(t).mode = "ask" /\ f.mode = "reap" /\ f.left \subseteq members[f.at]
          /\ members' = members

LEMMA AnsweredTop ==
  ASSUME TypeOK, NEW t \in Threads, Busy(t), NEW l \in Links, NEW answer \in BOOLEAN,
         Answered(t, l, answer)
  PROVE  \E f \in Frames : Goes(t, l, answer, f)
<1>. DEFINE g == [Top(t) EXCEPT !.left = @ \ {l}, !.link = None, !.answer = FALSE]
<1>1. Top(t) \in Frames
      BY TopType
<1>2. /\ g \in Frames /\ g.at = Top(t).at /\ g.mode = Top(t).mode
      /\ g.left = Top(t).left \ {l} /\ g.link = None
      BY <1>1 DEF Frames
<1>3. members[g.at] \in SUBSET Links
      BY <1>2 DEF TypeOK, Frames
<1>4. \/ stack' = SetTop(t, g) /\ UNCHANGED members
      \/ /\ g.mode = "reap" /\ ~answer /\ stack' = SetTop(t, g)
         /\ members' = [members EXCEPT ![g.at] = @ \ {l}]
      \/ /\ g.mode = "ask" /\ answer /\ UNCHANGED members
         /\ \E full \in BOOLEAN :
              stack' = SetTop(t, [g EXCEPT !.mode = "reap",
                                           !.left = IF full THEN members[g.at] ELSE {}])
      BY DEF Answered
<1>. HIDE DEF g
<1>5. CASE stack' = SetTop(t, g) /\ UNCHANGED members
      BY <1>2, <1>5, TopSet DEF Goes
<1>6. CASE /\ g.mode = "reap" /\ ~answer /\ stack' = SetTop(t, g)
           /\ members' = [members EXCEPT ![g.at] = @ \ {l}]
      BY <1>2, <1>6, TopSet DEF Goes
<1>7. CASE /\ g.mode = "ask" /\ answer /\ UNCHANGED members
           /\ \E full \in BOOLEAN :
                stack' = SetTop(t, [g EXCEPT !.mode = "reap",
                                             !.left = IF full THEN members[g.at] ELSE {}])
  <2>1. PICK full \in BOOLEAN :
          stack' = SetTop(t, [g EXCEPT !.mode = "reap",
                                       !.left = IF full THEN members[g.at] ELSE {}])
        BY <1>7
  <2>. DEFINE f == [g EXCEPT !.mode = "reap", !.left = IF full THEN members[g.at] ELSE {}]
  <2>2. /\ f \in Frames /\ f.at = g.at /\ f.mode = "reap" /\ f.link = None
        /\ f.left \subseteq members[f.at]
        BY <1>2, <1>3 DEF Frames
  <2>3. TopBecomes(t, f)
        BY <2>1, <2>2, TopSet
  <2>. QED BY <1>2, <1>7, <2>2, <2>3 DEF Goes
<1>. QED BY <1>4, <1>5, <1>6, <1>7

LEMMA ReceiveTop ==
  ASSUME TypeOK, NEW t \in Threads, Receive(t)
  PROVE  \E l \in Top(t).left :
           /\ l \in Links /\ Top(t).link = None /\ Top(t).mode # "lock"
           /\ \/ /\ gate[l] /\ Reach(t, l) /\ UNCHANGED members
                 /\ \E f \in Frames :
                      /\ TopBecomes(t, f) /\ f.at = Top(t).at /\ f.mode = Top(t).mode
                      /\ f.left = Top(t).left /\ f.link = l /\ f.targets = To[l]
              \/ /\ ~gate[l] /\ UNCHANGED reached
                 /\ \E f \in Frames : Goes(t, l, FALSE, f)
<1>1. Busy(t) /\ Top(t).link = None
      BY DEF Receive, Idle
<1>2. PICK l \in Top(t).left : PassGate(t, l)
      BY DEF Receive
<1>3. Top(t) \in Frames /\ Top(t).mode # "lock" /\ l \in Links /\ To[l] \in SUBSET Nodes
  <2>1. Top(t) \in Frames /\ FrameOK(t, Depth(t))
        BY <1>1, TopType
  <2>. QED BY <1>2, <2>1 DEF Frames, FrameOK, Top
<1>4. CASE gate[l]
  <2>. DEFINE f == [Top(t) EXCEPT !.link = l, !.targets = To[l]]
  <2>1. stack' = SetTop(t, f) /\ Reach(t, l) /\ UNCHANGED members
        BY <1>2, <1>4 DEF PassGate
  <2>2. /\ f \in Frames /\ f.at = Top(t).at /\ f.mode = Top(t).mode
        /\ f.left = Top(t).left /\ f.link = l /\ f.targets = To[l]
        BY <1>3 DEF Frames
  <2>3. TopBecomes(t, f)
        BY <1>1, <2>1, <2>2, TopSet
  <2>. HIDE DEF f
  <2>. QED BY <1>1, <1>2, <1>3, <1>4, <2>1, <2>2, <2>3
<1>5. CASE ~gate[l]
  <2>1. Answered(t, l, FALSE) /\ UNCHANGED reached
        BY <1>2, <1>5 DEF PassGate
  <2>2. \E f \in Frames : Goes(t, l, FALSE, f)
        BY <1>1, <1>3, <2>1, AnsweredTop
  <2>. QED BY <1>1, <1>2, <1>3, <1>5, <2>1, <2>2
<1>. QED BY <1>4, <1>5

(* A target x has answered.                                                   *)
Hears(t, x, answer, f) ==
    /\ TopBecomes(t, f) /\ f.at = Top(t).at /\ f.mode = Top(t).mode
    /\ f.left = Top(t).left /\ f.link = Top(t).link
    /\ f.targets = Top(t).targets \ {x} /\ f.answer = (Top(t).answer \/ answer)

LEMMA ToldTop ==
  ASSUME TypeOK, NEW t \in Threads, Busy(t), NEW x, NEW answer \in BOOLEAN,
         stack' = SetTop(t, Told(t, x, answer))
  PROVE  \E f \in Frames : Hears(t, x, answer, f)
<1>1. Top(t) \in Frames
      BY TopType
<1>. DEFINE f == Told(t, x, answer)
<1>2. /\ f \in Frames /\ f.at = Top(t).at /\ f.mode = Top(t).mode
      /\ f.left = Top(t).left /\ f.link = Top(t).link
      /\ f.targets = Top(t).targets \ {x} /\ f.answer = (Top(t).answer \/ answer)
      BY <1>1 DEF Told, Frames
<1>3. TopBecomes(t, f)
      BY <1>2, TopSet
<1>. HIDE DEF f
<1>. QED BY <1>2, <1>3 DEF Hears

LEMMA CallSinkTop ==
  ASSUME TypeOK, NEW t \in Threads, CallSink(t)
  PROVE  \E s \in Top(t).targets \cap Sinks :
           /\ IF alive[s] THEN Pass(t, Top(t).link, s) ELSE UNCHANGED passed
           /\ \E f \in Frames : Hears(t, s, alive[s], f)
<1>1. PICK s \in Top(t).targets \cap Sinks :
        /\ stack' = SetTop(t, Told(t, s, alive[s]))
        /\ IF alive[s] THEN Pass(t, Top(t).link, s) ELSE UNCHANGED passed
      BY DEF CallSink
<1>2. Busy(t) /\ alive[s] \in BOOLEAN
      BY DEF CallSink, TypeOK
<1>3. \E f \in Frames : Hears(t, s, alive[s], f)
      BY <1>1, <1>2, ToldTop
<1>. QED BY <1>1, <1>3

LEMMA CallForwarderTop ==
  ASSUME TypeOK, NEW t \in Threads, CallForwarder(t)
  PROVE  \E n \in Top(t).targets \cap Notifiers :
           \/ Pushes(t, n)
           \/ ~owned[n] /\ \E f \in Frames : Hears(t, n, FALSE, f)
<1>1. PICK n \in Top(t).targets \cap Notifiers :
        stack' = IF Strong(n) THEN [stack EXCEPT ![t] = Append(@, Frame(n))]
                              ELSE SetTop(t, Told(t, n, FALSE))
      BY DEF CallForwarder
<1>2. Busy(t)
      BY DEF CallForwarder
<1>3. CASE Strong(n)
      BY <1>1, <1>2, <1>3, Pushed
<1>4. CASE ~Strong(n)
  <2>1. \E f \in Frames : Hears(t, n, FALSE, f)
        BY <1>1, <1>2, <1>4, ToldTop
  <2>. QED BY <1>4, <2>1 DEF Strong
<1>. QED BY <1>3, <1>4

LEMMA LinkDoneTop ==
  ASSUME TypeOK, NEW t \in Threads, LinkDone(t)
  PROVE  /\ Top(t).link \in Links \cap Top(t).left /\ Top(t).mode # "lock"
         /\ Top(t).targets = {}
         /\ \E f \in Frames : Goes(t, Top(t).link, Top(t).answer, f)
<1>1. /\ Busy(t) /\ Top(t).link # None /\ Top(t).targets = {}
      /\ Answered(t, Top(t).link, Top(t).answer)
      BY DEF LinkDone, Idle
<1>2. Top(t) \in Frames /\ FrameOK(t, Depth(t))
      BY <1>1, TopType
<1>3. /\ Top(t).link \in Links \cap Top(t).left /\ Top(t).mode # "lock"
      /\ Top(t).answer \in BOOLEAN
      BY <1>1, <1>2 DEF Frames, FrameOK, Top
<1>. QED BY <1>1, <1>3, AnsweredTop

------------------------------------------------------------------------------
(* Types, and the shape of the stacks. *)

(* A new activation in the place of the innermost one is as it should be.     *)
TopOK(t, f) ==
    /\ f.at = Top(t).at
    /\ f.mode = "lock" => f.left = {} /\ f.link = None
    /\ f.mode \in {"ask", "reap"} => Depth(t) = 1 /\ call[t] # "notify"
    /\ Depth(t) = 1 /\ f.mode = "send" => call[t] = "notify"
    /\ \A l \in f.left : From[l] = f.at
    /\ f.link # None => f.link \in f.left /\ f.targets \subseteq To[f.link]

LEMMA TopKeepsStackOK ==
  ASSUME TypeOK, NEW t \in Threads, Busy(t), NEW f \in Frames,
         TopBecomes(t, f), TopOK(t, f), UNCHANGED <<call, arg>>
  PROVE  StackOK'
<1>1. /\ Depth(t) \in Nat \ {0} /\ Len(stack[t]) = Depth(t)
      /\ stack'[t] \in Seq(Frames) /\ Depth(t)' = Depth(t)
      /\ DOMAIN stack[t] = 1..Depth(t) /\ DOMAIN stack'[t] = 1..Depth(t)
      BY TopType DEF TopBecomes, OthersStay, Depth
<1>2. \A i \in 1..Depth(t) : stack'[t][i].at = stack[t][i].at
      BY <1>1 DEF TopBecomes, TopOK, Top
<1>3. ASSUME NEW i \in DOMAIN stack'[t] PROVE FrameOK(t, i)'
  <2>1. i \in 1..Depth(t) /\ FrameOK(t, i)
        BY <1>1, <1>3 DEF TypeOK, StackOK
  <2>2. CASE i = Depth(t)
        BY <1>1, <2>2 DEF FrameOK, TopBecomes, TopOK
  <2>3. CASE i # Depth(t)
    <3>1. i + 1 \in 1..Depth(t) /\ i \in 1..(Depth(t) - 1)
          BY <1>1, <2>1, <2>3
    <3>2. stack'[t][i] = stack[t][i] /\ stack'[t][i + 1].at = stack[t][i + 1].at
          BY <1>2, <3>1 DEF TopBecomes
    <3>. QED BY <1>1, <2>1, <3>1, <3>2 DEF FrameOK
  <2>. QED BY <2>2, <2>3
<1>4. ASSUME NEW u \in Threads, u # t, NEW i \in DOMAIN stack'[u] PROVE FrameOK(u, i)'
  <2>1. stack'[u] = stack[u]
        BY <1>4 DEF TopBecomes, OthersStay
  <2>. QED BY <1>4, <2>1 DEF TypeOK, StackOK, FrameOK, Depth
<1>5. ASSUME NEW u \in Threads
      PROVE  /\ Busy(u)' => call'[u] # "none"
             /\ Busy(u)' /\ call'[u] = "listen" =>
                   arg'[u] \in Links /\ stack'[u][1].at = From[arg'[u]]
  <2>1. CASE u # t
    <3>1. stack'[u] = stack[u]
          BY <2>1 DEF TopBecomes, OthersStay
    <3>. QED BY <3>1 DEF TypeOK, StackOK, Busy
  <2>2. CASE u = t
    <3>1. stack'[t][1].at = stack[t][1].at
          BY <1>1, <1>2
    <3>. QED BY <2>2, <3>1 DEF TypeOK, StackOK
  <2>. QED BY <2>1, <2>2
<1>. QED BY <1>3, <1>4, <1>5 DEF StackOK

LEMMA PushKeepsStackOK ==
  ASSUME TypeOK, NEW t \in Threads, Busy(t), Top(t).link # None,
         NEW n \in Top(t).targets \cap Notifiers, Pushes(t, n), UNCHANGED <<call, arg>>
  PROVE  StackOK'
<1>1. /\ Depth(t) \in Nat \ {0} /\ Len(stack[t]) = Depth(t)
      /\ stack'[t] \in Seq(Frames) /\ Depth(t)' = Depth(t) + 1
      /\ DOMAIN stack[t] = 1..Depth(t) /\ DOMAIN stack'[t] = 1..(Depth(t) + 1)
      BY TopType DEF Pushes, OthersStay, Depth
<1>2. \A i \in 1..Depth(t) : stack'[t][i] = stack[t][i]
      BY DEF Pushes
<1>3. ASSUME NEW i \in DOMAIN stack'[t] PROVE FrameOK(t, i)'
  <2>1. CASE i = Depth(t) + 1
        BY <1>1, <2>1 DEF FrameOK, Pushes, Frame
  <2>2. CASE i = Depth(t)
    <3>1. FrameOK(t, i) /\ stack'[t][i] = stack[t][i] /\ stack'[t][i + 1] = Frame(n)
          BY <1>1, <2>2, TopType DEF Pushes
    <3>. QED BY <1>1, <2>2, <3>1 DEF FrameOK, Frame, Top
  <2>3. CASE i \in 1..(Depth(t) - 1)
    <3>1. /\ FrameOK(t, i) /\ i + 1 \in 1..Depth(t) /\ i < Depth(t)
          /\ stack'[t][i] = stack[t][i]
          BY <1>1, <1>2, <2>3 DEF TypeOK, StackOK
    <3>2. stack'[t][i + 1] = stack[t][i + 1]
          BY <1>2, <3>1
    <3>. QED BY <1>1, <3>1, <3>2 DEF FrameOK
  <2>. QED BY <1>1, <1>3, <2>1, <2>2, <2>3
<1>4. ASSUME NEW u \in Threads, u # t, NEW i \in DOMAIN stack'[u] PROVE FrameOK(u, i)'
  <2>1. stack'[u] = stack[u]
        BY <1>4 DEF Pushes, OthersStay
  <2>. QED BY <1>4, <2>1 DEF TypeOK, StackOK, FrameOK, Depth
<1>5. ASSUME NEW u \in Threads
      PROVE  /\ Busy(u)' => call'[u] # "none"
             /\ Busy(u)' /\ call'[u] = "listen" =>
                   arg'[u] \in Links /\ stack'[u][1].at = From[arg'[u]]
  <2>1. CASE u # t
    <3>1. stack'[u] = stack[u]
          BY <2>1 DEF Pushes, OthersStay
    <3>. QED BY <3>1 DEF TypeOK, StackOK, Busy
  <2>2. CASE u = t
    <3>1. stack'[t][1] = stack[t][1]
          BY <1>1, <1>2
    <3>. QED BY <2>2, <3>1 DEF TypeOK, StackOK
  <2>. QED BY <2>1, <2>2
<1>. QED BY <1>3, <1>4, <1>5 DEF StackOK

LEMMA PopKeepsStackOK ==
  ASSUME TypeOK, NEW t \in Threads, Busy(t), Pops(t), Below(t) \in Frames,
         UNCHANGED <<call, arg>>
  PROVE  StackOK'
<1>1. /\ Depth(t) \in Nat \ {0, 1} /\ Len(stack[t]) = Depth(t)
      /\ stack'[t] \in Seq(Frames) /\ Depth(t)' = Depth(t) - 1
      /\ DOMAIN stack[t] = 1..Depth(t) /\ DOMAIN stack'[t] = 1..(Depth(t) - 1)
      BY TopType DEF Pops, OthersStay, Depth
<1>2. LET g == stack[t][Depth(t) - 1]
      IN  /\ g \in Frames /\ FrameOK(t, Depth(t) - 1)
          /\ Below(t).at = g.at /\ Below(t).mode = g.mode /\ Below(t).left = g.left
          /\ Below(t).link = g.link /\ Below(t).targets \subseteq g.targets
  <2>1. stack[t][Depth(t) - 1] \in Frames /\ FrameOK(t, Depth(t) - 1)
        BY <1>1, TopType DEF TypeOK, StackOK
  <2>. QED BY <2>1 DEF Below, Frames
<1>3. \A i \in 1..(Depth(t) - 1) : stack'[t][i].at = stack[t][i].at
      BY <1>1, <1>2 DEF Pops
<1>4. ASSUME NEW i \in DOMAIN stack'[t] PROVE FrameOK(t, i)'
  <2>1. CASE i = Depth(t) - 1
        BY <1>1, <1>2, <2>1 DEF FrameOK, Pops
  <2>2. CASE i \in 1..(Depth(t) - 2)
    <3>1. /\ FrameOK(t, i) /\ i + 1 \in 1..(Depth(t) - 1) /\ i < Depth(t)
          /\ stack'[t][i] = stack[t][i]
          BY <1>1, <2>2 DEF TypeOK, StackOK, Pops
    <3>2. stack'[t][i + 1].at = stack[t][i + 1].at
          BY <1>3, <3>1
    <3>. QED BY <1>1, <3>1, <3>2 DEF FrameOK
  <2>. QED BY <1>1, <1>4, <2>1, <2>2
<1>5. ASSUME NEW u \in Threads, u # t, NEW i \in DOMAIN stack'[u] PROVE FrameOK(u, i)'
  <2>1. stack'[u] = stack[u]
        BY <1>5 DEF Pops, OthersStay
  <2>. QED BY <1>5, <2>1 DEF TypeOK, StackOK, FrameOK, Depth
<1>6. ASSUME NEW u \in Threads
      PROVE  /\ Busy(u)' => call'[u] # "none"
             /\ Busy(u)' /\ call'[u] = "listen" =>
                   arg'[u] \in Links /\ stack'[u][1].at = From[arg'[u]]
  <2>1. CASE u # t
    <3>1. stack'[u] = stack[u]
          BY <2>1 DEF Pops, OthersStay
    <3>. QED BY <3>1 DEF TypeOK, StackOK, Busy
  <2>2. CASE u = t
    <3>1. stack'[t][1].at = stack[t][1].at
          BY <1>1, <1>3
    <3>. QED BY <2>2, <3>1 DEF TypeOK, StackOK
  <2>. QED BY <2>1, <2>2
<1>. QED BY <1>4, <1>5, <1>6 DEF StackOK

LEMMA GoesTopOK ==
  ASSUME TypeOK, NEW t \in Threads, Busy(t), Top(t).mode # "lock", NEW l, NEW answer,
         NEW f \in Frames, Goes(t, l, answer, f)
  PROVE  TopOK(t, f)
<1>1. Top(t) \in Frames /\ FrameOK(t, Depth(t))
      BY TopType
<1>2. \A k \in members[f.at] : From[k] = f.at
      BY DEF TypeOK, Frames
<1>. QED BY <1>1, <1>2 DEF Goes, TopOK, FrameOK, Top

LEMMA GoesMembers ==
  ASSUME TypeOK, NEW t, NEW l, NEW answer, NEW f \in Frames, Goes(t, l, answer, f)
  PROVE  /\ members' \in [Notifiers -> SUBSET Links]
         /\ \A n \in Notifiers : members'[n] \subseteq members[n]
<1>1. CASE members' = members
      BY <1>1 DEF TypeOK
<1>2. CASE members' = [members EXCEPT ![f.at] = @ \ {l}]
  <2>1. members \in [Notifiers -> SUBSET Links]
        BY DEF TypeOK
  <2>. QED BY <1>2, <2>1
<1>. QED BY <1>1, <1>2 DEF Goes

LEMMA ReachType ==
  ASSUME TypeOK, NEW t \in Threads, NEW x \in Notifiers \cup Links, Reach(t, x)
  PROVE  reached' \in [Threads -> SUBSET (Notifiers \cup Links)]
  BY DEF TypeOK, Reach

LEMMA PassType ==
  ASSUME TypeOK, NEW t \in Threads, NEW l \in Links, NEW x \in Nodes, Pass(t, l, x)
  PROVE  passed' \in [Threads -> SUBSET (Links \X Nodes)]
<1>1. passed \in [Threads -> SUBSET (Links \X Nodes)] /\ <<l, x>> \in Links \X Nodes
      BY DEF TypeOK
<1>. QED BY <1>1 DEF Pass

(* The link below the innermost activation is one, and is told to its notifier. *)
LEMMA BelowLink ==
  ASSUME TypeOK, NEW t \in Threads, ReturnToForwarder(t)
  PROVE  stack[t][Depth(t) - 1].link \in Links /\ Top(t).at \in Nodes
<1>1. Busy(t) /\ Depth(t) > 1
      BY DEF ReturnToForwarder, WalkOver
<1>2. Depth(t) \in Nat \ {0} /\ Top(t) \in Frames /\ DOMAIN stack[t] = 1..Depth(t)
      BY <1>1, TopType
<1>3. Depth(t) - 1 \in DOMAIN stack[t] /\ Depth(t) - 1 < Depth(t)
      BY <1>1, <1>2
<1>4. stack[t][Depth(t) - 1] \in Frames /\ FrameOK(t, Depth(t) - 1)
      BY <1>1, <1>3, TopType DEF TypeOK, StackOK
<1>5. stack[t][Depth(t) - 1].link # None
      BY <1>3, <1>4 DEF FrameOK
<1>. QED BY <1>2, <1>4, <1>5 DEF Frames, Nodes

LEMMA InitTypeOK == Init => TypeOK
<1>. SUFFICES ASSUME Init PROVE TypeOK
     OBVIOUS
<1>1. stack \in [Threads -> Seq(Frames)]
      BY DEF Init
<1>2. StackOK
      BY DEF Init, StackOK, Busy
<1>. QED BY <1>1, <1>2 DEF Init, TypeOK, Calls

LEMMA BeginTypeOK ==
  ASSUME TypeOK, NEW t \in Threads, BeginCall(t)
  PROVE  TypeOK'
<1>1. PICK c \in {"notify", "count", "listen"}, n \in Notifiers, l \in Links \cup {None} :
        /\ Begin(t, c, n, l) /\ fresh' \subseteq fresh
        /\ c = "listen" => l \in Links /\ n = From[l]
  <2>1. CASE \E n \in Notifiers : BeginNotify(t, n)
        BY <2>1 DEF BeginNotify
  <2>2. CASE \E n \in Notifiers : BeginCount(t, n)
        BY <2>2 DEF BeginCount
  <2>3. CASE \E l \in Links : BeginListen(t, l)
        BY <2>3 DEF BeginListen
  <2>. QED BY <2>1, <2>2, <2>3 DEF BeginCall
<1>2. stack' = [stack EXCEPT ![t] = <<Frame(n)>>] /\ stack \in [Threads -> Seq(Frames)]
      BY <1>1 DEF Begin, TypeOK
<1>3. /\ <<Frame(n)>> \in Seq(Frames) /\ Len(<<Frame(n)>>) = 1
      /\ DOMAIN <<Frame(n)>> = 1..1 /\ <<Frame(n)>>[1] = Frame(n)
      BY FrameType
<1>4. stack' \in [Threads -> Seq(Frames)] /\ stack'[t] = <<Frame(n)>>
      BY <1>2, <1>3
<1>5. call' = [call EXCEPT ![t] = c] /\ arg' = [arg EXCEPT ![t] = l]
      BY <1>1 DEF Begin
<1>6. StackOK'
  <2>1. ASSUME NEW u \in Threads, u # t
        PROVE  /\ Busy(u)' => call'[u] # "none"
               /\ Busy(u)' /\ call'[u] = "listen" =>
                     arg'[u] \in Links /\ stack'[u][1].at = From[arg'[u]]
               /\ \A i \in DOMAIN stack'[u] : FrameOK(u, i)'
    <3>1. stack'[u] = stack[u] /\ call'[u] = call[u] /\ arg'[u] = arg[u]
          BY <1>2, <1>5, <2>1 DEF TypeOK
    <3>. QED BY <2>1, <3>1 DEF TypeOK, StackOK, Busy, FrameOK, Depth
  <2>2. ASSUME NEW i \in DOMAIN stack'[t] PROVE FrameOK(t, i)'
    <3>1. i = 1 /\ stack'[t][i] = Frame(n) /\ Depth(t)' = 1
          BY <1>3, <1>4, <2>2 DEF Depth
    <3>. QED BY <3>1 DEF FrameOK, Frame
  <2>3. call'[t] # "none" /\ (call'[t] = "listen" =>
          arg'[t] \in Links /\ stack'[t][1].at = From[arg'[t]])
    <3>1. call'[t] = c /\ arg'[t] = l
          BY <1>5 DEF TypeOK
    <3>. QED BY <1>1, <1>3, <1>4, <3>1 DEF Frame
  <2>. QED BY <2>1, <2>2, <2>3 DEF StackOK
<1>7. call' \in [Threads -> Calls] /\ arg' \in [Threads -> Links \cup {None}]
      BY <1>1, <1>5 DEF TypeOK, Calls
<1>8. steady' \in [Threads -> SUBSET (Nodes \cup Links)] /\ shut' \in [Threads -> SUBSET Links]
  <2>1. Connected \in SUBSET (Nodes \cup Links)
        BY DEF Connected, Nodes
  <2>. QED BY <1>1, <2>1 DEF Begin, TypeOK
<1>. QED BY <1>1, <1>4, <1>6, <1>7, <1>8 DEF TypeOK, Begin, locks

LEMMA LeaveStackOK ==
  ASSUME TypeOK, NEW t \in Threads, Leave(t)
  PROVE  stack' \in [Threads -> Seq(Frames)] /\ StackOK'
<1>1. /\ stack' \in [Threads -> Seq(Frames)] /\ stack'[t] = <<>>
      /\ \A u \in Threads \ {t} :
           stack'[u] = stack[u] /\ call'[u] = call[u] /\ arg'[u] = arg[u]
  <2>1. <<>> \in Seq(Frames)
        OBVIOUS
  <2>. QED BY <2>1 DEF TypeOK, Leave
<1>2. ASSUME NEW u \in Threads, u # t
      PROVE  /\ Busy(u)' => call'[u] # "none"
             /\ Busy(u)' /\ call'[u] = "listen" =>
                   arg'[u] \in Links /\ stack'[u][1].at = From[arg'[u]]
             /\ \A i \in DOMAIN stack'[u] : FrameOK(u, i)'
      BY <1>1, <1>2 DEF TypeOK, StackOK, Busy, FrameOK, Depth
<1>3. ~Busy(t)' /\ DOMAIN stack'[t] = {}
      BY <1>1 DEF Busy
<1>. QED BY <1>1, <1>2, <1>3 DEF StackOK

LEMMA LeaveTypes ==
  ASSUME TypeOK, NEW t \in Threads, Leave(t)
  PROVE  /\ readers' \in [Notifiers -> SUBSET Threads]
         /\ writer' \in [Notifiers -> Threads \cup {None}]
         /\ call' \in [Threads -> Calls] /\ arg' \in [Threads -> Links \cup {None}]
         /\ steady' \in [Threads -> SUBSET (Nodes \cup Links)]
         /\ shut' \in [Threads -> SUBSET Links]
         /\ reached' \in [Threads -> SUBSET (Notifiers \cup Links)]
         /\ passed' \in [Threads -> SUBSET (Links \X Nodes)]
  BY DEF TypeOK, Leave, Unlocked, Calls

LEMMA StepTypeOK ==
  ASSUME TypeOK, NEW t \in Threads, Step(t)
  PROVE  TypeOK'
<1>. USE DEF network, locks, history
<1>1. CASE AcquireRead(t)
  <2>1. PICK f \in Frames : /\ TopBecomes(t, f) /\ f.at = Top(t).at /\ f.mode = "send"
                            /\ f.left = members[f.at] /\ f.link = None
        BY <1>1, AcquireReadTop
  <2>2. Busy(t) /\ ~Writes(t) /\ UNCHANGED <<network, writer, call, arg, history, passed>>
        BY <1>1 DEF AcquireRead, Inside
  <2>3. Depth(t) \in Nat \ {0} /\ Top(t).at \in Notifiers
        BY <2>1, <2>2, TopType DEF Frames
  <2>4. TopOK(t, f)
        BY <2>1, <2>2, <2>3 DEF TypeOK, TopOK, Writes
  <2>5. StackOK' /\ stack' \in [Threads -> Seq(Frames)]
        BY <2>1, <2>2, <2>4, TopKeepsStackOK DEF TopBecomes, OthersStay
  <2>6. reached' \in [Threads -> SUBSET (Notifiers \cup Links)]
        BY <1>1, <2>3, ReachType DEF AcquireRead
  <2>7. readers' \in [Notifiers -> SUBSET Threads]
    <3>1. readers' = [readers EXCEPT ![Top(t).at] = @ \cup {t}]
          BY <1>1 DEF AcquireRead
    <3>. QED BY <2>3, <3>1 DEF TypeOK
  <2>. QED BY <2>2, <2>5, <2>6, <2>7 DEF TypeOK
<1>2. CASE Panic(t)
      BY <1>2, LeaveStackOK, LeaveTypes DEF TypeOK, Panic
<1>3. CASE AcquireWrite(t)
  <2>1. PICK f \in Frames :
          /\ TopBecomes(t, f) /\ f.at = Top(t).at /\ f.mode \in {"ask", "reap"}
          /\ f.left \subseteq members[f.at] \cup (IF call[t] = "listen" THEN {arg[t]} ELSE {})
          /\ f.link = None
        BY <1>3, AcquireWriteTop
  <2>2. Busy(t) /\ Writes(t) /\ UNCHANGED <<network, readers, call, arg, history, reached, passed>>
        BY <1>3 DEF AcquireWrite, Inside
  <2>3. call[t] = "listen" => From[arg[t]] = f.at
        BY <2>1, <2>2 DEF TypeOK, StackOK, Writes, Top
  <2>4. TopOK(t, f)
        BY <2>1, <2>2, <2>3 DEF TypeOK, TopOK, Writes, Frames
  <2>5. StackOK' /\ stack' \in [Threads -> Seq(Frames)]
        BY <2>1, <2>2, <2>4, TopKeepsStackOK DEF TopBecomes, OthersStay
  <2>6. writer' \in [Notifiers -> Threads \cup {None}]
        BY <1>3 DEF AcquireWrite, TypeOK
  <2>. QED BY <2>2, <2>5, <2>6 DEF TypeOK
<1>4. CASE Receive(t)
  <2>1. /\ Busy(t)
        /\ UNCHANGED <<open, owned, gate, alive, fresh, losses, locks, call, arg, history, passed>>
        BY <1>4 DEF Receive
  <2>2. PICK l \in Top(t).left :
          /\ l \in Links /\ Top(t).link = None /\ Top(t).mode # "lock"
          /\ \/ /\ gate[l] /\ Reach(t, l) /\ UNCHANGED members
                /\ \E f \in Frames :
                     /\ TopBecomes(t, f) /\ f.at = Top(t).at /\ f.mode = Top(t).mode
                     /\ f.left = Top(t).left /\ f.link = l /\ f.targets = To[l]
             \/ /\ ~gate[l] /\ UNCHANGED reached
                /\ \E f \in Frames : Goes(t, l, FALSE, f)
        BY <1>4, ReceiveTop
  <2>3. CASE /\ gate[l] /\ Reach(t, l) /\ UNCHANGED members
             /\ \E f \in Frames :
                  /\ TopBecomes(t, f) /\ f.at = Top(t).at /\ f.mode = Top(t).mode
                  /\ f.left = Top(t).left /\ f.link = l /\ f.targets = To[l]
    <3>1. PICK f \in Frames :
            /\ TopBecomes(t, f) /\ f.at = Top(t).at /\ f.mode = Top(t).mode
            /\ f.left = Top(t).left /\ f.link = l /\ f.targets = To[l]
          BY <2>3
    <3>2. TopOK(t, f)
      <4>1. FrameOK(t, Depth(t))
            BY <2>1, TopType
      <4>. QED BY <2>2, <3>1, <4>1 DEF TopOK, FrameOK, Top
    <3>3. StackOK' /\ stack' \in [Threads -> Seq(Frames)]
          BY <2>1, <3>1, <3>2, TopKeepsStackOK DEF TopBecomes, OthersStay
    <3>4. reached' \in [Threads -> SUBSET (Notifiers \cup Links)]
          BY <2>2, <2>3, ReachType
    <3>. QED BY <2>1, <2>3, <3>3, <3>4 DEF TypeOK
  <2>4. CASE ~gate[l] /\ UNCHANGED reached /\ \E f \in Frames : Goes(t, l, FALSE, f)
    <3>1. PICK f \in Frames : Goes(t, l, FALSE, f)
          BY <2>4
    <3>2. TopOK(t, f) /\ TopBecomes(t, f)
          BY <2>1, <2>2, <3>1, GoesTopOK DEF Goes
    <3>3. StackOK' /\ stack' \in [Threads -> Seq(Frames)]
          BY <2>1, <3>2, TopKeepsStackOK DEF TopBecomes, OthersStay
    <3>. QED BY <2>1, <2>4, <3>1, <3>3, GoesMembers DEF TypeOK
  <2>. QED BY <2>2, <2>3, <2>4
<1>5. ASSUME NEW x, NEW answer, NEW f \in Frames, Hears(t, x, answer, f), Busy(t),
             UNCHANGED <<call, arg>>
      PROVE  StackOK' /\ stack' \in [Threads -> Seq(Frames)]
  <2>1. TopOK(t, f)
    <3>1. FrameOK(t, Depth(t))
          BY <1>5, TopType
    <3>. QED BY <1>5, <3>1 DEF TopOK, FrameOK, Hears, Top
  <2>. QED BY <1>5, <2>1, TopKeepsStackOK DEF Hears, TopBecomes, OthersStay
<1>6. CASE CallSink(t)
  <2>1. Busy(t) /\ ~Idle(t) /\ UNCHANGED <<network, locks, call, arg, history, reached>>
        BY <1>6 DEF CallSink
  <2>2. PICK s \in Top(t).targets \cap Sinks :
          /\ IF alive[s] THEN Pass(t, Top(t).link, s) ELSE UNCHANGED passed
          /\ \E f \in Frames : Hears(t, s, alive[s], f)
        BY <1>6, CallSinkTop
  <2>3. StackOK' /\ stack' \in [Threads -> Seq(Frames)]
        BY <1>5, <2>1, <2>2
  <2>4. passed' \in [Threads -> SUBSET (Links \X Nodes)]
    <3>1. Top(t).link \in Links /\ s \in Nodes
          BY <2>1, <2>2, TopType DEF Idle, Frames, Nodes
    <3>. QED BY <2>2, <3>1, PassType DEF TypeOK
  <2>. QED BY <2>1, <2>3, <2>4 DEF TypeOK
<1>7. CASE CallForwarder(t)
  <2>1. /\ Busy(t) /\ Top(t).link # None
        /\ UNCHANGED <<network, locks, call, arg, history, reached, passed>>
        BY <1>7 DEF CallForwarder, Idle
  <2>2. PICK n \in Top(t).targets \cap Notifiers :
          Pushes(t, n) \/ \E f \in Frames : Hears(t, n, FALSE, f)
        BY <1>7, CallForwarderTop
  <2>3. StackOK' /\ stack' \in [Threads -> Seq(Frames)]
        BY <1>5, <2>1, <2>2, PushKeepsStackOK DEF Pushes, OthersStay
  <2>. QED BY <2>1, <2>3 DEF TypeOK
<1>8. CASE LinkDone(t)
  <2>1. /\ Busy(t)
        /\ UNCHANGED <<open, owned, gate, alive, fresh, losses, locks, call, arg, history, reached,
                       passed>>
        BY <1>8 DEF LinkDone
  <2>2. PICK f \in Frames : Goes(t, Top(t).link, Top(t).answer, f)
        BY <1>8, LinkDoneTop
  <2>3. TopOK(t, f) /\ TopBecomes(t, f)
        BY <1>8, <2>1, <2>2, LinkDoneTop, GoesTopOK DEF Goes
  <2>4. StackOK' /\ stack' \in [Threads -> Seq(Frames)]
        BY <2>1, <2>3, TopKeepsStackOK DEF TopBecomes, OthersStay
  <2>. QED BY <2>1, <2>2, <2>4, GoesMembers DEF TypeOK
<1>9. CASE ReturnToForwarder(t)
  <2>1. Busy(t) /\ UNCHANGED <<network, writer, call, arg, history, reached>>
        BY <1>9 DEF ReturnToForwarder, WalkOver
  <2>2. StackOK' /\ stack' \in [Threads -> Seq(Frames)]
        BY <1>9, <2>1, Popped, PopKeepsStackOK DEF Pops, OthersStay
  <2>3. readers' \in [Notifiers -> SUBSET Threads]
        BY <1>9 DEF ReturnToForwarder, TypeOK
  <2>4. passed' \in [Threads -> SUBSET (Links \X Nodes)]
        BY <1>9, BelowLink, PassType DEF ReturnToForwarder
  <2>. QED BY <2>1, <2>2, <2>3, <2>4 DEF TypeOK
<1>10. CASE Return(t)
  <2>1. /\ Leave(t) /\ Busy(t) /\ UNCHANGED <<open, owned, gate, alive, fresh, losses>>
        BY <1>10 DEF Return, WalkOver
  <2>2. /\ members' \in [Notifiers -> SUBSET Links]
        /\ \A n \in Notifiers : \A l \in members'[n] : From[l] = n
    <3>1. Depth(t) = 1 /\ Top(t).at \in Notifiers
          BY <1>10, <2>1, TopType DEF Return, Frames
    <3>2. call[t] = "listen" => arg[t] \in Links /\ From[arg[t]] = Top(t).at
          BY <2>1, <3>1 DEF TypeOK, StackOK, Top
    <3>. QED BY <1>10, <3>1, <3>2 DEF TypeOK, Return
  <2>. QED BY <2>1, <2>2, LeaveStackOK, LeaveTypes DEF TypeOK
<1>. QED BY <1>1, <1>2, <1>3, <1>4, <1>6, <1>7, <1>8, <1>9, <1>10 DEF Step

(* What the owners do leaves the calls as they are.                           *)
LEMMA OwnersTypeOK ==
  ASSUME TypeOK, \/ \E n \in Notifiers : Close(n) \/ DropNotifier(n)
                 \/ \E l \in Links : DropGate(l)
                 \/ \E s \in Sinks : DropSink(s)
  PROVE  TypeOK' /\ UNCHANGED calls
<1>1. \E gone : Disconnect(gone) /\ UNCHANGED calls
      BY DEF Close, DropNotifier, DropGate, DropSink
<1>2. StackOK'
      BY <1>1 DEF TypeOK, StackOK, FrameOK, Busy, Depth, calls
<1>3. losses' \in 0..MaxLosses /\ steady' \in [Threads -> SUBSET (Nodes \cup Links)]
      BY <1>1 DEF TypeOK, Disconnect
<1>4. CASE \E n \in Notifiers : Close(n)
      BY <1>1, <1>2, <1>3, <1>4 DEF TypeOK, Close, calls
<1>5. CASE \E n \in Notifiers : DropNotifier(n)
      BY <1>1, <1>2, <1>3, <1>5 DEF TypeOK, DropNotifier, calls
<1>6. CASE \E l \in Links : DropGate(l)
      BY <1>1, <1>2, <1>3, <1>6 DEF TypeOK, DropGate, calls
<1>7. CASE \E s \in Sinks : DropSink(s)
      BY <1>1, <1>2, <1>3, <1>7 DEF TypeOK, DropSink, calls
<1>. QED BY <1>1, <1>4, <1>5, <1>6, <1>7

LEMMA NextTypeOK == TypeOK /\ [Next]_vars => TypeOK'
<1> SUFFICES ASSUME TypeOK, [Next]_vars PROVE TypeOK'
    OBVIOUS
<1>1. CASE UNCHANGED vars
      BY <1>1 DEF vars, TypeOK, StackOK, FrameOK, Busy, Depth
<1>. QED BY <1>1, BeginTypeOK, StepTypeOK, OwnersTypeOK DEF Next

(* Every variable has its type and the activations of every thread fit        *)
(* together: those above the innermost are in a forwarder, at a target of the *)
(* link they are calling, and only the outermost can be a writer.             *)
THEOREM TypeCorrect == Spec => []TypeOK
<1>. QED BY InitTypeOK, NextTypeOK, PTL DEF Spec

------------------------------------------------------------------------------
(* The locks. *)

(* The calls of a thread go down the network: its activations are at          *)
(* notifiers of falling rank, and so at no notifier twice.                    *)
Descent ==
    \A t \in Threads : \A i, j \in DOMAIN stack[t] :
      i < j => Rank[stack[t][j].at] < Rank[stack[t][i].at]

HoldsRead(t, n) ==
    \E i \in DOMAIN stack[t] : stack[t][i].at = n /\ stack[t][i].mode = "send"
HoldsWrite(t, n) ==
    Busy(t) /\ stack[t][1].at = n /\ stack[t][1].mode \in {"ask", "reap"}

(* The steps of a call, seen from the stack and the locks.                    *)
Stays(t) ==
    /\ \E f \in Frames : /\ TopBecomes(t, f) /\ f.at = Top(t).at
                         /\ f.mode = Top(t).mode \/ {f.mode, Top(t).mode} \subseteq {"ask", "reap"}
    /\ UNCHANGED locks
TakesRead(t) ==
    LET n == Top(t).at
    IN  /\ \E f \in Frames : TopBecomes(t, f) /\ f.at = n /\ f.mode = "send"
        /\ Top(t).mode = "lock" /\ writer[n] = None /\ UNCHANGED writer
        /\ readers' = [readers EXCEPT ![n] = @ \cup {t}]
TakesWrite(t) ==
    LET n == Top(t).at
    IN  /\ \E f \in Frames : TopBecomes(t, f) /\ f.at = n /\ f.mode \in {"ask", "reap"}
        /\ Top(t).mode = "lock" /\ Depth(t) = 1
        /\ writer[n] = None /\ readers[n] = {} /\ UNCHANGED readers
        /\ writer' = [writer EXCEPT ![n] = t]
Descends(t) ==
    /\ Top(t).link # None
    /\ \E n \in Top(t).targets \cap Notifiers : Pushes(t, n)
    /\ UNCHANGED locks
Ascends(t) ==
    /\ Pops(t) /\ Below(t) \in Frames /\ UNCHANGED writer
    /\ readers' = [readers EXCEPT ![Top(t).at] = @ \ {t}]

LEMMA StepShapes ==
  ASSUME TypeOK, NEW t \in Threads, Step(t)
  PROVE  Busy(t) /\ (Stays(t) \/ TakesRead(t) \/ TakesWrite(t) \/ Descends(t)
                       \/ Ascends(t) \/ Leave(t))
<1>1. CASE AcquireRead(t)
  <2>1. Busy(t) /\ Top(t).mode = "lock" /\ writer[Top(t).at] = None /\ UNCHANGED writer
        BY <1>1 DEF AcquireRead, Inside
  <2>2. readers' = [readers EXCEPT ![Top(t).at] = @ \cup {t}]
        BY <1>1 DEF AcquireRead
  <2>. QED BY <1>1, <2>1, <2>2, AcquireReadTop DEF TakesRead
<1>2. CASE Panic(t)
      BY <1>2 DEF Panic, FindsClosed, Inside
<1>3. CASE AcquireWrite(t)
  <2>1. /\ Busy(t) /\ Top(t).mode = "lock" /\ Depth(t) = 1
        /\ writer[Top(t).at] = None /\ readers[Top(t).at] = {} /\ UNCHANGED readers
        BY <1>3 DEF AcquireWrite, Inside, Writes
  <2>2. writer' = [writer EXCEPT ![Top(t).at] = t]
        BY <1>3 DEF AcquireWrite
  <2>. QED BY <1>3, <2>1, <2>2, AcquireWriteTop DEF TakesWrite
<1>4. ASSUME NEW l, NEW answer, NEW f \in Frames, Goes(t, l, answer, f), UNCHANGED locks
      PROVE  Stays(t)
      BY <1>4 DEF Goes, Stays
<1>5. CASE Receive(t)
  <2>1. Busy(t) /\ UNCHANGED locks
        BY <1>5 DEF Receive
  <2>. QED BY <1>4, <1>5, <2>1, ReceiveTop DEF Stays
<1>6. ASSUME NEW x, NEW answer, NEW f \in Frames, Hears(t, x, answer, f), UNCHANGED locks
      PROVE  Stays(t)
      BY <1>6 DEF Hears, Stays
<1>7. CASE CallSink(t)
  <2>1. Busy(t) /\ UNCHANGED locks
        BY <1>7 DEF CallSink
  <2>. QED BY <1>6, <1>7, <2>1, CallSinkTop
<1>8. CASE CallForwarder(t)
  <2>1. Busy(t) /\ Top(t).link # None /\ UNCHANGED locks
        BY <1>8 DEF CallForwarder, Idle
  <2>. QED BY <1>6, <1>8, <2>1, CallForwarderTop DEF Descends
<1>9. CASE LinkDone(t)
  <2>1. Busy(t) /\ UNCHANGED locks
        BY <1>9 DEF LinkDone
  <2>. QED BY <1>4, <1>9, <2>1, LinkDoneTop
<1>10. CASE ReturnToForwarder(t)
      BY <1>10, Popped DEF ReturnToForwarder, WalkOver, Ascends
<1>11. CASE Return(t)
      BY <1>11 DEF Return, WalkOver
<1>. QED BY <1>1, <1>2, <1>3, <1>5, <1>7, <1>8, <1>9, <1>10, <1>11 DEF Step

(* A call begins, goes on or is over; the owners change no stack and no lock. *)
LEMMA NextShapes ==
  ASSUME TypeOK, [Next]_vars
  PROVE  \/ \E t \in Threads : /\ ~Busy(t) /\ UNCHANGED locks
                              /\ \E n \in Notifiers :
                                   stack' = [stack EXCEPT ![t] = <<Frame(n)>>]
         \/ \E t \in Threads :
              /\ Busy(t)
              /\ Stays(t) \/ TakesRead(t) \/ TakesWrite(t) \/ Descends(t)
                   \/ Ascends(t) \/ Leave(t)
         \/ UNCHANGED <<stack, locks>>
<1>1. CASE \E t \in Threads : BeginCall(t)
      BY <1>1 DEF BeginCall, BeginNotify, BeginCount, BeginListen, Begin
<1>2. CASE \E t \in Threads : Step(t)
      BY <1>2, StepShapes
<1>3. CASE \/ \E n \in Notifiers : Close(n) \/ DropNotifier(n)
           \/ \E l \in Links : DropGate(l)
           \/ \E s \in Sinks : DropSink(s)
      BY <1>3, OwnersTypeOK DEF calls, locks
<1>4. CASE UNCHANGED vars
      BY <1>4 DEF vars, locks
<1>. QED BY <1>1, <1>2, <1>3, <1>4 DEF Next

(* Going down the network, rank falls.                                        *)
LEMMA RankFalls ==
  ASSUME TypeOK, NEW t \in Threads, Busy(t), Top(t).link # None,
         NEW n \in Top(t).targets \cap Notifiers
  PROVE  Rank[n] < Rank[Top(t).at]
<1>1. Top(t) \in Frames /\ FrameOK(t, Depth(t))
      BY TopType
<1>2. /\ Top(t).link \in Links /\ From[Top(t).link] = Top(t).at
      /\ n \in To[Top(t).link] \cap Notifiers
      BY <1>1 DEF FrameOK, Frames, Top
<1>. QED BY <1>2

LEMMA TopStays ==
  ASSUME TypeOK, NEW t \in Threads, Busy(t), NEW f \in Frames, TopBecomes(t, f),
         f.at = Top(t).at
  PROVE  /\ Depth(t) \in Nat \ {0} /\ Top(t) = stack[t][Depth(t)]
         /\ DOMAIN stack[t] = 1..Depth(t) /\ DOMAIN stack'[t] = 1..Depth(t)
         /\ \A k \in 1..Depth(t) : stack'[t][k].at = stack[t][k].at
         /\ stack'[t][Depth(t)] = f
         /\ \A k \in 1..Depth(t) : k # Depth(t) => stack'[t][k] = stack[t][k]
<1>1. Depth(t) \in Nat \ {0} /\ DOMAIN stack[t] = 1..Depth(t)
      BY TopType
<1>2. stack'[t] \in Seq(Frames) /\ DOMAIN stack'[t] = 1..Depth(t)
      BY DEF TopBecomes, OthersStay
<1>3. \A k \in 1..Depth(t) : k # Depth(t) => k \in 1..(Depth(t) - 1)
      BY <1>1
<1>. QED BY <1>1, <1>2, <1>3 DEF TopBecomes, Top

LEMMA OthersStacks ==
  ASSUME NEW t \in Threads, NEW u \in Threads \ {t},
         Stays(t) \/ TakesRead(t) \/ TakesWrite(t) \/ Descends(t) \/ Ascends(t)
  PROVE  stack'[u] = stack[u]
<1>1. CASE Stays(t)
      BY <1>1 DEF Stays, TopBecomes, OthersStay
<1>2. CASE TakesRead(t)
      BY <1>2 DEF TakesRead, TopBecomes, OthersStay
<1>3. CASE TakesWrite(t)
      BY <1>3 DEF TakesWrite, TopBecomes, OthersStay
<1>4. CASE Descends(t)
      BY <1>4 DEF Descends, Pushes, OthersStay
<1>5. CASE Ascends(t)
      BY <1>5 DEF Ascends, Pops, OthersStay
<1>. QED BY <1>1, <1>2, <1>3, <1>4, <1>5

LEMMA NextDescent == TypeOK /\ Descent /\ [Next]_vars => Descent'
<1> SUFFICES ASSUME TypeOK, Descent, [Next]_vars,
                    NEW t \in Threads, NEW i \in DOMAIN stack'[t], NEW j \in DOMAIN stack'[t],
                    i < j
             PROVE  Rank[stack'[t][j].at] < Rank[stack'[t][i].at]
    BY DEF Descent
<1>1. stack \in [Threads -> Seq(Frames)] /\ TypeOK'
      BY NextTypeOK DEF TypeOK
<1>2. stack' \in [Threads -> Seq(Frames)] /\ stack'[t] \in Seq(Frames)
      BY <1>1 DEF TypeOK
<1>3. i \in Nat \ {0} /\ j \in Nat \ {0} /\ DOMAIN stack'[t] = 1..Len(stack'[t])
      BY <1>2
<1>4. CASE stack'[t] = stack[t]
      BY <1>4 DEF Descent
<1>5. ASSUME NEW n \in Notifiers, stack'[t] = <<Frame(n)>> PROVE FALSE
      BY <1>3, <1>5
<1>6. CASE stack'[t] = <<>>
      BY <1>6
<1>7. CASE Busy(t) /\ Stays(t)
  <2>1. PICK f \in Frames : TopBecomes(t, f) /\ f.at = Top(t).at
        BY <1>7 DEF Stays
  <2>. QED BY <1>7, <2>1, TopStays DEF Descent
<1>8. CASE Busy(t) /\ (TakesRead(t) \/ TakesWrite(t))
  <2>1. PICK f \in Frames : TopBecomes(t, f) /\ f.at = Top(t).at
        BY <1>8 DEF TakesRead, TakesWrite
  <2>. QED BY <1>8, <2>1, TopStays DEF Descent
<1>9. CASE Busy(t) /\ Descends(t)
  <2>1. PICK n \in Top(t).targets \cap Notifiers : Pushes(t, n)
        BY <1>9 DEF Descends
  <2>2. Rank[n] < Rank[Top(t).at]
        BY <1>9, RankFalls DEF Descends
  <2>3. /\ Depth(t) \in Nat \ {0} /\ DOMAIN stack[t] = 1..Depth(t) /\ Top(t) = stack[t][Depth(t)]
        /\ \A k \in 1..Depth(t) : stack[t][k] \in Frames
        /\ DOMAIN stack'[t] = 1..(Depth(t) + 1)
        BY <1>3, <1>9, <2>1, TopType DEF Pushes, Top
  <2>4. CASE j = Depth(t) + 1
    <3>1. i \in 1..Depth(t) /\ stack'[t][i] = stack[t][i] /\ stack'[t][j].at = n
          BY <1>3, <2>1, <2>3, <2>4 DEF Pushes, Frame
    <3>2. Rank[stack[t][i].at] \in Nat /\ Rank[n] \in Nat /\ Rank[Top(t).at] \in Nat
      <4>1. stack[t][i].at \in Notifiers /\ Top(t).at \in Notifiers
            BY <2>3, <3>1 DEF Frames
      <4>. QED BY <4>1
    <3>3. CASE i = Depth(t)
          BY <2>2, <2>3, <3>1, <3>3
    <3>4. CASE i < Depth(t)
      <4>1. Rank[Top(t).at] < Rank[stack[t][i].at]
            BY <2>3, <3>1, <3>4 DEF Descent
      <4>. QED BY <2>2, <3>1, <3>2, <4>1
    <3>. QED BY <2>3, <3>1, <3>3, <3>4
  <2>5. CASE j \in 1..Depth(t)
    <3>1. i \in 1..Depth(t) /\ stack'[t][i] = stack[t][i] /\ stack'[t][j] = stack[t][j]
          BY <1>3, <2>1, <2>3, <2>5 DEF Pushes
    <3>. QED BY <2>3, <2>5, <3>1 DEF Descent
  <2>. QED BY <1>3, <2>3, <2>4, <2>5
<1>10. CASE Busy(t) /\ Ascends(t)
  <2>1. /\ Depth(t) \in Nat \ {0, 1} /\ DOMAIN stack[t] = 1..Depth(t)
        /\ DOMAIN stack'[t] = 1..(Depth(t) - 1)
        BY <1>3, <1>10, TopType DEF Ascends, Pops
  <2>2. Below(t).at = stack[t][Depth(t) - 1].at
    <3>1. stack[t][Depth(t) - 1] \in Frames
          BY <1>10, <2>1, TopType
    <3>. QED BY <3>1 DEF Below, Frames
  <2>3. \A k \in 1..(Depth(t) - 1) : stack'[t][k].at = stack[t][k].at
        BY <1>10, <2>1, <2>2 DEF Ascends, Pops
  <2>. QED BY <2>1, <2>3 DEF Descent
<1>11. ASSUME NEW u \in Threads, u # t, Stays(u) \/ TakesRead(u) \/ TakesWrite(u)
                \/ Descends(u) \/ Ascends(u)
       PROVE  stack'[t] = stack[t]
       BY <1>11, OthersStacks
<1>12. CASE \E u \in Threads : Leave(u)
       BY <1>1, <1>4, <1>6, <1>12 DEF Leave
<1>13. CASE \E u \in Threads, n \in Notifiers : stack' = [stack EXCEPT ![u] = <<Frame(n)>>]
       BY <1>1, <1>4, <1>5, <1>13
<1>. QED BY <1>4, <1>7, <1>8, <1>9, <1>10, <1>11, <1>12, <1>13, NextShapes

LEMMA PopShape ==
  ASSUME TypeOK, NEW t \in Threads, Busy(t), Ascends(t)
  PROVE  /\ Depth(t) \in Nat \ {0, 1} /\ Top(t) = stack[t][Depth(t)]
         /\ DOMAIN stack[t] = 1..Depth(t) /\ DOMAIN stack'[t] = 1..(Depth(t) - 1)
         /\ \A k \in 1..(Depth(t) - 1) :
              stack'[t][k].at = stack[t][k].at /\ stack'[t][k].mode = stack[t][k].mode
<1>1. /\ Depth(t) \in Nat \ {0, 1} /\ DOMAIN stack[t] = 1..Depth(t)
      BY TopType DEF Ascends, Pops
<1>2. DOMAIN stack'[t] = 1..(Depth(t) - 1)
      BY <1>1 DEF Ascends, Pops, OthersStay
<1>3. LET g == stack[t][Depth(t) - 1]
      IN  Below(t).at = g.at /\ Below(t).mode = g.mode
  <2>1. stack[t][Depth(t) - 1] \in Frames
        BY <1>1, TopType
  <2>. QED BY <2>1 DEF Below, Frames
<1>4. \A k \in 1..(Depth(t) - 1) : k = Depth(t) - 1 \/ k \in 1..(Depth(t) - 2)
      BY <1>1
<1>. QED BY <1>1, <1>2, <1>3, <1>4 DEF Ascends, Pops, Top

LEMMA LockAlt ==
  LockOK <=> \A n \in Notifiers :
               /\ readers[n] = {t \in Threads : HoldsRead(t, n)}
               /\ writer[n] # None => readers[n] = {}
               /\ \A t \in Threads : writer[n] = t <=> HoldsWrite(t, n)
  BY DEF LockOK, HoldsRead, HoldsWrite

(* A step of t changes no hold of another thread.                             *)
LEMMA OthersHold ==
  ASSUME NEW t \in Threads, NEW u \in Threads, stack'[u] = stack[u]
  PROVE  \A n : (HoldsRead(u, n)' <=> HoldsRead(u, n)) /\ (HoldsWrite(u, n)' <=> HoldsWrite(u, n))
  BY DEF HoldsRead, HoldsWrite, Busy

LEMMA NextLock == TypeOK /\ Descent /\ LockOK /\ [Next]_vars => LockOK'
<1> SUFFICES ASSUME TypeOK, Descent, LockOK, [Next]_vars PROVE LockOK'
    OBVIOUS
<1>1. /\ stack \in [Threads -> Seq(Frames)] /\ readers \in [Notifiers -> SUBSET Threads]
      /\ writer \in [Notifiers -> Threads \cup {None}]
      BY DEF TypeOK
<1>2. \A n \in Notifiers :
        /\ readers[n] = {t \in Threads : HoldsRead(t, n)}
        /\ writer[n] # None => readers[n] = {}
        /\ \A t \in Threads : writer[n] = t <=> HoldsWrite(t, n)
      BY LockAlt
<1>3. ASSUME UNCHANGED locks,
             \A t \in Threads, n \in Notifiers :
               (HoldsRead(t, n)' <=> HoldsRead(t, n)) /\ (HoldsWrite(t, n)' <=> HoldsWrite(t, n))
      PROVE  LockOK'
  <2>1. \A n \in Notifiers :
          /\ readers'[n] = {t \in Threads : HoldsRead(t, n)'}
          /\ writer'[n] # None => readers'[n] = {}
          /\ \A t \in Threads : writer'[n] = t <=> HoldsWrite(t, n)'
        BY <1>2, <1>3 DEF locks
  <2>. QED BY <2>1 DEF LockOK, HoldsRead, HoldsWrite
<1>4. CASE UNCHANGED <<stack, locks>>
      BY <1>3, <1>4 DEF HoldsRead, HoldsWrite, Busy
<1>5. ASSUME NEW t \in Threads, ~Busy(t), UNCHANGED locks,
             NEW n \in Notifiers, stack' = [stack EXCEPT ![t] = <<Frame(n)>>]
      PROVE  LockOK'
  <2>1. stack[t] = <<>> /\ stack'[t] = <<Frame(n)>>
        BY <1>1, <1>5 DEF Busy
  <2>2. DOMAIN stack'[t] = {1} /\ stack'[t][1].mode = "lock" /\ DOMAIN stack[t] = {}
        BY <2>1 DEF Frame
  <2>3. \A m : ~HoldsRead(t, m) /\ ~HoldsRead(t, m)' /\ ~HoldsWrite(t, m) /\ ~HoldsWrite(t, m)'
        BY <1>5, <2>2 DEF HoldsRead, HoldsWrite
  <2>4. \A u \in Threads \ {t} : stack'[u] = stack[u]
        BY <1>1, <1>5
  <2>. QED BY <1>3, <1>5, <2>3, <2>4, OthersHold
<1>. SUFFICES ASSUME NEW t \in Threads, Busy(t),
                     Stays(t) \/ TakesRead(t) \/ TakesWrite(t) \/ Descends(t)
                       \/ Ascends(t) \/ Leave(t)
              PROVE  LockOK'
     BY <1>4, <1>5, NextShapes
<1>6. \A u \in Threads \ {t} : stack'[u] = stack[u]
  <2>1. CASE Leave(t)
        BY <1>1, <2>1 DEF Leave
  <2>. QED BY <2>1, OthersStacks
<1>7. \A u \in Threads \ {t}, n \in Notifiers :
        (HoldsRead(u, n)' <=> HoldsRead(u, n)) /\ (HoldsWrite(u, n)' <=> HoldsWrite(u, n))
      BY <1>6, OthersHold
<1>8. Top(t).at \in Notifiers /\ FrameOK(t, Depth(t))
      BY TopType DEF Frames
<1>9. CASE Stays(t)
  <2>1. PICK f \in Frames :
          /\ TopBecomes(t, f) /\ f.at = Top(t).at
          /\ f.mode = Top(t).mode \/ {f.mode, Top(t).mode} \subseteq {"ask", "reap"}
        BY <1>9 DEF Stays
  <2>2. /\ Depth(t) \in Nat \ {0} /\ Top(t) = stack[t][Depth(t)]
        /\ DOMAIN stack[t] = 1..Depth(t) /\ DOMAIN stack'[t] = 1..Depth(t)
        /\ \A k \in 1..Depth(t) : stack'[t][k].at = stack[t][k].at
        /\ stack'[t][Depth(t)] = f
        /\ \A k \in 1..Depth(t) : k # Depth(t) => stack'[t][k] = stack[t][k]
        BY <2>1, TopStays
  <2>3. \A k \in 1..Depth(t) :
          /\ stack'[t][k].mode = "send" <=> stack[t][k].mode = "send"
          /\ stack'[t][k].mode \in {"ask", "reap"} <=> stack[t][k].mode \in {"ask", "reap"}
        BY <2>1, <2>2
  <2>4. \A n : (HoldsRead(t, n)' <=> HoldsRead(t, n)) /\ (HoldsWrite(t, n)' <=> HoldsWrite(t, n))
    <3>1. Busy(t)' /\ 1 \in 1..Depth(t)
          BY <2>2 DEF Busy
    <3>. QED BY <2>2, <2>3, <3>1 DEF HoldsRead, HoldsWrite
  <2>. QED BY <1>3, <1>7, <1>9, <2>4 DEF Stays
<1>10. CASE TakesRead(t)
  <2>1. PICK f \in Frames : TopBecomes(t, f) /\ f.at = Top(t).at /\ f.mode = "send"
        BY <1>10 DEF TakesRead
  <2>2. /\ Depth(t) \in Nat \ {0} /\ Top(t) = stack[t][Depth(t)]
        /\ DOMAIN stack[t] = 1..Depth(t) /\ DOMAIN stack'[t] = 1..Depth(t)
        /\ \A k \in 1..Depth(t) : stack'[t][k].at = stack[t][k].at
        /\ stack'[t][Depth(t)] = f
        /\ \A k \in 1..Depth(t) : k # Depth(t) => stack'[t][k] = stack[t][k]
        BY <2>1, TopStays
  <2>3. /\ Top(t).mode = "lock" /\ writer[Top(t).at] = None /\ UNCHANGED writer
        /\ readers' = [readers EXCEPT ![Top(t).at] = @ \cup {t}]
        BY <1>10 DEF TakesRead
  <2>4. \A n : HoldsRead(t, n)' <=> HoldsRead(t, n) \/ n = Top(t).at
    <3>1. stack[t][Depth(t)].mode # "send" /\ Depth(t) \in 1..Depth(t)
          BY <2>2, <2>3
    <3>2. /\ stack'[t][Depth(t)].mode = "send" /\ stack'[t][Depth(t)].at = Top(t).at
          /\ \A k \in 1..Depth(t) : k # Depth(t) => stack'[t][k] = stack[t][k]
          BY <2>1, <2>2
    <3>. QED BY <2>2, <3>1, <3>2 DEF HoldsRead
  <2>5. \A n : HoldsWrite(t, n)' <=> HoldsWrite(t, n)
    <3>1. Busy(t)' /\ 1 \in 1..Depth(t)
          BY <2>2 DEF Busy
    <3>. QED BY <2>1, <2>2, <2>3, <3>1 DEF HoldsWrite
  <2>6. ASSUME NEW n \in Notifiers
        PROVE  /\ readers'[n] = {u \in Threads : HoldsRead(u, n)'}
               /\ writer'[n] # None => readers'[n] = {}
               /\ \A u \in Threads : writer'[n] = u <=> HoldsWrite(u, n)'
    <3>1. readers'[n] = IF n = Top(t).at THEN readers[n] \cup {t} ELSE readers[n]
          BY <1>1, <1>8, <2>3
    <3>. QED BY <1>2, <1>7, <2>3, <2>4, <2>5, <3>1
  <2>. QED BY <2>6 DEF LockOK, HoldsRead, HoldsWrite
<1>11. CASE TakesWrite(t)
  <2>1. PICK f \in Frames :
          TopBecomes(t, f) /\ f.at = Top(t).at /\ f.mode \in {"ask", "reap"}
        BY <1>11 DEF TakesWrite
  <2>2. /\ Top(t).mode = "lock" /\ Depth(t) = 1
        /\ writer[Top(t).at] = None /\ readers[Top(t).at] = {} /\ UNCHANGED readers
        /\ writer' = [writer EXCEPT ![Top(t).at] = t]
        BY <1>11 DEF TakesWrite
  <2>3. /\ Top(t) = stack[t][1] /\ DOMAIN stack[t] = {1} /\ DOMAIN stack'[t] = {1}
        /\ stack'[t][1] = f
    <3>1. 1..1 = {1}
          OBVIOUS
    <3>. QED BY <2>1, <2>2, <3>1, TopStays
  <2>4. \A n : ~HoldsRead(t, n) /\ ~HoldsRead(t, n)' /\ ~HoldsWrite(t, n)
        BY <2>1, <2>2, <2>3 DEF HoldsRead, HoldsWrite
  <2>5. \A n : HoldsWrite(t, n)' <=> n = Top(t).at
    <3>1. Busy(t)'
          BY <2>3 DEF Busy
    <3>. QED BY <2>1, <2>3, <3>1 DEF HoldsWrite
  <2>6. ASSUME NEW n \in Notifiers
        PROVE  /\ readers'[n] = {u \in Threads : HoldsRead(u, n)'}
               /\ writer'[n] # None => readers'[n] = {}
               /\ \A u \in Threads : writer'[n] = u <=> HoldsWrite(u, n)'
    <3>1. writer'[n] = IF n = Top(t).at THEN t ELSE writer[n]
          BY <1>1, <1>8, <2>2
    <3>2. None \notin Threads
          OBVIOUS
    <3>. QED BY <1>2, <1>7, <2>2, <2>4, <2>5, <3>1, <3>2
  <2>. QED BY <2>6 DEF LockOK, HoldsRead, HoldsWrite
<1>12. CASE Descends(t)
  <2>1. PICK n \in Top(t).targets \cap Notifiers : Pushes(t, n)
        BY <1>12 DEF Descends
  <2>2. /\ Depth(t) \in Nat \ {0} /\ DOMAIN stack[t] = 1..Depth(t)
        /\ DOMAIN stack'[t] = 1..(Depth(t) + 1)
        /\ \A k \in 1..Depth(t) : stack'[t][k] = stack[t][k]
        /\ stack'[t][Depth(t) + 1] = Frame(n)
        BY <2>1, TopType DEF Pushes, OthersStay
  <2>3. \A m : (HoldsRead(t, m)' <=> HoldsRead(t, m)) /\ (HoldsWrite(t, m)' <=> HoldsWrite(t, m))
    <3>1. Frame(n).mode = "lock"
          BY DEF Frame
    <3>2. Busy(t)' /\ 1 \in 1..Depth(t)
          BY <2>2 DEF Busy
    <3>3. \A k \in 1..(Depth(t) + 1) : k \in 1..Depth(t) \/ k = Depth(t) + 1
          BY <2>2
    <3>4. \A k \in 1..Depth(t) : k \in 1..(Depth(t) + 1)
          BY <2>2
    <3>. QED BY <2>2, <3>1, <3>2, <3>3, <3>4 DEF HoldsRead, HoldsWrite
  <2>. QED BY <1>3, <1>7, <1>12, <2>3 DEF Descends
<1>13. CASE Ascends(t)
  <2>1. /\ Depth(t) \in Nat \ {0, 1} /\ Top(t) = stack[t][Depth(t)]
        /\ DOMAIN stack[t] = 1..Depth(t) /\ DOMAIN stack'[t] = 1..(Depth(t) - 1)
        /\ \A k \in 1..(Depth(t) - 1) :
             stack'[t][k].at = stack[t][k].at /\ stack'[t][k].mode = stack[t][k].mode
        BY <1>13, PopShape
  <2>2. UNCHANGED writer /\ readers' = [readers EXCEPT ![Top(t).at] = @ \ {t}]
        BY <1>13 DEF Ascends
  <2>3. \A k \in 1..(Depth(t) - 1) : stack[t][k].at # Top(t).at
    <3>1. ASSUME NEW k \in 1..(Depth(t) - 1) PROVE stack[t][k].at # Top(t).at
      <4>1. Rank[Top(t).at] < Rank[stack[t][k].at]
        <5>1. k \in 1..Depth(t) /\ Depth(t) \in 1..Depth(t) /\ k < Depth(t)
              BY <2>1, <3>1
        <5>. QED BY <2>1, <5>1 DEF Descent
      <4>2. Rank[Top(t).at] \in Nat
            BY <1>8
      <4>. QED BY <4>1, <4>2
    <3>. QED BY <3>1
  <2>4. \A n : HoldsRead(t, n)' <=> HoldsRead(t, n) /\ n # Top(t).at
    <3>1. \A k \in 1..Depth(t) : k \in 1..(Depth(t) - 1) \/ k = Depth(t)
          BY <2>1
    <3>2. \A k \in 1..(Depth(t) - 1) : k \in 1..Depth(t)
          BY <2>1
    <3>. QED BY <2>1, <2>3, <3>1, <3>2 DEF HoldsRead
  <2>5. \A n : HoldsWrite(t, n)' <=> HoldsWrite(t, n)
    <3>1. Busy(t)' /\ 1 \in 1..(Depth(t) - 1)
          BY <2>1 DEF Busy
    <3>. QED BY <2>1, <3>1 DEF HoldsWrite
  <2>6. ASSUME NEW n \in Notifiers
        PROVE  /\ readers'[n] = {u \in Threads : HoldsRead(u, n)'}
               /\ writer'[n] # None => readers'[n] = {}
               /\ \A u \in Threads : writer'[n] = u <=> HoldsWrite(u, n)'
    <3>1. readers'[n] = IF n = Top(t).at THEN readers[n] \ {t} ELSE readers[n]
          BY <1>1, <1>8, <2>2
    <3>. QED BY <1>2, <1>7, <2>2, <2>4, <2>5, <3>1
  <2>. QED BY <2>6 DEF LockOK, HoldsRead, HoldsWrite
<1>14. CASE Leave(t)
  <2>1. stack'[t] = <<>>
        BY <1>1, <1>14 DEF Leave
  <2>2. \A n : ~HoldsRead(t, n)' /\ ~HoldsWrite(t, n)'
        BY <2>1 DEF HoldsRead, HoldsWrite, Busy
  <2>3. ASSUME NEW n \in Notifiers
        PROVE  /\ readers'[n] = {u \in Threads : HoldsRead(u, n)'}
               /\ writer'[n] # None => readers'[n] = {}
               /\ \A u \in Threads : writer'[n] = u <=> HoldsWrite(u, n)'
    <3>1. /\ readers'[n] = readers[n] \ {t}
          /\ writer'[n] = IF writer[n] = t THEN None ELSE writer[n]
          BY <1>14 DEF Leave, Unlocked
    <3>2. None \notin Threads
          OBVIOUS
    <3>. QED BY <1>2, <1>7, <2>2, <3>1, <3>2
  <2>. QED BY <2>3 DEF LockOK, HoldsRead, HoldsWrite
<1>. QED BY <1>9, <1>10, <1>11, <1>12, <1>13, <1>14

LEMMA InitLocks == Init => Descent /\ LockOK
<1>. SUFFICES ASSUME Init PROVE Descent /\ LockOK
     OBVIOUS
<1>1. \A t \in Threads : stack[t] = <<>> /\ ~Busy(t) /\ DOMAIN stack[t] = {}
      BY DEF Init, Busy
<1>. QED BY <1>1 DEF Init, Descent, LockOK

(* A call never comes to the same notifier twice on its way, which its         *)
(* network's ranks ensure, and never takes a lock it holds already.            *)
THEOREM DescentHolds == Spec => []Descent
<1>. QED BY InitTypeOK, NextTypeOK, InitLocks, NextDescent, PTL DEF Spec

(* The locks are held just by the activations that have taken them, by one     *)
(* writer or by readers; a return and a panic leave none behind.               *)
THEOREM LockOKHolds == Spec => []LockOK
<1>. QED BY InitTypeOK, NextTypeOK, InitLocks, NextDescent, NextLock, PTL DEF Spec

LEMMA LeastRank ==
  ASSUME NEW S \in SUBSET Nat, S # {}
  PROVE  \E m \in S : \A k \in S : m <= k
<1>1. PICK m \in S : \A k \in S : ~(<<k, m>> \in OpToRel(<, Nat))
      BY NatLessThanWellFounded, WFMin
<1>2. \A k \in S : ~(k < m)
      BY <1>1 DEF OpToRel
<1>. QED BY <1>2

(* The argument: among the calls in progress take one at a notifier of least   *)
(* rank.  If it cannot go on somebody holds the lock it waits for, or waits to *)
(* write where somebody holds it; that somebody has gone further down.         *)
LEMMA SomebodyCan == TypeOK /\ Descent /\ LockOK => SomebodyGoesOn
<1> SUFFICES ASSUME TypeOK, Descent, LockOK, \E t \in Threads : Busy(t),
                    \A t \in Threads : Busy(t) => ~CanGoOn(t)
             PROVE  FALSE
    BY DEF SomebodyGoesOn
<1>. DEFINE R(t) == Rank[Top(t).at]
            S == {R(t) : t \in {u \in Threads : Busy(u)}}
<1>1. \A t \in Threads : Busy(t) => Top(t).at \in Notifiers /\ R(t) \in Nat
      BY TopType DEF Frames
<1>2. PICK t \in Threads : Busy(t) /\ \A u \in Threads : Busy(u) => R(t) <= R(u)
  <2>1. S \in SUBSET Nat /\ S # {}
        BY <1>1
  <2>. HIDE DEF S
  <2>2. PICK m \in S : \A k \in S : m <= k
        BY <2>1, LeastRank
  <2>. QED BY <2>2 DEF S
<1>. DEFINE n == Top(t).at
<1>3. ASSUME NEW u \in Threads, NEW i \in DOMAIN stack[u], stack[u][i].at = n,
             stack[u][i].mode # "lock"
      PROVE  FALSE
  <2>1. Busy(u) /\ Top(u).mode = "lock"
        BY <1>3 DEF Busy, CanGoOn
  <2>2. /\ Depth(u) \in Nat \ {0} /\ DOMAIN stack[u] = 1..Depth(u)
        /\ Top(u) = stack[u][Depth(u)]
        BY <2>1, TopType DEF Top
  <2>3. i < Depth(u)
        BY <1>3, <2>1, <2>2
  <2>4. R(u) < Rank[n]
        BY <1>3, <2>2, <2>3 DEF Descent
  <2>. QED BY <1>1, <1>2, <2>1, <2>4
<1>4. writer[n] = None /\ readers[n] = {}
  <2>1. n \in Notifiers
        BY <1>1, <1>2
  <2>2. ASSUME NEW u \in readers[n] PROVE FALSE
    <3>1. u \in Threads /\ \E i \in DOMAIN stack[u] :
                              stack[u][i].at = n /\ stack[u][i].mode = "send"
          BY <2>1, <2>2 DEF LockOK
    <3>. QED BY <1>3, <3>1
  <2>3. ASSUME writer[n] # None PROVE FALSE
    <3>1. PICK u \in Threads : writer[n] = u
          BY <2>1, <2>3 DEF TypeOK
    <3>2. Busy(u) /\ stack[u][1].at = n /\ stack[u][1].mode \in {"ask", "reap"}
          BY <2>1, <3>1 DEF LockOK
    <3>3. 1 \in DOMAIN stack[u]
          BY <3>2, TopType
    <3>. QED BY <1>3, <3>2, <3>3
  <2>. QED BY <2>2, <2>3
<1>5. ~Writes(t) /\ WriterWaits(n)
      BY <1>2, <1>4 DEF CanGoOn
<1>6. PICK w \in Threads : Busy(w) /\ Writes(w) /\ Top(w).at = n
      BY <1>5 DEF WriterWaits, Inside
<1>. QED BY <1>4, <1>6 DEF CanGoOn

(* No deadlock in a network without cycles, with any number of threads, even   *)
(* where readers wait behind waiting writers: of the calls in progress one can *)
(* always go on.                                                               *)
THEOREM SomebodyGoesOnHolds == Spec => []SomebodyGoesOn
<1>. QED BY TypeCorrect, DescentHolds, LockOKHolds, SomebodyCan, PTL

------------------------------------------------------------------------------
(* What a call has come to. *)

LEMMA Disjoint ==
  ASSUME NEW x
  PROVE  /\ x \in Notifiers => x \notin Sinks /\ x \notin Links
         /\ x \in Sinks => x \notin Notifiers /\ x \notin Links
         /\ x \in Links => x \notin Notifiers /\ x \notin Sinks
  BY DEF Nodes

(* What was shut when a call began is shut still, and a thread that is in no  *)
(* call has come to nothing.                                                  *)
StillShut ==
    \A t \in Threads :
      /\ \A l \in shut[t] : ~gate[l]
      /\ ~Busy(t) => reached[t] = {}

(* A step of a call ends it, or adds to what it has come to something that    *)
(* there is: of the links only those that have a gate.                        *)
Adds(t, x) ==
    /\ Reach(t, x) /\ x \in Notifiers \cup Links
    /\ x \in Links => gate[x]

LEMMA StepHistory ==
  ASSUME TypeOK, NEW t \in Threads, Step(t)
  PROVE  /\ UNCHANGED <<open, owned, gate, alive>>
         /\ \/ Leave(t)
            \/ /\ UNCHANGED <<history, call>> /\ Busy(t)'
               /\ UNCHANGED reached \/ \E x : Adds(t, x)
<1>1. UNCHANGED <<open, owned, gate, alive>>
      BY DEF Step, AcquireRead, Panic, AcquireWrite, Receive, CallSink, CallForwarder,
             LinkDone, ReturnToForwarder, Return, network
<1>2. Busy(t)' \/ Leave(t)
  <2>1. Busy(t) /\ Depth(t) \in Nat \ {0}
        BY StepShapes, TopType
  <2>2. CASE Stays(t) \/ TakesRead(t) \/ TakesWrite(t)
    <3>1. PICK f \in Frames : TopBecomes(t, f)
          BY <2>2 DEF Stays, TakesRead, TakesWrite
    <3>. QED BY <2>1, <3>1 DEF TopBecomes, OthersStay, Busy
  <2>3. CASE Descends(t)
        BY <2>1, <2>3 DEF Descends, Pushes, OthersStay, Busy
  <2>4. CASE Ascends(t)
    <3>1. Len(stack'[t]) = Depth(t) - 1 /\ Depth(t) > 1
          BY <2>4 DEF Ascends, Pops
    <3>. QED BY <2>1, <3>1 DEF Busy
  <2>. QED BY <2>2, <2>3, <2>4, StepShapes
<1>3. CASE Panic(t) \/ Return(t)
      BY <1>1, <1>3 DEF Panic, Return
<1>4. CASE AcquireWrite(t) \/ CallForwarder(t) \/ LinkDone(t) \/ ReturnToForwarder(t)
  <2>1. UNCHANGED <<history, call, reached>>
        BY <1>4 DEF AcquireWrite, CallForwarder, LinkDone, ReturnToForwarder
  <2>. QED BY <1>1, <1>2, <2>1
<1>5. CASE AcquireRead(t)
  <2>1. Top(t).at \in Notifiers
        BY <1>5, TopType DEF AcquireRead, Inside, Frames
  <2>2. Adds(t, Top(t).at) /\ UNCHANGED <<history, call>>
        BY <1>5, <2>1, Disjoint DEF AcquireRead, Adds
  <2>. QED BY <1>1, <1>2, <2>2
<1>6. CASE Receive(t)
  <2>1. UNCHANGED reached \/ \E x : Adds(t, x)
        BY <1>6, ReceiveTop DEF Adds
  <2>2. UNCHANGED <<history, call>>
        BY <1>6 DEF Receive
  <2>. QED BY <1>1, <1>2, <2>1, <2>2
<1>7. CASE CallSink(t)
  <2>1. UNCHANGED <<history, call, reached>>
        BY <1>7 DEF CallSink
  <2>. QED BY <1>1, <1>2, <2>1
<1>. QED BY <1>3, <1>4, <1>5, <1>6, <1>7 DEF Step

LEMMA InitShut == Init => StillShut /\ GateStopsLaterCalls
  BY DEF Init, StillShut, GateStopsLaterCalls

LEMMA NextShut ==
  TypeOK /\ StillShut /\ GateStopsLaterCalls /\ [Next]_vars => (StillShut /\ GateStopsLaterCalls)'
<1> SUFFICES ASSUME TypeOK, StillShut, GateStopsLaterCalls, [Next]_vars
             PROVE  (StillShut /\ GateStopsLaterCalls)'
    OBVIOUS
<1>1. /\ stack \in [Threads -> Seq(Frames)] /\ shut \in [Threads -> SUBSET Links]
      /\ reached \in [Threads -> SUBSET (Notifiers \cup Links)] /\ gate \in [Links -> BOOLEAN]
      BY DEF TypeOK
<1>2. ASSUME NEW t \in Threads, BeginCall(t) PROVE (StillShut /\ GateStopsLaterCalls)'
  <2>1. /\ ~Busy(t) /\ UNCHANGED <<gate, reached>>
        /\ \E n : stack' = [stack EXCEPT ![t] = <<Frame(n)>>]
        /\ \E c : shut' = [shut EXCEPT ![t] = IF c = "notify" THEN {k \in Links : ~gate[k]} ELSE {}]
        BY <1>2 DEF BeginCall, BeginNotify, BeginCount, BeginListen, Begin
  <2>2. \A u \in Threads : /\ Busy(u) => Busy(u)'
                           /\ \/ shut'[u] = shut[u]
                              \/ u = t /\ shut'[u] \subseteq {k \in Links : ~gate[k]}
    <3>1. Busy(t)'
      <4>1. PICK n : stack' = [stack EXCEPT ![t] = <<Frame(n)>>]
            BY <2>1
      <4>. QED BY <1>1, <4>1 DEF Busy
    <3>2. \A u \in Threads \ {t} : stack'[u] = stack[u] /\ shut'[u] = shut[u]
          BY <1>1, <2>1
    <3>3. shut'[t] \subseteq {k \in Links : ~gate[k]}
          BY <1>1, <2>1
    <3>. QED BY <3>1, <3>2, <3>3 DEF Busy
  <2>3. reached[t] = {}
        BY <2>1 DEF StillShut
  <2>. QED BY <2>1, <2>2, <2>3 DEF StillShut, GateStopsLaterCalls
<1>3. ASSUME NEW t \in Threads, Step(t) PROVE (StillShut /\ GateStopsLaterCalls)'
  <2>1. gate' = gate /\ \A u \in Threads \ {t} : Busy(u)' <=> Busy(u)
    <3>1. \A u \in Threads \ {t} : stack'[u] = stack[u]
      <4>1. CASE Leave(t)
            BY <1>1, <4>1 DEF Leave
      <4>. QED BY <1>3, <4>1, StepShapes, OthersStacks
    <3>. QED BY <1>3, <3>1, StepHistory DEF Busy
  <2>2. CASE Leave(t)
    <3>1. /\ shut'[t] = {} /\ reached'[t] = {}
          /\ \A u \in Threads \ {t} : shut'[u] = shut[u] /\ reached'[u] = reached[u]
          BY <1>1, <2>2 DEF Leave
    <3>. QED BY <2>1, <3>1 DEF StillShut, GateStopsLaterCalls
  <2>3. CASE shut' = shut /\ Busy(t)' /\ (UNCHANGED reached \/ \E x : Adds(t, x))
    <3>1. \A u \in Threads \ {t} : reached'[u] = reached[u]
          BY <1>1, <2>3 DEF Adds, Reach
    <3>2. reached'[t] \cap shut[t] = {}
      <4>1. CASE UNCHANGED reached
            BY <4>1 DEF GateStopsLaterCalls
      <4>2. CASE \E x : Adds(t, x)
        <5>1. PICK x : Adds(t, x)
              BY <4>2
        <5>2. x \notin shut[t]
              BY <1>1, <5>1 DEF Adds, StillShut
        <5>3. reached'[t] \subseteq reached[t] \cup {x}
              BY <1>1, <5>1 DEF Adds, Reach
        <5>. QED BY <5>2, <5>3 DEF GateStopsLaterCalls
      <4>. QED BY <2>3, <4>1, <4>2
    <3>. QED BY <2>1, <2>3, <3>1, <3>2 DEF StillShut, GateStopsLaterCalls
  <2>. QED BY <1>3, <2>2, <2>3, StepHistory DEF history
<1>4. CASE \/ \E n \in Notifiers : Close(n) \/ DropNotifier(n)
           \/ \E l \in Links : DropGate(l)
           \/ \E s \in Sinks : DropSink(s)
  <2>1. UNCHANGED <<stack, shut, reached>>
        BY <1>4, OwnersTypeOK DEF calls
  <2>2. \A l \in Links : ~gate[l] => ~gate'[l]
        BY <1>1, <1>4 DEF Close, DropNotifier, DropGate, DropSink
  <2>. QED BY <1>1, <2>1, <2>2 DEF StillShut, GateStopsLaterCalls, Busy
<1>5. CASE UNCHANGED vars
      BY <1>5 DEF vars, StillShut, GateStopsLaterCalls, Busy
<1>. QED BY <1>2, <1>3, <1>4, <1>5 DEF Next

(* "drop the Gate when no more messages should be delivered" (gate.rs:9-12): a *)
(* call that begins after the drop passes nothing through the gate, wherever   *)
(* in the network the gate is and whatever other calls are in progress.        *)
THEOREM GateStopsLaterCallsHolds == Spec => []GateStopsLaterCalls
<1>. QED BY InitTypeOK, NextTypeOK, InitShut, NextShut, PTL DEF Spec

------------------------------------------------------------------------------
(* No batch is swallowed. *)

(* What a call holds to have been connected all through is connected, except  *)
(* that a link with nothing steady to pass on to may have been removed.       *)
SteadyOK ==
    \A t \in Threads :
      /\ \A n \in steady[t] \cap Notifiers : owned[n] /\ open[n]
      /\ \A s \in steady[t] \cap Sinks : alive[s]
      /\ \A l \in steady[t] \cap Links :
           gate[l] /\ (l \in members[From[l]] \/ To[l] \cap steady[t] = {})
      /\ call[t] # "notify" => steady[t] = {} /\ reached[t] = {}

Gone(x) == IF x \in Sinks THEN ~alive[x] ELSE ~owned[x]

(* A link that is going to answer FALSE has found nobody there.               *)
NoFalseDeath ==
    \A t \in Threads : \A i \in DOMAIN stack[t] :
      LET f == stack[t][i]
      IN  f.link # None /\ ~f.answer => \A x \in To[f.link] \ f.targets : Gone(x)

(* An activation has still to pass on to what a link is for.                  *)
Carries(t, i, l) ==
    LET f == stack[t][i]
    IN  /\ f.at = From[l] /\ l \in f.left
        /\ f.link = l => To[l] \cap steady[t] \subseteq Informed(t, l) \cup f.targets

(* Where a batch has come to, a steady link has told all that is steady and   *)
(* that it leads to, or an activation has still to see to it.                 *)
Carried(t, l) ==
    \/ To[l] \cap steady[t] \subseteq Informed(t, l)
    \/ \E i \in DOMAIN stack[t] : Carries(t, i, l)

CarriedOK ==
    \A t \in Threads :
      /\ \A i \in DOMAIN stack[t] :
           stack[t][i].mode = "send" /\ Batch(t) => stack[t][i].at \in reached[t]
      /\ \A l \in steady[t] \cap Links : From[l] \in reached[t] => Carried(t, l)

LEMMA InitComplete == Init => SteadyOK /\ NoFalseDeath /\ CarriedOK
<1>. SUFFICES ASSUME Init PROVE SteadyOK /\ NoFalseDeath /\ CarriedOK
     OBVIOUS
<1>1. \A t \in Threads : stack[t] = <<>> /\ DOMAIN stack[t] = {} /\ steady[t] = {} /\ reached[t] = {}
      BY DEF Init
<1>. QED BY <1>1 DEF SteadyOK, NoFalseDeath, CarriedOK

(* A step of a call that goes on only adds to what its links have told.       *)
LEMMA StepPassed ==
  ASSUME TypeOK, NEW t \in Threads, Step(t), ~Leave(t)
  PROVE  passed' = passed \/ \E l, x : Pass(t, l, x)
<1>1. CASE CallSink(t)
      BY <1>1, CallSinkTop
<1>2. CASE ReturnToForwarder(t)
      BY <1>2 DEF ReturnToForwarder
<1>. QED BY <1>1, <1>2 DEF Step, AcquireRead, Panic, AcquireWrite, Receive, CallForwarder,
                           LinkDone, Return

(* What a step of a call leaves of the others'.                               *)
LEMMA OthersKeep ==
  ASSUME TypeOK, NEW t \in Threads, Step(t), NEW u \in Threads \ {t}
  PROVE  /\ stack'[u] = stack[u] /\ call'[u] = call[u] /\ steady'[u] = steady[u]
         /\ reached'[u] = reached[u] /\ passed'[u] = passed[u]
<1>1. /\ stack \in [Threads -> Seq(Frames)] /\ call \in [Threads -> Calls]
      /\ steady \in [Threads -> SUBSET (Nodes \cup Links)]
      /\ reached \in [Threads -> SUBSET (Notifiers \cup Links)]
      /\ passed \in [Threads -> SUBSET (Links \X Nodes)]
      BY DEF TypeOK
<1>2. CASE Leave(t)
      BY <1>1, <1>2 DEF Leave
<1>3. CASE ~Leave(t)
  <2>1. stack'[u] = stack[u]
        BY <1>3, StepShapes, OthersStacks
  <2>2. UNCHANGED <<steady, call>> /\ (UNCHANGED reached \/ \E x : Adds(t, x))
        BY <1>3, StepHistory DEF history
  <2>3. reached'[u] = reached[u]
        BY <1>1, <2>2 DEF Adds, Reach
  <2>4. passed'[u] = passed[u]
    <3>1. CASE \E l, x : Pass(t, l, x)
      <4>1. PICK l, x : Pass(t, l, x)
            BY <3>1
      <4>. QED BY <1>1, <4>1 DEF Pass
    <3>. QED BY <1>3, <3>1, StepPassed
  <2>. QED BY <2>1, <2>2, <2>3, <2>4
<1>. QED BY <1>2, <1>3

(* ... and of its own, until it is over.                                      *)
LEMMA OwnKeep ==
  ASSUME TypeOK, NEW t \in Threads, Step(t)
  PROVE  \/ /\ stack'[t] = <<>> /\ steady'[t] = {} /\ reached'[t] = {} /\ call'[t] = "none"
         \/ /\ call' = call /\ steady' = steady /\ reached[t] \subseteq reached'[t]
            /\ call[t] # "notify" => reached'[t] = reached[t]
<1>1. /\ stack \in [Threads -> Seq(Frames)] /\ call \in [Threads -> Calls]
      /\ steady \in [Threads -> SUBSET (Nodes \cup Links)]
      /\ reached \in [Threads -> SUBSET (Notifiers \cup Links)]
      BY DEF TypeOK
<1>2. CASE Leave(t)
      BY <1>1, <1>2 DEF Leave
<1>3. CASE ~Leave(t)
  <2>1. UNCHANGED <<steady, call>> /\ (UNCHANGED reached \/ \E x : Adds(t, x))
        BY <1>3, StepHistory DEF history
  <2>2. CASE \E x : Adds(t, x)
    <3>1. PICK x : Adds(t, x)
          BY <2>2
    <3>. QED BY <1>1, <2>1, <3>1 DEF Adds, Reach, Batch
  <2>. QED BY <2>1, <2>2
<1>. QED BY <1>2, <1>3

(* Only a link without a gate, or with nobody left to pass on to, is removed. *)
LEMMA Removed ==
  ASSUME TypeOK, NoFalseDeath, NEW t \in Threads, Step(t),
         NEW l \in Links, l \in members[From[l]], l \notin members'[From[l]]
  PROVE  ~gate[l] \/ \A x \in To[l] : Gone(x)
<1>1. members \in [Notifiers -> SUBSET Links] /\ From[l] \in Notifiers
      BY DEF TypeOK
<1>2. members' # members
      OBVIOUS
<1>3. ASSUME NEW k, NEW answer, NEW f \in Frames, Goes(t, k, answer, f)
      PROVE  k = l /\ ~answer
  <2>1. ~answer /\ members' = [members EXCEPT ![f.at] = @ \ {k}]
        BY <1>2, <1>3 DEF Goes
  <2>. QED BY <1>1, <2>1
<1>4. CASE Receive(t)
  <2>1. PICK k \in Top(t).left : ~gate[k] /\ \E f \in Frames : Goes(t, k, FALSE, f)
        BY <1>2, <1>4, ReceiveTop
  <2>2. PICK f \in Frames : Goes(t, k, FALSE, f)
        BY <2>1
  <2>3. members' = [members EXCEPT ![f.at] = @ \ {k}]
        BY <1>2, <2>2 DEF Goes
  <2>4. k = l
        BY <1>1, <2>3
  <2>. QED BY <2>1, <2>4
<1>5. CASE LinkDone(t)
  <2>1. /\ Top(t).link = l /\ ~Top(t).answer /\ Top(t).targets = {}
        BY <1>3, <1>5, LinkDoneTop
  <2>2. Busy(t) /\ l # None
        BY <1>5 DEF LinkDone
  <2>3. Depth(t) \in DOMAIN stack[t] /\ Top(t) = stack[t][Depth(t)]
        BY <2>2, TopType DEF Top
  <2>. QED BY <2>1, <2>2, <2>3 DEF NoFalseDeath
<1>6. CASE Return(t)
      BY <1>1, <1>6 DEF Return
<1>7. members' = members \/ Receive(t) \/ LinkDone(t) \/ Return(t)
      BY DEF Step, AcquireRead, Panic, AcquireWrite, CallSink, CallForwarder,
             ReturnToForwarder, network
<1>. QED BY <1>2, <1>4, <1>5, <1>6, <1>7

LEMMA BeginOwn ==
  ASSUME TypeOK, StillShut, NEW t \in Threads, BeginCall(t)
  PROVE  /\ UNCHANGED <<open, owned, members, gate, alive, reached, passed>>
         /\ reached[t] = {} /\ Len(stack'[t]) = 1 /\ \E n \in Notifiers : stack'[t][1] = Frame(n)
         /\ steady'[t] = (IF call'[t] = "notify" THEN Connected ELSE {})
         /\ \A u \in Threads \ {t} :
              stack'[u] = stack[u] /\ call'[u] = call[u] /\ steady'[u] = steady[u]
<1>1. /\ stack \in [Threads -> Seq(Frames)] /\ call \in [Threads -> Calls]
      /\ steady \in [Threads -> SUBSET (Nodes \cup Links)]
      /\ From \in [Links -> Notifiers]
      BY DEF TypeOK
<1>2. \E n \in Notifiers, c \in Calls, l \in Links \cup {None} : Begin(t, c, n, l)
  <2>1. ASSUME NEW n \in Notifiers, BeginNotify(t, n) \/ BeginCount(t, n)
        PROVE  Begin(t, "notify", n, None) \/ Begin(t, "count", n, None)
        BY <2>1 DEF BeginNotify, BeginCount
  <2>2. ASSUME NEW l \in Links, BeginListen(t, l)
        PROVE  Begin(t, "listen", From[l], l) /\ From[l] \in Notifiers
        BY <1>1, <2>2 DEF BeginListen
  <2>3. /\ "notify" \in Calls /\ "count" \in Calls /\ "listen" \in Calls
        /\ None \in Links \cup {None} /\ \A l \in Links : l \in Links \cup {None}
        BY DEF Calls
  <2>. QED BY <2>1, <2>2, <2>3, Zenon DEF BeginCall
<1>2b. PICK n \in Notifiers, c \in Calls, l \in Links \cup {None} : Begin(t, c, n, l)
      BY <1>2
<1>3. UNCHANGED <<open, owned, members, gate, alive, reached, passed>> /\ reached[t] = {}
      BY <1>2b DEF Begin, StillShut
<1>4. stack' = [stack EXCEPT ![t] = <<Frame(n)>>]
      BY <1>2b DEF Begin
<1>5. call' = [call EXCEPT ![t] = c] /\ steady' = [steady EXCEPT ![t] = IF c = "notify" THEN Connected ELSE {}]
      BY <1>2b DEF Begin
<1>6. Len(stack'[t]) = 1 /\ stack'[t][1] = Frame(n)
      BY <1>1, <1>4
<1>7. steady'[t] = (IF call'[t] = "notify" THEN Connected ELSE {})
      BY <1>1, <1>5
<1>8. \A u \in Threads \ {t} :
        stack'[u] = stack[u] /\ call'[u] = call[u] /\ steady'[u] = steady[u]
      BY <1>1, <1>4, <1>5
<1>. QED BY <1>3, <1>6, <1>7, <1>8

LEMMA NextSteady == TypeOK /\ StillShut /\ SteadyOK /\ NoFalseDeath /\ [Next]_vars => SteadyOK'
<1> SUFFICES ASSUME TypeOK, StillShut, SteadyOK, NoFalseDeath, [Next]_vars PROVE SteadyOK'
    OBVIOUS
<1>1. /\ members \in [Notifiers -> SUBSET Links] /\ gate \in [Links -> BOOLEAN]
      /\ owned \in [Notifiers -> BOOLEAN] /\ open \in [Notifiers -> BOOLEAN]
      /\ alive \in [Sinks -> BOOLEAN] /\ steady \in [Threads -> SUBSET (Nodes \cup Links)]
      /\ From \in [Links -> Notifiers] /\ To \in [Links -> SUBSET Nodes]
      BY DEF TypeOK
<1>2. ASSUME NEW t \in Threads, BeginCall(t) PROVE SteadyOK'
  <2>1. /\ \A n \in Connected \cap Notifiers : owned[n] /\ open[n]
        /\ \A s \in Connected \cap Sinks : alive[s]
        /\ \A l \in Connected \cap Links : gate[l] /\ l \in members[From[l]]
        BY Disjoint DEF Connected
  <2>. QED BY <1>2, <2>1, BeginOwn DEF SteadyOK
<1>3. ASSUME NEW t \in Threads, Step(t) PROVE SteadyOK'
  <2>1. UNCHANGED <<open, owned, gate, alive>>
        BY <1>3, StepHistory
  <2>2. ASSUME NEW u \in Threads, NEW l \in steady[u] \cap Links
        PROVE  l \in members'[From[l]] \/ To[l] \cap steady[u] = {}
    <3>1. CASE l \in members[From[l]] /\ l \notin members'[From[l]]
      <4>1. \A x \in To[l] : Gone(x)
            BY <1>3, <3>1, Removed DEF SteadyOK
      <4>. QED BY <1>1, <4>1, Disjoint DEF SteadyOK, Gone, Nodes
    <3>. QED BY <3>1 DEF SteadyOK
  <2>3. \A u \in Threads : /\ steady'[u] = steady[u] \/ steady'[u] = {}
                           /\ call'[u] # "notify" => steady'[u] = {} /\ reached'[u] = {}
        BY <1>3, OthersKeep, OwnKeep DEF SteadyOK
  <2>4. ASSUME NEW u \in Threads
        PROVE  /\ \A n \in steady'[u] \cap Notifiers : owned'[n] /\ open'[n]
               /\ \A s \in steady'[u] \cap Sinks : alive'[s]
               /\ \A l \in steady'[u] \cap Links :
                    gate'[l] /\ (l \in members'[From[l]] \/ To[l] \cap steady'[u] = {})
        BY <2>1, <2>2, <2>3 DEF SteadyOK
  <2>. QED BY <2>3, <2>4 DEF SteadyOK
<1>4. ASSUME NEW n \in Notifiers, Close(n) PROVE SteadyOK'
  <2>1. /\ open' = [open EXCEPT ![n] = FALSE] /\ members' = [members EXCEPT ![n] = {}]
        /\ steady' = [u \in Threads |-> steady[u] \ ({n} \cup members[n])]
        /\ UNCHANGED <<owned, gate, alive, call, reached>>
        BY <1>4 DEF Close, Disconnect, calls
  <2>. QED BY <1>1, <2>1 DEF SteadyOK
<1>5. ASSUME NEW n \in Notifiers, DropNotifier(n) PROVE SteadyOK'
  <2>1. /\ owned' = [owned EXCEPT ![n] = FALSE]
        /\ steady' = [u \in Threads |-> steady[u] \ {n}]
        /\ UNCHANGED <<open, members, gate, alive, call, reached>>
        BY <1>5 DEF DropNotifier, Disconnect, calls
  <2>. QED BY <1>1, <2>1 DEF SteadyOK
<1>6. ASSUME NEW l \in Links, DropGate(l) PROVE SteadyOK'
  <2>1. /\ gate' = [gate EXCEPT ![l] = FALSE]
        /\ steady' = [u \in Threads |-> steady[u] \ {l}]
        /\ UNCHANGED <<open, owned, members, alive, call, reached>>
        BY <1>6 DEF DropGate, Disconnect, calls
  <2>. QED BY <1>1, <2>1 DEF SteadyOK
<1>7. ASSUME NEW s \in Sinks, DropSink(s) PROVE SteadyOK'
  <2>1. /\ alive' = [alive EXCEPT ![s] = FALSE]
        /\ steady' = [u \in Threads |-> steady[u] \ {s}]
        /\ UNCHANGED <<open, owned, members, gate, call, reached>>
        BY <1>7 DEF DropSink, Disconnect, calls
  <2>. QED BY <1>1, <2>1 DEF SteadyOK
<1>8. CASE UNCHANGED vars
      BY <1>8 DEF vars, SteadyOK
<1>. QED BY <1>2, <1>3, <1>4, <1>5, <1>6, <1>7, <1>8 DEF Next

(* A target is told of a batch and is there, or answers FALSE and is not.      *)
LEMMA NextNoFalseDeath == TypeOK /\ StillShut /\ NoFalseDeath /\ [Next]_vars => NoFalseDeath'
<1> SUFFICES ASSUME TypeOK, StillShut, NoFalseDeath, [Next]_vars PROVE NoFalseDeath'
    OBVIOUS
<1>1. ASSUME UNCHANGED stack, \A x : Gone(x) => Gone(x)' PROVE NoFalseDeath'
      BY <1>1 DEF NoFalseDeath
<1>2. ASSUME NEW t \in Threads, BeginCall(t) PROVE NoFalseDeath'
  <2>1. PICK n \in Notifiers : Len(stack'[t]) = 1 /\ stack'[t][1] = Frame(n)
        BY <1>2, BeginOwn
  <2>2. stack'[t] \in Seq(Frames)
        BY NextTypeOK DEF TypeOK
  <2>3. \A i \in DOMAIN stack'[t] : stack'[t][i].link = None
        BY <2>1, <2>2 DEF Frame
  <2>4. UNCHANGED <<alive, owned>> /\ \A u \in Threads \ {t} : stack'[u] = stack[u]
        BY <1>2, BeginOwn
  <2>. QED BY <2>3, <2>4 DEF NoFalseDeath, Gone
<1>3. ASSUME NEW t \in Threads, Step(t) PROVE NoFalseDeath'
  <2>1. UNCHANGED <<alive, owned>> /\ \A u \in Threads \ {t} : stack'[u] = stack[u]
        BY <1>3, StepHistory, OthersKeep
  <2>. SUFFICES ASSUME NEW i \in DOMAIN stack'[t], stack'[t][i].link # None, ~stack'[t][i].answer
                PROVE  \A x \in To[stack'[t][i].link] \ stack'[t][i].targets : Gone(x)
       BY <2>1 DEF NoFalseDeath, Gone
  <2>2. Busy(t)
        BY <1>3, StepShapes
  <2>3. ASSUME NEW f \in Frames, TopBecomes(t, f), f.at = Top(t).at,
               \/ f.link = None
               \/ To[f.link] \subseteq f.targets
               \/ /\ f.link = Top(t).link /\ (Top(t).answer => f.answer)
                  /\ ~f.answer => \A x \in Top(t).targets \ f.targets : Gone(x)
        PROVE  \A x \in To[stack'[t][i].link] \ stack'[t][i].targets : Gone(x)
    <3>1. /\ Depth(t) \in Nat \ {0} /\ Top(t) = stack[t][Depth(t)]
          /\ DOMAIN stack[t] = 1..Depth(t) /\ DOMAIN stack'[t] = 1..Depth(t)
          /\ stack'[t][Depth(t)] = f
          /\ \A k \in 1..Depth(t) : k # Depth(t) => stack'[t][k] = stack[t][k]
          BY <2>2, <2>3, TopStays
    <3>2. CASE i # Depth(t)
          BY <3>1, <3>2 DEF NoFalseDeath
    <3>3. CASE i = Depth(t)
      <4>1. Depth(t) \in DOMAIN stack[t]
            BY <3>1
      <4>. QED BY <2>3, <3>1, <3>3, <4>1 DEF NoFalseDeath
    <3>. QED BY <3>2, <3>3
  <2>4. ASSUME NEW l, NEW answer, NEW f \in Frames, Goes(t, l, answer, f)
        PROVE  \A x \in To[stack'[t][i].link] \ stack'[t][i].targets : Gone(x)
        BY <2>3, <2>4 DEF Goes
  <2>5. ASSUME NEW x, NEW answer \in BOOLEAN, NEW f \in Frames, Hears(t, x, answer, f), ~answer => Gone(x)
        PROVE  \A y \in To[stack'[t][i].link] \ stack'[t][i].targets : Gone(y)
        BY <2>3, <2>5 DEF Hears
  <2>6. CASE AcquireRead(t)
        BY <2>3, <2>6, AcquireReadTop
  <2>7. CASE AcquireWrite(t)
        BY <2>3, <2>7, AcquireWriteTop
  <2>8. CASE Receive(t)
    <3>1. PICK l \in Top(t).left :
            \/ \E f \in Frames : /\ TopBecomes(t, f) /\ f.at = Top(t).at
                                 /\ f.link = l /\ f.targets = To[l]
            \/ \E f \in Frames : Goes(t, l, FALSE, f)
          BY <2>8, ReceiveTop
    <3>. QED BY <2>3, <2>4, <3>1
  <2>9. CASE CallSink(t)
    <3>1. PICK s \in Top(t).targets \cap Sinks : \E f \in Frames : Hears(t, s, alive[s], f)
          BY <2>9, CallSinkTop
    <3>2. alive[s] \in BOOLEAN /\ (~alive[s] => Gone(s))
          BY DEF TypeOK, Gone
    <3>. QED BY <2>5, <3>1, <3>2
  <2>10. CASE CallForwarder(t)
    <3>1. PICK n \in Top(t).targets \cap Notifiers :
            Pushes(t, n) \/ (~owned[n] /\ \E f \in Frames : Hears(t, n, FALSE, f))
          BY <2>10, CallForwarderTop
    <3>2. CASE ~owned[n] /\ \E f \in Frames : Hears(t, n, FALSE, f)
          BY <2>5, <3>2, Disjoint DEF Gone
    <3>3. CASE Pushes(t, n)
      <4>1. /\ Depth(t) \in Nat \ {0} /\ DOMAIN stack[t] = 1..Depth(t)
            /\ DOMAIN stack'[t] = 1..(Depth(t) + 1)
            /\ \A k \in 1..Depth(t) : stack'[t][k] = stack[t][k]
            /\ stack'[t][Depth(t) + 1] = Frame(n)
            BY <2>2, <3>3, TopType DEF Pushes, OthersStay
      <4>2. i # Depth(t) + 1
            BY <4>1 DEF Frame
      <4>3. i \in 1..Depth(t)
            BY <4>1, <4>2
      <4>. QED BY <4>1, <4>3 DEF NoFalseDeath
    <3>. QED BY <3>1, <3>2, <3>3
  <2>11. CASE LinkDone(t)
        BY <2>4, <2>11, LinkDoneTop
  <2>12. CASE ReturnToForwarder(t)
    <3>1. Pops(t)
          BY <2>12, Popped
    <3>2. /\ Depth(t) \in Nat \ {0, 1} /\ DOMAIN stack[t] = 1..Depth(t)
          /\ DOMAIN stack'[t] = 1..(Depth(t) - 1)
          BY <2>2, <3>1, TopType DEF Pops, OthersStay
    <3>3. Below(t).answer
      <4>1. stack[t][Depth(t) - 1] \in Frames
            BY <2>2, <3>2, TopType
      <4>. QED BY <4>1 DEF Below, Frames
    <3>4. i # Depth(t) - 1
          BY <3>1, <3>3 DEF Pops
    <3>5. i \in 1..(Depth(t) - 2) /\ i \in 1..Depth(t)
          BY <3>2, <3>4
    <3>. QED BY <3>1, <3>2, <3>5 DEF Pops, NoFalseDeath
  <2>13. CASE Leave(t)
    <3>1. stack'[t] = <<>>
          BY <2>13 DEF Leave, TypeOK
    <3>. QED BY <3>1
  <2>. QED BY <1>3, <2>6, <2>7, <2>8, <2>9, <2>10, <2>11, <2>12, <2>13 DEF Step, Panic, Return
<1>4. ASSUME NEW n \in Notifiers, Close(n) PROVE NoFalseDeath'
      BY <1>1, <1>4 DEF Close, calls, Gone
<1>5. ASSUME NEW n \in Notifiers, DropNotifier(n) PROVE NoFalseDeath'
  <2>1. owned \in [Notifiers -> BOOLEAN] /\ owned' = [owned EXCEPT ![n] = FALSE]
        BY <1>5 DEF TypeOK, DropNotifier
  <2>2. \A x : ~owned[x] => ~owned'[x]
        BY <2>1
  <2>. QED BY <1>1, <1>5, <2>2 DEF DropNotifier, calls, Gone
<1>6. ASSUME NEW l \in Links, DropGate(l) PROVE NoFalseDeath'
      BY <1>1, <1>6 DEF DropGate, calls, Gone
<1>7. ASSUME NEW s \in Sinks, DropSink(s) PROVE NoFalseDeath'
  <2>1. alive \in [Sinks -> BOOLEAN] /\ alive' = [alive EXCEPT ![s] = FALSE]
        BY <1>7 DEF TypeOK, DropSink
  <2>2. \A x \in Sinks : ~alive[x] => ~alive'[x]
        BY <2>1
  <2>. QED BY <1>1, <1>7, <2>2 DEF DropSink, calls, Gone
<1>8. CASE UNCHANGED vars
      BY <1>1, <1>8 DEF vars, Gone
<1>. QED BY <1>2, <1>3, <1>4, <1>5, <1>6, <1>7, <1>8 DEF Next

(* The duty of t alone.                                                       *)
Comes(t) ==
    \A i \in DOMAIN stack[t] : stack[t][i].mode = "send" /\ Batch(t) => stack[t][i].at \in reached[t]
Sees(t) == \A l \in steady[t] \cap Links : From[l] \in reached[t] => Carried(t, l)

LEMMA TypesOf ==
  ASSUME TypeOK
  PROVE  /\ members \in [Notifiers -> SUBSET Links] /\ gate \in [Links -> BOOLEAN]
         /\ owned \in [Notifiers -> BOOLEAN] /\ alive \in [Sinks -> BOOLEAN]
         /\ steady \in [Threads -> SUBSET (Nodes \cup Links)]
         /\ reached \in [Threads -> SUBSET (Notifiers \cup Links)]
         /\ passed \in [Threads -> SUBSET (Links \X Nodes)]
         /\ From \in [Links -> Notifiers] /\ To \in [Links -> SUBSET Nodes]
  BY DEF TypeOK

(* Whatever the other activations have to see to, they go on seeing to; the   *)
(* innermost one hands its duty to what takes its place.                      *)
LEMMA TopCarries ==
  ASSUME TypeOK, SteadyOK, NEW t \in Threads, Busy(t), Comes(t), Sees(t),
         NEW f \in Frames, TopBecomes(t, f), f.at = Top(t).at,
         UNCHANGED <<call, steady>>, reached[t] \subseteq reached'[t], passed[t] \subseteq passed'[t],
         f.mode = "send" /\ Batch(t) => Top(t).mode = "send" \/ f.at \in reached'[t],
         \A l \in steady[t] \cap Links :
           /\ From[l] \in reached[t] /\ Carries(t, Depth(t), l) =>
                To[l] \cap steady[t] \subseteq Informed(t, l)' \/ Carries(t, Depth(t), l)'
           /\ From[l] \in reached'[t] \ reached[t] =>
                To[l] \cap steady[t] \subseteq Informed(t, l)' \/ Carries(t, Depth(t), l)'
  PROVE  Comes(t)' /\ Sees(t)'
<1>1. /\ Depth(t) \in Nat \ {0} /\ Top(t) = stack[t][Depth(t)]
      /\ DOMAIN stack[t] = 1..Depth(t) /\ DOMAIN stack'[t] = 1..Depth(t)
      /\ stack'[t][Depth(t)] = f /\ Depth(t) \in 1..Depth(t)
      /\ \A k \in 1..Depth(t) : k # Depth(t) => stack'[t][k] = stack[t][k]
      BY TopStays
<1>g. \A l : Informed(t, l) \subseteq Informed(t, l)'
      BY DEF Informed
<1>2. ASSUME NEW l, Carries(t, Depth(t), l)' PROVE Carried(t, l)'
  <2>1. Depth(t)' \in DOMAIN stack'[t]
        BY <1>1 DEF TopBecomes, Depth
  <2>. QED BY <1>2, <2>1 DEF Carried, Carries
<1>3. ASSUME NEW i \in DOMAIN stack'[t], stack'[t][i].mode = "send", Batch(t)'
      PROVE  stack'[t][i].at \in reached'[t]
  <2>1. Batch(t)
        BY <1>3 DEF Batch
  <2>2. CASE i = Depth(t)
        BY <1>1, <1>3, <2>1, <2>2 DEF Comes
  <2>3. CASE i # Depth(t)
        BY <1>1, <1>3, <2>1, <2>3 DEF Comes
  <2>. QED BY <2>2, <2>3
<1>4. ASSUME NEW l \in steady'[t] \cap Links, From[l] \in reached'[t]
      PROVE  Carried(t, l)'
  <2>1. CASE From[l] \notin reached[t]
    <3>1. To[l] \cap steady[t] \subseteq Informed(t, l)' \/ Carries(t, Depth(t), l)'
          BY <1>4, <2>1
    <3>2. CASE To[l] \cap steady[t] \subseteq Informed(t, l)'
          BY <3>2 DEF Carried
    <3>. QED BY <1>2, <3>1, <3>2
  <2>2. CASE From[l] \in reached[t] /\ To[l] \cap steady[t] \subseteq Informed(t, l)
        BY <1>g, <2>2 DEF Carried
  <2>3. ASSUME From[l] \in reached[t], NEW i \in DOMAIN stack[t], Carries(t, i, l)
        PROVE  Carried(t, l)'
    <3>1. CASE i = Depth(t)
      <4>1. To[l] \cap steady[t] \subseteq Informed(t, l)' \/ Carries(t, Depth(t), l)'
            BY <1>4, <2>3, <3>1
      <4>2. CASE To[l] \cap steady[t] \subseteq Informed(t, l)'
            BY <4>2 DEF Carried
      <4>. QED BY <1>2, <4>1, <4>2
    <3>2. CASE i # Depth(t)
      <4>1. stack'[t][i] = stack[t][i] /\ i \in DOMAIN stack'[t]
            BY <1>1, <3>2
      <4>2. Carries(t, i, l)'
            BY <1>g, <2>3, <4>1 DEF Carries
      <4>. QED BY <4>1, <4>2 DEF Carried
    <3>. QED BY <3>1, <3>2
  <2>. QED BY <1>4, <2>1, <2>2, <2>3 DEF Sees, Carried
<1>. QED BY <1>3, <1>4 DEF Comes, Sees

LEMMA GoesCarries ==
  ASSUME TypeOK, SteadyOK, NEW t \in Threads, Busy(t), Comes(t), Sees(t),
         NEW k, NEW answer, NEW f \in Frames, Goes(t, k, answer, f), Top(t).mode # "lock",
         UNCHANGED <<call, steady, reached, passed>>,
         k \in steady[t] \cap Links =>
           Top(t).link = k /\ Top(t).targets = {}
  PROVE  Comes(t)' /\ Sees(t)'
<1>1. TopBecomes(t, f) /\ f.at = Top(t).at /\ f.link = None
      BY DEF Goes
<1>2. f.mode = "send" => Top(t).mode = "send"
      BY DEF Goes
<1>3. /\ Top(t) = stack[t][Depth(t)] /\ stack'[t][Depth(t)] = f /\ FrameOK(t, Depth(t))
      /\ Depth(t)' = Depth(t)
      BY <1>1, TopStays, TopType DEF TopBecomes, Depth
<1>g. \A l : Informed(t, l)' = Informed(t, l)
      BY DEF Informed
<1>4. ASSUME NEW l \in steady[t] \cap Links, Carries(t, Depth(t), l)
      PROVE  To[l] \cap steady[t] \subseteq Informed(t, l)' \/ Carries(t, Depth(t), l)'
  <2>1. CASE l = k
        BY <1>g, <1>3, <1>4, <2>1 DEF Carries
  <2>2. CASE l # k
    <3>1. Top(t).mode = "send"
          BY <1>3, <1>4, TopType DEF SteadyOK, FrameOK, Frames
    <3>2. f.left = Top(t).left \ {k}
          BY <3>1 DEF Goes
    <3>3. l # None
          OBVIOUS
    <3>. QED BY <1>g, <1>1, <1>3, <1>4, <2>2, <3>2, <3>3 DEF Carries
  <2>. QED BY <2>1, <2>2
<1>. QED BY <1>1, <1>2, <1>4, TopCarries

LEMMA HearsCarries ==
  ASSUME TypeOK, SteadyOK, NEW t \in Threads, Busy(t), Comes(t), Sees(t),
         NEW x, NEW answer, NEW f \in Frames, Hears(t, x, answer, f),
         UNCHANGED <<call, steady, reached>>, passed[t] \subseteq passed'[t],
         x \in steady[t] => <<Top(t).link, x>> \in passed'[t]
  PROVE  Comes(t)' /\ Sees(t)'
<1>1. TopBecomes(t, f) /\ f.at = Top(t).at /\ f.mode = Top(t).mode
      BY DEF Hears
<1>2. /\ Top(t) = stack[t][Depth(t)] /\ stack'[t][Depth(t)] = f
      BY <1>1, TopStays
<1>3. Depth(t)' = Depth(t)
      BY <1>1 DEF TopBecomes, Depth
<1>4. ASSUME NEW l \in steady[t] \cap Links, Carries(t, Depth(t), l)
      PROVE  Carries(t, Depth(t), l)'
  <2>1. f.link = l => To[l] \cap steady[t] \subseteq Informed(t, l)' \cup f.targets
        BY <1>2, <1>4 DEF Carries, Hears, Informed
  <2>. QED BY <1>2, <1>3, <1>4, <2>1 DEF Carries, Hears
<1>. QED BY <1>1, <1>4, TopCarries

LEMMA StepCarried ==
  ASSUME TypeOK, SteadyOK, NoFalseDeath, CarriedOK, NEW t \in Threads, Step(t)
  PROVE  Comes(t)' /\ Sees(t)'
<1>1. Busy(t) /\ Comes(t) /\ Sees(t)
      BY StepShapes DEF CarriedOK, Comes, Sees
<1>2. /\ Depth(t) \in Nat \ {0} /\ Top(t) = stack[t][Depth(t)] /\ Top(t) \in Frames
      /\ DOMAIN stack[t] = 1..Depth(t) /\ Depth(t) \in DOMAIN stack[t] /\ FrameOK(t, Depth(t))
      BY <1>1, TopType DEF Top
<1>3. CASE Leave(t)
  <2>1. stack'[t] = <<>> /\ steady'[t] = {} /\ DOMAIN <<>> = {}
        BY <1>3 DEF Leave, TypeOK
  <2>. QED BY <2>1 DEF Comes, Sees
<1>. SUFFICES ASSUME ~Leave(t) PROVE Comes(t)' /\ Sees(t)'
     BY <1>3
<1>4. UNCHANGED <<call, steady>> /\ (UNCHANGED reached \/ \E x : Adds(t, x))
      BY StepHistory DEF history
<1>5. /\ reached[t] \subseteq reached'[t] /\ passed[t] \subseteq passed'[t]
      /\ call[t] # "notify" => steady[t] = {}
  <2>1. passed[t] \subseteq passed'[t]
        BY StepPassed, TypesOf DEF Pass
  <2>. QED BY <1>4, <2>1, TypesOf DEF Adds, Reach, SteadyOK
<1>g. \A l : Informed(t, l) \subseteq Informed(t, l)'
      BY <1>5 DEF Informed
<1>6. CASE AcquireRead(t)
  <2>1. PICK f \in Frames : /\ TopBecomes(t, f) /\ f.at = Top(t).at /\ f.mode = "send"
                            /\ f.left = members[f.at] /\ f.link = None
        BY <1>6, AcquireReadTop
  <2>2. Top(t).mode = "lock" /\ Top(t).left = {} /\ Reach(t, Top(t).at)
        BY <1>2, <1>6 DEF AcquireRead, Inside, FrameOK
  <2>3. /\ Batch(t) => f.at \in reached'[t]
        /\ reached'[t] \subseteq reached[t] \cup {f.at}
        BY <2>1, <2>2, TypesOf DEF Reach
  <2>4. stack'[t][Depth(t)] = f
        BY <1>1, <2>1, TopStays
  <2>5. ASSUME NEW l \in steady[t] \cap Links, From[l] \in reached'[t] \ reached[t]
        PROVE  To[l] \cap steady[t] \subseteq Informed(t, l)' \/ Carries(t, Depth(t), l)'
    <3>1. From[l] = f.at /\ l # None
          BY <2>3, <2>5
    <3>2. CASE l \in members[f.at]
      <4>1. Depth(t)' = Depth(t)
            BY <2>1 DEF TopBecomes, Depth
      <4>. QED BY <2>1, <2>4, <3>1, <3>2, <4>1 DEF Carries
    <3>3. CASE l \notin members[f.at]
          BY <3>1, <3>3 DEF SteadyOK
    <3>. QED BY <3>2, <3>3
  <2>6. \A l : ~Carries(t, Depth(t), l)
        BY <1>2, <2>2 DEF Carries
  <2>. QED BY <1>1, <1>4, <1>5, <2>1, <2>3, <2>5, <2>6, TopCarries
<1>7. CASE AcquireWrite(t)
  <2>1. call[t] # "notify"
        BY <1>7 DEF AcquireWrite, Writes
  <2>2. steady'[t] = {} /\ ~Batch(t)'
        BY <1>4, <1>5, <2>1 DEF Batch
  <2>. QED BY <2>2 DEF Comes, Sees
<1>8. CASE Receive(t)
  <2>1. PICK l \in Top(t).left :
          /\ l \in Links /\ Top(t).link = None /\ Top(t).mode # "lock"
          /\ \/ /\ gate[l] /\ Reach(t, l) /\ UNCHANGED members
                /\ \E f \in Frames :
                     /\ TopBecomes(t, f) /\ f.at = Top(t).at /\ f.mode = Top(t).mode
                     /\ f.left = Top(t).left /\ f.link = l /\ f.targets = To[l]
             \/ /\ ~gate[l] /\ UNCHANGED reached
                /\ \E f \in Frames : Goes(t, l, FALSE, f)
        BY <1>8, ReceiveTop
  <2>2. CASE /\ Reach(t, l)
             /\ \E f \in Frames :
                  /\ TopBecomes(t, f) /\ f.at = Top(t).at /\ f.mode = Top(t).mode
                  /\ f.left = Top(t).left /\ f.link = l /\ f.targets = To[l]
    <3>1. PICK f \in Frames :
            /\ TopBecomes(t, f) /\ f.at = Top(t).at /\ f.mode = Top(t).mode
            /\ f.left = Top(t).left /\ f.link = l /\ f.targets = To[l]
          BY <2>2
    <3>2. reached'[t] \subseteq reached[t] \cup {l}
          BY <2>2, TypesOf DEF Reach
    <3>3. stack'[t][Depth(t)] = f
          BY <1>1, <3>1, TopStays
    <3>4. Depth(t)' = Depth(t)
          BY <3>1 DEF TopBecomes, Depth
    <3>5. ASSUME NEW k \in steady[t] \cap Links, Carries(t, Depth(t), k)
          PROVE  Carries(t, Depth(t), k)'
          BY <1>2, <3>1, <3>3, <3>4, <3>5 DEF Carries
    <3>6. \A k \in Links : From[k] \notin reached'[t] \ reached[t]
      <4>1. l \notin Notifiers
            BY <2>1, Disjoint
      <4>. QED BY <3>2, <4>1
    <3>. QED BY <1>1, <1>4, <1>5, <3>1, <3>5, <3>6, TopCarries
  <2>3. CASE ~gate[l] /\ UNCHANGED reached /\ \E f \in Frames : Goes(t, l, FALSE, f)
    <3>1. l \notin steady[t]
          BY <2>1, <2>3 DEF SteadyOK
    <3>2. UNCHANGED passed
          BY <1>8 DEF Receive
    <3>. QED BY <1>1, <1>4, <2>1, <2>3, <3>1, <3>2, GoesCarries
  <2>. QED BY <2>1, <2>2, <2>3
<1>9. CASE CallSink(t)
  <2>1. PICK s \in Top(t).targets \cap Sinks :
          /\ IF alive[s] THEN Pass(t, Top(t).link, s) ELSE UNCHANGED passed
          /\ \E f \in Frames : Hears(t, s, alive[s], f)
        BY <1>9, CallSinkTop
  <2>2. s \in steady[t] => <<Top(t).link, s>> \in passed'[t]
    <3>1. ASSUME s \in steady[t] PROVE <<Top(t).link, s>> \in passed'[t]
      <4>1. alive[s] /\ Batch(t)
            BY <1>5, <2>1, <3>1 DEF SteadyOK, Batch
      <4>. QED BY <2>1, <4>1, TypesOf DEF Pass
    <3>. QED BY <3>1
  <2>3. UNCHANGED reached
        BY <1>9 DEF CallSink
  <2>. QED BY <1>1, <1>4, <1>5, <2>1, <2>2, <2>3, HearsCarries
<1>10. CASE CallForwarder(t)
  <2>1. PICK n \in Top(t).targets \cap Notifiers :
          Pushes(t, n) \/ (~owned[n] /\ \E f \in Frames : Hears(t, n, FALSE, f))
        BY <1>10, CallForwarderTop
  <2>2. UNCHANGED <<reached, passed>>
        BY <1>10 DEF CallForwarder
  <2>3. CASE ~owned[n] /\ \E f \in Frames : Hears(t, n, FALSE, f)
    <3>1. n \notin steady[t]
          BY <2>1, <2>3 DEF SteadyOK
    <3>. QED BY <1>1, <1>4, <1>5, <2>2, <2>3, <3>1, HearsCarries
  <2>4. CASE Pushes(t, n)
    <3>1. /\ DOMAIN stack'[t] = 1..(Depth(t) + 1)
          /\ \A k \in 1..Depth(t) : stack'[t][k] = stack[t][k]
          /\ stack'[t][Depth(t) + 1] = Frame(n)
          BY <1>2, <2>4 DEF Pushes, OthersStay
    <3>2. /\ \A k \in 1..(Depth(t) + 1) : k \in 1..Depth(t) \/ k = Depth(t) + 1
          /\ \A k \in 1..Depth(t) : k \in 1..(Depth(t) + 1)
          BY <1>2
    <3>3. Comes(t)'
      <4>1. Frame(n).mode # "send"
            BY DEF Frame
      <4>. QED BY <1>1, <1>2, <1>4, <2>2, <3>1, <3>2, <4>1 DEF Comes, Batch
    <3>4. ASSUME NEW l, NEW i \in DOMAIN stack[t], Carries(t, i, l)
          PROVE  i \in DOMAIN stack'[t] /\ Carries(t, i, l)'
          BY <1>2, <1>4, <1>g, <2>2, <3>1, <3>2, <3>4 DEF Carries
    <3>5. \A l : Carried(t, l) => Carried(t, l)'
          BY <1>4, <1>g, <2>2, <3>4 DEF Carried
    <3>. QED BY <1>1, <1>4, <2>2, <3>3, <3>5 DEF Sees
  <2>. QED BY <2>1, <2>3, <2>4
<1>11. CASE LinkDone(t)
  <2>1. PICK f \in Frames : Goes(t, Top(t).link, Top(t).answer, f)
        BY <1>11, LinkDoneTop
  <2>2. UNCHANGED <<reached, passed>>
        BY <1>11 DEF LinkDone
  <2>. QED BY <1>1, <1>4, <1>11, <2>1, <2>2, LinkDoneTop, GoesCarries
<1>12. CASE ReturnToForwarder(t)
  <2>1. Ascends(t) /\ UNCHANGED reached /\ Top(t).left = {} /\ Top(t).mode # "lock"
        BY <1>12, Popped DEF ReturnToForwarder, WalkOver, Ascends
  <2>2. /\ Depth(t) \in Nat \ {0, 1} /\ DOMAIN stack'[t] = 1..(Depth(t) - 1)
        /\ \A k \in 1..(Depth(t) - 1) :
             stack'[t][k].at = stack[t][k].at /\ stack'[t][k].mode = stack[t][k].mode
        BY <1>1, <2>1, PopShape
  <2>3. Top(t).mode = "send"
        BY <1>2, <2>1, <2>2 DEF FrameOK, Frames
  <2>4. \A k \in 1..(Depth(t) - 1) : k \in 1..Depth(t)
        BY <2>2
  <2>5. Comes(t)'
        BY <1>1, <1>2, <1>4, <2>1, <2>2, <2>4 DEF Comes, Batch
  <2>6. ASSUME NEW l \in steady[t] \cap Links, NEW i \in DOMAIN stack[t], Carries(t, i, l)
        PROVE  i \in DOMAIN stack'[t] /\ Carries(t, i, l)'
    <3>1. i # Depth(t)
          BY <1>2, <2>1, <2>6 DEF Carries
    <3>2. CASE i = Depth(t) - 1
      <4>1. stack'[t][i] = Below(t)
            BY <2>1, <3>2 DEF Ascends, Pops
      <4>2. LET g == stack[t][i]
            IN  /\ Below(t).at = g.at /\ Below(t).left = g.left /\ Below(t).link = g.link
                /\ Below(t).targets = g.targets \ {Top(t).at}
        <5>1. stack[t][Depth(t) - 1] \in Frames
              BY <1>1, <2>2, TopType
        <5>. QED BY <3>2, <5>1 DEF Below, Frames
      <4>3. <<stack[t][i].link, Top(t).at>> \in passed'[t]
        <5>1. Batch(t) /\ Pass(t, stack[t][i].link, Top(t).at)
              BY <1>5, <1>12, <3>2 DEF Batch, ReturnToForwarder
        <5>. QED BY <5>1, TypesOf DEF Pass
      <4>4. Below(t).link = l => To[l] \cap steady[t] \subseteq Informed(t, l)' \cup Below(t).targets
            BY <1>5, <2>6, <4>2, <4>3 DEF Carries, Informed
      <4>5. Carries(t, i, l)'
            BY <1>4, <2>1, <2>6, <4>1, <4>2, <4>4 DEF Carries
      <4>. QED BY <2>2, <3>2, <4>5
    <3>3. CASE i \in 1..(Depth(t) - 2)
      <4>1. stack'[t][i] = stack[t][i]
            BY <2>1, <3>3 DEF Ascends, Pops
      <4>. QED BY <1>4, <1>g, <2>1, <2>2, <2>6, <3>3, <4>1 DEF Carries
    <3>. QED BY <1>2, <2>2, <2>6, <3>1, <3>2, <3>3
  <2>7. \A l \in steady[t] \cap Links : Carried(t, l) => Carried(t, l)'
        BY <1>4, <1>g, <2>1, <2>6 DEF Carried
  <2>. QED BY <1>1, <1>4, <2>1, <2>5, <2>7 DEF Sees
<1>. QED BY <1>6, <1>7, <1>8, <1>9, <1>10, <1>11, <1>12 DEF Step, Panic, Return

LEMMA NextCarried ==
  TypeOK /\ StillShut /\ SteadyOK /\ NoFalseDeath /\ CarriedOK /\ [Next]_vars => CarriedOK'
<1> SUFFICES ASSUME TypeOK, StillShut, SteadyOK, NoFalseDeath, CarriedOK, [Next]_vars
             PROVE  CarriedOK'
    OBVIOUS
<1>1. /\ CarriedOK <=> \A t \in Threads : Comes(t) /\ Sees(t)
      /\ CarriedOK' <=> \A t \in Threads : Comes(t)' /\ Sees(t)'
      BY DEF CarriedOK, Comes, Sees
<1>2. ASSUME NEW t \in Threads,
             stack'[t] = stack[t], call'[t] = call[t], reached'[t] = reached[t], passed'[t] = passed[t],
             steady'[t] \subseteq steady[t]
      PROVE  Comes(t)' /\ Sees(t)'
  <2>1. \A i, l : Carries(t, i, l) => Carries(t, i, l)'
        BY <1>2 DEF Carries, Informed
  <2>2. \A l : Carried(t, l) => Carried(t, l)'
        BY <1>2, <2>1 DEF Carried, Informed
  <2>. QED BY <1>1, <1>2, <2>2 DEF Comes, Sees, Batch
<1>3. ASSUME NEW t \in Threads, BeginCall(t) PROVE CarriedOK'
  <2>1. PICK n \in Notifiers : Len(stack'[t]) = 1 /\ stack'[t][1] = Frame(n)
        BY <1>3, BeginOwn
  <2>2. stack'[t] \in Seq(Frames)
        BY NextTypeOK DEF TypeOK
  <2>3. \A i \in DOMAIN stack'[t] : stack'[t][i].mode # "send"
        BY <2>1, <2>2 DEF Frame
  <2>4. reached'[t] = {} /\ reached' = reached /\ passed' = passed
        BY <1>3, BeginOwn
  <2>5. Comes(t)' /\ Sees(t)'
        BY <2>3, <2>4 DEF Comes, Sees
  <2>. QED BY <1>1, <1>2, <1>3, <2>4, <2>5, BeginOwn
<1>4. ASSUME NEW t \in Threads, Step(t) PROVE CarriedOK'
      BY <1>1, <1>2, <1>4, StepCarried, OthersKeep
<1>5. CASE \/ \E n \in Notifiers : Close(n) \/ DropNotifier(n)
           \/ \E l \in Links : DropGate(l)
           \/ \E s \in Sinks : DropSink(s)
  <2>1. UNCHANGED <<stack, call, reached, passed>>
        BY <1>5, OwnersTypeOK DEF calls
  <2>2. \A t \in Threads : steady'[t] \subseteq steady[t]
        BY <1>5 DEF Close, DropNotifier, DropGate, DropSink, Disconnect
  <2>. QED BY <1>1, <1>2, <2>1, <2>2
<1>6. CASE UNCHANGED vars
      BY <1>1, <1>2, <1>6 DEF vars
<1>. QED BY <1>3, <1>4, <1>5, <1>6 DEF Next

(* The outermost activation of a walk that is over has nothing left to see to. *)
LEMMA AllSeenTo == TypeOK /\ CarriedOK => Complete
<1> SUFFICES ASSUME TypeOK, CarriedOK, NEW t \in Threads, WalkOver(t), Depth(t) = 1,
                    NEW l \in steady[t] \cap Links, From[l] \in reached[t]
             PROVE  To[l] \cap steady[t] \subseteq Informed(t, l)
    BY DEF Complete
<1>1. Carried(t, l)
      BY DEF CarriedOK
<1>2. \A i \in DOMAIN stack[t] : i = 1
      BY TopType DEF WalkOver
<1>3. stack[t][1].left = {}
      BY DEF WalkOver, Top
<1>. QED BY <1>1, <1>2, <1>3 DEF Carried, Carries

(* Wherever a notify() that is about to return has come to, it has gone on to *)
(* everything that was connected all through the call, whatever was closed,   *)
(* dropped, registered or removed by others meanwhile, in every network       *)
(* without cycles.                                                            *)
THEOREM CompleteHolds == Spec => []Complete
<1>1. TypeOK /\ StillShut /\ GateStopsLaterCalls /\ SteadyOK /\ NoFalseDeath /\ CarriedOK
        /\ [Next]_vars
      => (TypeOK /\ StillShut /\ GateStopsLaterCalls /\ SteadyOK /\ NoFalseDeath /\ CarriedOK)'
      BY NextTypeOK, NextShut, NextSteady, NextNoFalseDeath, NextCarried
<1>. QED BY <1>1, InitTypeOK, InitShut, InitComplete, AllSeenTo, PTL DEF Spec
==============================================================================
