--------------------------- MODULE ThreadsProofs ---------------------------
(***************************************************************************)
(* Proofs about Threads, for any finite set of threads, whoever sends to,  *)
(* stops and clears whom, and any number of calls.                         *)
(***************************************************************************)
EXTENDS Threads, FiniteSetTheorems, WellFoundedInduction, TLAPS

LoopPCs == {"loop", "queue", "check", "wait", "exited", "joined"}
SendPCs == {"push", "wake", "test", "recv", "swait"}

-----------------------------------------------------------------------------
(* The inductive invariant *)

\* Calls alternate: a handler sends or joins, and a Send is re-entered by a handler of
\* its target.
Alternate(f, g) ==
  \/ f.op = "Send" /\ g.op = "Handle" /\ g.peer = f.peer
  \/ f.op \in {"Handle", "Dispatch"} /\ g.op \in {"Send", "Join"}

\* Where a thread is tells which call is innermost.
Fits(t) ==
  /\ pc[t] \in LoopPCs <=> Depth(t) = 0
  /\ pc[t] = "run" => Top(t).op \in {"Handle", "Dispatch"}
  /\ pc[t] \in SendPCs => Top(t).op = "Send"
  /\ pc[t] = "join" => Top(t).op = "Join"

Shape(t) ==
  /\ Depth(t) > 0 => stack[t][1].op \in {"Handle", "Dispatch"}
  /\ \A i \in 1 .. Depth(t) - 1 : Alternate(stack[t][i], stack[t][i + 1])

StackInv == \A t \in ThreadSet : Fits(t) /\ Shape(t)

\* Calls are numbered when they are put into the list, each with a new number.
CallsInv ==
  /\ sent + Cardinality({t \in ThreadSet : pc[t] = "push"}) <= MaxSends
  /\ ready \subseteq 1 .. sent
  /\ \A t \in ThreadSet : \A i \in 1 .. Depth(t) :
       stack[t][i].op = "Send" =>
         /\ stack[t][i].id \in 0 .. sent
         /\ stack[t][i].id = 0 <=> i = Depth(t) /\ pc[t] = "push"

\* A call is in one Send and in at most one handler.
FramesDistinct ==
  \A t, u \in ThreadSet : \A i \in 1 .. Depth(t), j \in 1 .. Depth(u) :
    /\ stack[t][i].op = stack[u][j].op /\ stack[t][i].op \in {"Send", "Handle"}
    /\ stack[t][i].id = stack[u][j].id /\ stack[t][i].id # 0
    => t = u /\ i = j

\* A message of e is just going to be announced to its target.
Announced(e) == pc[e.from] = "wake" /\ Top(e.from).id = e.id

\* The Send at i of thread t has tested its flag and will not do so again before it
\* was woken up.
Tested(t, i) == stack[t][i].op = "Send" /\ (i < Depth(t) \/ pc[t] \in {"recv", "swait"})

\* A wake-up that t has had, or one that a Send above i has consumed and will give back.
WillWake(t, i) ==
  woken[t] \/ \E j \in i + 1 .. Depth(t) : stack[t][j].op = "Send" /\ stack[t][j].waited

\* A thread that has looked for work and was not woken up since then has none.
Quiet(t) ==
  /\ pc[t] \in {"queue", "check", "wait"} /\ ~woken[t] => \A e \in sendlist[t] : Announced(e)
  /\ pc[t] \in {"check", "wait"} /\ ~woken[t] => msgs[t] = 0
  /\ pc[t] = "wait" /\ ~woken[t] => ~fStop[t]
  /\ pc[t] = "swait" /\ ~woken[t] => \A e \in SentBy(t, Top(t).peer) : Announced(e)

\* A flag set after it was tested came with a wake-up that is not lost.
FlagWakes(t) ==
  \A i \in 1 .. Depth(t) : Tested(t, i) /\ stack[t][i].id \in ready => WillWake(t, i)

WakeInv == \A t \in ThreadSet : Quiet(t) /\ FlagWakes(t)

Inv ==
  /\ TypeOK /\ StackInv /\ CallsInv /\ FramesDistinct
  /\ NoDanglingReady /\ NoSendForgotten /\ WakeInv

-----------------------------------------------------------------------------
(* Frames and stacks *)

SendFrame == [op : {"Send"}, id : 0 .. MaxSends, peer : ThreadSet, waited : BOOLEAN]

LEMMA FrameFacts ==
  ASSUME NEW f \in Frame
  PROVE  /\ f.op \in {"Send", "Handle", "Join", "Dispatch"}
         /\ f.op = "Send" => f \in SendFrame
         /\ f.op = "Handle" => f.id \in Ids /\ f.peer \in ThreadSet
         /\ f.op = "Join" => f.peer \in ThreadSet
BY DEF Frame, SendFrame

\* Thread t calls something, with the frame f.
Pushed(t, f) ==
  /\ \A v \in ThreadSet \ {t} : stack'[v] = stack[v]
  /\ Len(stack'[t]) = Depth(t) + 1 /\ stack'[t][Depth(t) + 1] = f
  /\ \A i \in 1 .. Depth(t) : stack'[t][i] = stack[t][i]

\* The innermost call of thread t returns.
Popped(t) ==
  /\ \A v \in ThreadSet \ {t} : stack'[v] = stack[v]
  /\ Len(stack'[t]) = Depth(t) - 1
  /\ \A i \in 1 .. Depth(t) - 1 : stack'[t][i] = stack[t][i]

\* The innermost call of thread t goes on, with the frame f.
Replaced(t, f) ==
  /\ \A v \in ThreadSet \ {t} : stack'[v] = stack[v]
  /\ Len(stack'[t]) = Depth(t) /\ stack'[t][Depth(t)] = f
  /\ \A i \in 1 .. Depth(t) - 1 : stack'[t][i] = stack[t][i]

StackType == stack \in [ThreadSet -> Seq(Frame)]

LEMMA DepthType ==
  ASSUME TypeOK, NEW t \in ThreadSet
  PROVE  Depth(t) \in Nat /\ \A i \in 1 .. Depth(t) : stack[t][i] \in Frame
BY DEF TypeOK, Depth

LEMMA EnteredPushes ==
  ASSUME TypeOK, NEW t \in ThreadSet, NEW f \in Frame, stack' = Entered(t, f)
  PROVE  StackType' /\ Pushed(t, f)
<1>1. stack[t] \in Seq(Frame)
  BY DEF TypeOK
<1>2. stack' = [stack EXCEPT ![t] = Append(stack[t], f)]
  BY DEF Entered
<1>3. stack'[t] = Append(stack[t], f) /\ \A v \in ThreadSet \ {t} : stack'[v] = stack[v]
  BY <1>2 DEF TypeOK
<1>4. StackType'
  BY <1>1, <1>2 DEF TypeOK, StackType
<1> QED
  BY <1>1, <1>3, <1>4 DEF Pushed, Depth

LEMMA LeftPops ==
  ASSUME TypeOK, NEW t \in ThreadSet, Depth(t) > 0, stack' = Left(t)
  PROVE  StackType' /\ Popped(t)
<1>1. stack[t] \in Seq(Frame) /\ Len(stack[t]) \in Nat /\ Len(stack[t]) > 0
  BY DEF TypeOK, Depth
<1> DEFINE q == SubSeq(stack[t], 1, Len(stack[t]) - 1)
<1>2. q \in Seq(Frame) /\ Len(q) = Len(stack[t]) - 1 /\ \A i \in 1 .. Len(stack[t]) - 1 : q[i] = stack[t][i]
  BY <1>1
<1>3. stack' = [stack EXCEPT ![t] = q]
  BY DEF Left
<1> HIDE DEF q
<1>4. stack'[t] = q /\ \A v \in ThreadSet \ {t} : stack'[v] = stack[v]
  BY <1>3 DEF TypeOK
<1>5. StackType'
  BY <1>2, <1>3 DEF TypeOK, StackType
<1> QED
  BY <1>2, <1>4, <1>5 DEF Popped, Depth

LEMMA ExceptReplaces ==
  ASSUME TypeOK, NEW t \in ThreadSet, Depth(t) > 0, NEW f \in Frame,
         stack' = [stack EXCEPT ![t] = [@ EXCEPT ![Depth(t)] = f]]
  PROVE  StackType' /\ Replaced(t, f)
<1>1. stack[t] \in Seq(Frame) /\ Len(stack[t]) \in Nat /\ Len(stack[t]) > 0
  BY DEF TypeOK, Depth
<1> DEFINE q == [stack[t] EXCEPT ![Depth(t)] = f]
<1>2. /\ q \in Seq(Frame) /\ Len(q) = Len(stack[t]) /\ q[Depth(t)] = f
      /\ \A i \in 1 .. Len(stack[t]) - 1 : q[i] = stack[t][i]
  BY <1>1 DEF Depth
<1>3. stack' = [stack EXCEPT ![t] = q]
  OBVIOUS
<1> HIDE DEF q
<1>4. stack'[t] = q /\ \A v \in ThreadSet \ {t} : stack'[v] = stack[v]
  BY <1>3 DEF TypeOK
<1>5. StackType'
  BY <1>2, <1>3 DEF TypeOK, StackType
<1> QED
  BY <1>2, <1>4, <1>5 DEF Replaced, Depth

-----------------------------------------------------------------------------
(* What the actions do to the stacks *)

\* Only t moves; other threads at most start or end.
OnlyMoves(t) ==
  \A v \in ThreadSet \ {t} : pc'[v] = pc[v] \/ (pc[v] \in LoopPCs /\ pc'[v] \in {"loop", "joined"})

LEMMA GotoMoves ==
  ASSUME TypeOK, NEW t \in ThreadSet, NEW where \in PCs, Goto(t, where)
  PROVE  /\ pc' \in [ThreadSet -> PCs] /\ pc'[t] = where
         /\ \A v \in ThreadSet \ {t} : pc'[v] = pc[v]
         /\ OnlyMoves(t)
BY DEF TypeOK, Goto, OnlyMoves

LEMMA WakeUpWakes ==
  ASSUME TypeOK, NEW S, WakeUp(S)
  PROVE  /\ woken' \in [ThreadSet -> BOOLEAN]
         /\ \A t \in ThreadSet : woken'[t] <=> woken[t] \/ t \in S
BY DEF TypeOK, WakeUp

LEMMA MinimumExists ==
  ASSUME NEW T \in SUBSET Nat, T # {}
  PROVE  \E x \in T : \A y \in T : x <= y
<1> DEFINE R == OpToRel(<, Nat)
<1>1. \A x, y \in Nat : <<y, x>> \notin R => x <= y
  BY DEF OpToRel
<1>2. IsWellFoundedOn(R, Nat)
  BY NatLessThanWellFounded
<1> HIDE DEF R
<1>3. \E x \in T : \A y \in T : ~(<<y, x>> \in R)
  BY <1>2, WFMin
<1> QED
  BY <1>1, <1>3

HandleFrame(e) == [op |-> "Handle", id |-> e.id, peer |-> e.from]

\* A message is taken out of the list, and its handler is called.
LEMMA HandleTakes ==
  ASSUME TypeOK, NEW t \in ThreadSet, NEW S \in SUBSET sendlist[t], S # {}, Handle(t, S)
  PROVE  \E e \in S :
           /\ sendlist' = [sendlist EXCEPT ![t] = @ \ {e}]
           /\ stack' = Entered(t, HandleFrame(e)) /\ HandleFrame(e) \in Frame
           /\ Goto(t, "run")
<1> DEFINE T == {x.id : x \in S}
           e == CHOOSE x \in S : \A y \in S : x.id <= y.id
<1>1. \A x \in S : x.id \in Ids /\ x.from \in ThreadSet
  BY DEF TypeOK
<1>2. T \in SUBSET Nat /\ T # {}
  BY <1>1 DEF Ids
<1> HIDE DEF T
<1>3. \E x \in T : \A y \in T : x <= y
  BY <1>2, MinimumExists
<1>4. \E x \in S : \A y \in S : x.id <= y.id
  BY <1>3 DEF T
<1>5. e \in S
  BY <1>4
<1>6. /\ sendlist' = [sendlist EXCEPT ![t] = @ \ {e}]
      /\ stack' = Entered(t, HandleFrame(e)) /\ Goto(t, "run")
  BY DEF Handle, HandleFrame
<1> HIDE DEF e
<1>7. HandleFrame(e) \in Frame
  BY <1>1, <1>5 DEF HandleFrame, Frame
<1> QED
  BY <1>5, <1>6, <1>7

LEMMA BeginSendStack ==
  ASSUME TypeOK, NEW t \in ThreadSet, NEW u \in ThreadSet, BeginSend(t, u)
  PROVE  /\ StackType' /\ Pushed(t, [op |-> "Send", id |-> 0, peer |-> u, waited |-> FALSE])
         /\ pc'[t] = "push" /\ OnlyMoves(t) /\ pc' \in [ThreadSet -> PCs]
<1>1. [op |-> "Send", id |-> 0, peer |-> u, waited |-> FALSE] \in Frame
  BY ThreadsAssumption DEF Frame
<1> QED
  BY <1>1, EnteredPushes, GotoMoves DEF BeginSend, PCs

LEMMA PushSendStack ==
  ASSUME TypeOK, StackInv, sent < MaxSends, NEW t \in ThreadSet, PushSend(t)
  PROVE  /\ StackType' /\ Replaced(t, [Top(t) EXCEPT !.id = sent + 1]) /\ Top(t) \in SendFrame
         /\ pc'[t] = "wake" /\ OnlyMoves(t) /\ pc' \in [ThreadSet -> PCs]
<1>1. Depth(t) > 0 /\ Top(t) \in SendFrame
  BY FrameFacts, DepthType DEF StackInv, Fits, PushSend, SendPCs, LoopPCs, Top
<1>2. [Top(t) EXCEPT !.id = sent + 1] \in Frame
  <2>1. sent + 1 \in 0 .. MaxSends
    BY ThreadsAssumption DEF TypeOK
  <2> QED
    BY <1>1, <2>1 DEF Frame, SendFrame
<1>3. stack' = [stack EXCEPT ![t] = [@ EXCEPT ![Depth(t)] = [Top(t) EXCEPT !.id = sent + 1]]]
  BY DEF PushSend, Top
<1>4. pc'[t] = "wake" /\ OnlyMoves(t) /\ pc' \in [ThreadSet -> PCs]
  BY GotoMoves DEF PushSend, PCs
<1> QED
  BY <1>1, <1>2, <1>3, <1>4, ExceptReplaces

LEMMA EndSendWaitStack ==
  ASSUME TypeOK, StackInv, NEW t \in ThreadSet, EndSendWait(t)
  PROVE  /\ StackType' /\ Replaced(t, [Top(t) EXCEPT !.waited = TRUE]) /\ Top(t) \in SendFrame
         /\ pc'[t] = "test" /\ OnlyMoves(t) /\ pc' \in [ThreadSet -> PCs]
<1>1. Depth(t) > 0 /\ Top(t) \in SendFrame
  BY FrameFacts, DepthType DEF StackInv, Fits, EndSendWait, SendPCs, LoopPCs, Top
<1>2. [Top(t) EXCEPT !.waited = TRUE] \in Frame
  BY <1>1 DEF Frame, SendFrame
<1>3. stack' = [stack EXCEPT ![t] = [@ EXCEPT ![Depth(t)] = [Top(t) EXCEPT !.waited = TRUE]]]
  BY DEF EndSendWait, Top
<1>4. pc'[t] = "test" /\ OnlyMoves(t) /\ pc' \in [ThreadSet -> PCs]
  BY GotoMoves DEF EndSendWait, PCs
<1> QED
  BY <1>1, <1>2, <1>3, <1>4, ExceptReplaces

LEMMA EndSendStack ==
  ASSUME TypeOK, StackInv, NEW t \in ThreadSet, pc[t] \in SendPCs, EndSend(t)
  PROVE  /\ StackType' /\ Popped(t) /\ Top(t) \in SendFrame /\ Depth(t) > 0
         /\ pc'[t] = "run" /\ OnlyMoves(t) /\ pc' \in [ThreadSet -> PCs]
<1>1. Depth(t) > 0 /\ Top(t) \in SendFrame
  BY FrameFacts, DepthType DEF StackInv, Fits, SendPCs, LoopPCs, Top
<1> QED
  BY <1>1, LeftPops, GotoMoves DEF EndSend, PCs

LEMMA ReturnStack ==
  ASSUME TypeOK, StackInv, NEW t \in ThreadSet, Return(t)
  PROVE  /\ StackType' /\ Popped(t) /\ Depth(t) > 0 /\ Top(t).op \in {"Handle", "Dispatch"}
         /\ pc'[t] = (IF Depth(t) > 1 THEN "recv" ELSE "loop")
         /\ OnlyMoves(t) /\ pc' \in [ThreadSet -> PCs]
<1>1. Depth(t) > 0 /\ Top(t).op \in {"Handle", "Dispatch"}
  BY DEF Return, StackInv, Fits
<1>2. (IF Depth(t) > 1 THEN "recv" ELSE "loop") \in PCs
  BY DEF PCs
<1> QED
  BY <1>1, <1>2, LeftPops, GotoMoves DEF Return

LEMMA TakePostedStack ==
  ASSUME TypeOK, NEW t \in ThreadSet, TakePosted(t), msgs[t] > 0
  PROVE  /\ StackType' /\ Pushed(t, [op |-> "Dispatch"])
         /\ pc'[t] = "run" /\ OnlyMoves(t) /\ pc' \in [ThreadSet -> PCs]
<1>1. [op |-> "Dispatch"] \in Frame
  BY DEF Frame
<1> QED
  BY <1>1, EnteredPushes, GotoMoves DEF TakePosted, PCs

LEMMA StopStack ==
  ASSUME TypeOK, NEW t \in ThreadSet, NEW u \in ThreadSet, Stop(t, u)
  PROVE  /\ StackType' /\ Pushed(t, [op |-> "Join", peer |-> u])
         /\ pc'[t] = "join" /\ OnlyMoves(t) /\ pc' \in [ThreadSet -> PCs]
<1>1. [op |-> "Join", peer |-> u] \in Frame
  BY DEF Frame
<1> QED
  BY <1>1, EnteredPushes, GotoMoves DEF Stop, PCs

LEMMA EndJoinStack ==
  ASSUME TypeOK, StackInv, NEW t \in ThreadSet, EndJoin(t)
  PROVE  /\ StackType' /\ Popped(t) /\ Depth(t) > 0 /\ Top(t).op = "Join"
         /\ pc'[t] = "run" /\ OnlyMoves(t) /\ pc' \in [ThreadSet -> PCs]
<1>1. Depth(t) > 0 /\ Top(t).op = "Join"
  BY DepthType DEF EndJoin, StackInv, Fits, LoopPCs
<1>2. Top(t).peer \in ThreadSet
  BY <1>1, FrameFacts, DepthType DEF Top
<1>3. pc'[t] = "run" /\ OnlyMoves(t) /\ pc' \in [ThreadSet -> PCs]
  BY <1>2 DEF EndJoin, TypeOK, OnlyMoves, PCs, LoopPCs
<1> QED
  BY <1>1, <1>3, LeftPops DEF EndJoin

-----------------------------------------------------------------------------
(* The stacks *)

LEMMA OthersFit ==
  ASSUME StackInv, NEW t \in ThreadSet, OnlyMoves(t),
         \A v \in ThreadSet \ {t} : stack'[v] = stack[v], Fits(t)', Shape(t)'
  PROVE  StackInv'
<1> SUFFICES ASSUME NEW v \in ThreadSet \ {t} PROVE Fits(v)' /\ Shape(v)'
  BY DEF StackInv
<1>1. stack'[v] = stack[v] /\ Fits(v) /\ Shape(v)
  BY DEF StackInv
<1>2. Shape(v)'
  BY <1>1 DEF Shape, Depth
<1>3. CASE pc'[v] = pc[v]
  BY <1>1, <1>2, <1>3 DEF Fits, Depth, Top
<1>4. CASE pc[v] \in LoopPCs /\ pc'[v] \in {"loop", "joined"}
  BY <1>1, <1>2, <1>4 DEF Fits, Depth, Top, LoopPCs, SendPCs
<1> QED
  BY <1>2, <1>3, <1>4 DEF OnlyMoves

LEMMA PushKeepsStack ==
  ASSUME TypeOK, StackInv, NEW t \in ThreadSet, NEW f, Pushed(t, f), OnlyMoves(t),
         \/ f.op \in {"Handle", "Dispatch"} /\ pc'[t] = "run"
         \/ f.op = "Send" /\ pc'[t] \in SendPCs
         \/ f.op = "Join" /\ pc'[t] = "join",
         Depth(t) = 0 => f.op \in {"Handle", "Dispatch"},
         Depth(t) > 0 => Alternate(Top(t), f)
  PROVE  StackInv'
<1>1. Depth(t) \in Nat
  BY DepthType
<1>2. Depth(t)' = Depth(t) + 1 /\ Top(t)' = f
  BY <1>1 DEF Pushed, Depth, Top
<1>3. Fits(t)'
  BY <1>1, <1>2 DEF Fits, SendPCs, LoopPCs
<1>4. Shape(t)'
  <2>1. Shape(t)
    BY DEF StackInv
  <2>2. stack'[t][1].op \in {"Handle", "Dispatch"}
    BY <1>1, <2>1 DEF Shape, Pushed
  <2>3. ASSUME NEW i \in 1 .. Depth(t) PROVE Alternate(stack'[t][i], stack'[t][i + 1])
    <3>1. CASE i = Depth(t)
      BY <1>1, <2>3, <3>1 DEF Pushed, Top
    <3>2. CASE i < Depth(t)
      <4>1. i \in 1 .. Depth(t) /\ i + 1 \in 1 .. Depth(t) /\ i \in 1 .. Depth(t) - 1
        BY <1>1, <2>3, <3>2
      <4>2. stack'[t][i] = stack[t][i] /\ stack'[t][i + 1] = stack[t][i + 1]
        BY <4>1 DEF Pushed
      <4> QED
        BY <2>1, <4>1, <4>2 DEF Shape
    <3> QED
      BY <1>1, <2>3, <3>1, <3>2
  <2> QED
    BY <1>1, <1>2, <2>2, <2>3 DEF Shape, Alternate
<1> QED
  BY <1>3, <1>4, OthersFit DEF Pushed

LEMMA PopKeepsStack ==
  ASSUME TypeOK, StackInv, NEW t \in ThreadSet, Depth(t) > 0, Popped(t), OnlyMoves(t),
         \/ Depth(t) = 1 /\ pc'[t] = "loop"
         \/ Depth(t) > 1 /\ stack[t][Depth(t) - 1].op = "Send" /\ pc'[t] = "recv"
         \/ Depth(t) > 1 /\ stack[t][Depth(t) - 1].op \in {"Handle", "Dispatch"} /\ pc'[t] = "run"
  PROVE  StackInv'
<1>1. Depth(t) \in Nat /\ Depth(t)' = Depth(t) - 1
  BY DepthType DEF Popped, Depth
<1>2. Depth(t) > 1 => Top(t)' = stack[t][Depth(t) - 1]
  BY <1>1 DEF Popped, Depth, Top
<1>3. Fits(t)'
  BY <1>1, <1>2 DEF Fits, SendPCs, LoopPCs
<1>4. Shape(t)'
  <2>1. Shape(t)
    BY DEF StackInv
  <2>2. Depth(t)' > 0 => stack'[t][1].op \in {"Handle", "Dispatch"}
    BY <1>1, <2>1 DEF Shape, Popped
  <2>3. ASSUME NEW i \in 1 .. Depth(t)' - 1 PROVE Alternate(stack'[t][i], stack'[t][i + 1])
    <3>1. i \in 1 .. Depth(t) - 1 /\ i + 1 \in 1 .. Depth(t) - 1
      BY <1>1, <2>3
    <3>2. stack'[t][i] = stack[t][i] /\ stack'[t][i + 1] = stack[t][i + 1]
      BY <3>1 DEF Popped
    <3> QED
      BY <2>1, <3>1, <3>2 DEF Shape
  <2> QED
    BY <2>2, <2>3 DEF Shape, Alternate
<1> QED
  BY <1>3, <1>4, OthersFit DEF Popped

LEMMA ReplaceKeepsStack ==
  ASSUME TypeOK, StackInv, NEW t \in ThreadSet, Depth(t) > 0, NEW f, Replaced(t, f), OnlyMoves(t),
         Top(t).op = "Send", f.op = "Send", f.peer = Top(t).peer, pc'[t] \in SendPCs
  PROVE  StackInv'
<1>1. Depth(t) \in Nat /\ Depth(t)' = Depth(t) /\ Top(t)' = f
  BY DepthType DEF Replaced, Depth, Top
<1>2. Fits(t)'
  BY <1>1 DEF Fits, SendPCs, LoopPCs
<1>3. Shape(t)'
  <2>1. Shape(t)
    BY DEF StackInv
  <2>2. \A i \in 1 .. Depth(t) : stack'[t][i].op = stack[t][i].op
    BY <1>1 DEF Replaced, Top
  <2>3. ASSUME NEW i \in 1 .. Depth(t) - 1 PROVE Alternate(stack'[t][i], stack'[t][i + 1])
    <3>1. Alternate(stack[t][i], stack[t][i + 1]) /\ stack'[t][i] = stack[t][i]
      BY <2>1, <2>3 DEF Shape, Replaced
    <3>2. CASE i + 1 = Depth(t)
      BY <1>1, <2>2, <2>3, <3>1, <3>2 DEF Alternate, Replaced, Top
    <3>3. CASE i + 1 < Depth(t)
      BY <1>1, <2>3, <3>1, <3>3 DEF Replaced
    <3> QED
      BY <1>1, <2>3, <3>2, <3>3
  <2> QED
    BY <1>1, <2>1, <2>2, <2>3 DEF Shape, Alternate
<1> QED
  BY <1>2, <1>3, OthersFit DEF Replaced

LEMMA SameKeepsStack ==
  ASSUME StackInv, NEW t \in ThreadSet, OnlyMoves(t), stack' = stack,
         \/ pc[t] \in LoopPCs /\ pc'[t] \in LoopPCs
         \/ pc[t] \in SendPCs /\ pc'[t] \in SendPCs
         \/ pc'[t] = pc[t]
  PROVE  StackInv'
<1>1. Fits(t) /\ Shape(t)
  BY DEF StackInv
<1>2. Fits(t)' /\ Shape(t)'
  BY <1>1 DEF Fits, Shape, Depth, Top, LoopPCs, SendPCs
<1> QED
  BY <1>2, OthersFit

\* Thread t takes the message e from its send list and calls the handler.
Takes(t, e) ==
  /\ e \in sendlist[t] /\ sendlist' = [sendlist EXCEPT ![t] = @ \ {e}]
  /\ StackType' /\ Pushed(t, HandleFrame(e)) /\ HandleFrame(e) \in Frame
  /\ pc'[t] = "run" /\ OnlyMoves(t) /\ pc' \in [ThreadSet -> PCs]

LEMMA HandleIsTake ==
  ASSUME TypeOK, NEW t \in ThreadSet, NEW S \in SUBSET sendlist[t], S # {}, Handle(t, S)
  PROVE  \E e \in S : Takes(t, e)
<1>1. PICK e \in S : /\ sendlist' = [sendlist EXCEPT ![t] = @ \ {e}]
                     /\ stack' = Entered(t, HandleFrame(e)) /\ HandleFrame(e) \in Frame
                     /\ Goto(t, "run")
  BY HandleTakes
<1>2. StackType' /\ Pushed(t, HandleFrame(e))
  BY <1>1, EnteredPushes
<1>3. pc'[t] = "run" /\ OnlyMoves(t) /\ pc' \in [ThreadSet -> PCs]
  BY <1>1, GotoMoves DEF PCs
<1> QED
  BY <1>1, <1>2, <1>3 DEF Takes

LEMMA ReceiveFromTargetTakes ==
  ASSUME TypeOK, NEW t \in ThreadSet, ReceiveFromTarget(t), SentBy(t, Top(t).peer) # {}
  PROVE  \E e \in SentBy(t, Top(t).peer) : Takes(t, e)
<1>1. SentBy(t, Top(t).peer) \in SUBSET sendlist[t]
  BY DEF SentBy
<1> QED
  BY <1>1, HandleIsTake DEF ReceiveFromTarget

LEMMA ReceiveSendsTakes ==
  ASSUME TypeOK, NEW t \in ThreadSet, ReceiveSends(t), sendlist[t] # {}
  PROVE  \E e \in sendlist[t] : Takes(t, e)
BY HandleIsTake DEF ReceiveSends

\* Room for the number of every call that is just being made.
LEMMA PushHasRoom ==
  ASSUME TypeOK, CallsInv, NEW t \in ThreadSet, pc[t] = "push"
  PROVE  sent < MaxSends
<1> DEFINE P == {v \in ThreadSet : pc[v] = "push"}
<1>1. IsFiniteSet(P) /\ t \in P
  BY ThreadsAssumption, FS_Subset
<1>2. Cardinality(P) \in Nat /\ Cardinality(P) # 0
  BY <1>1, FS_CardinalityType, FS_EmptySet
<1>3. sent + Cardinality(P) <= MaxSends
  BY DEF CallsInv
<1> HIDE DEF P
<1> QED
  BY <1>2, <1>3, ThreadsAssumption DEF TypeOK

LEMMA StackStep ==
  ASSUME TypeOK, StackInv, CallsInv, [Next]_vars
  PROVE  StackInv'
<1>1. ASSUME NEW t \in ThreadSet, Post(t) \/ Clear(t) \/ Quit(t) PROVE StackInv'
  <2>1. stack' = stack /\ pc' = pc
    BY <1>1 DEF Post, Clear, Quit
  <2> QED
    BY <2>1, SameKeepsStack DEF OnlyMoves
<1>2. ASSUME NEW t \in ThreadSet, PushSend(t) PROVE StackInv'
  <2>1. pc[t] = "push" /\ sent < MaxSends
    BY <1>2, PushHasRoom DEF PushSend
  <2>2. Depth(t) > 0 /\ Top(t).op = "Send"
    BY <2>1, DepthType DEF StackInv, Fits, SendPCs, LoopPCs
  <2>3. /\ Replaced(t, [Top(t) EXCEPT !.id = sent + 1]) /\ Top(t) \in SendFrame
        /\ pc'[t] = "wake" /\ OnlyMoves(t)
    BY <1>2, <2>1, PushSendStack
  <2>4. /\ [Top(t) EXCEPT !.id = sent + 1].op = "Send"
        /\ [Top(t) EXCEPT !.id = sent + 1].peer = Top(t).peer
    BY <2>3 DEF SendFrame
  <2> QED
    BY <2>2, <2>3, <2>4, ReplaceKeepsStack DEF SendPCs
<1>3. ASSUME NEW t \in ThreadSet, WakeTarget(t) PROVE StackInv'
  BY <1>3, GotoMoves, SameKeepsStack DEF WakeTarget, PCs, SendPCs
<1>4. ASSUME NEW t \in ThreadSet, TestReady(t) PROVE StackInv'
  <2>1. CASE Top(t).id \in ready
    <3>1. EndSend(t) /\ pc[t] \in SendPCs
      BY <1>4, <2>1 DEF TestReady, SendPCs
    <3>2. Popped(t) /\ Top(t).op = "Send" /\ Depth(t) > 0 /\ pc'[t] = "run" /\ OnlyMoves(t)
      BY <3>1, EndSendStack DEF SendFrame
    <3>3. Depth(t) > 1 /\ stack[t][Depth(t) - 1].op \in {"Handle", "Dispatch"}
      BY <3>2, DepthType DEF StackInv, Shape, Alternate, Top
    <3> QED
      BY <3>2, <3>3, PopKeepsStack
  <2>2. CASE Top(t).id \notin ready
    BY <1>4, <2>2, GotoMoves, SameKeepsStack DEF TestReady, PCs, SendPCs
  <2> QED
    BY <2>1, <2>2
<1>5. ASSUME NEW t \in ThreadSet, ReceiveFromTarget(t) PROVE StackInv'
  <2>1. CASE SentBy(t, Top(t).peer) # {}
    <3>1. PICK e \in SentBy(t, Top(t).peer) : Takes(t, e)
      BY <1>5, <2>1, ReceiveFromTargetTakes
    <3>2. HandleFrame(e).op = "Handle" /\ HandleFrame(e).peer = Top(t).peer
      BY DEF SentBy, HandleFrame
    <3>3. Depth(t) > 0 /\ Top(t).op = "Send"
      BY <1>5, DepthType DEF ReceiveFromTarget, StackInv, Fits, SendPCs, LoopPCs
    <3>4. Alternate(Top(t), HandleFrame(e))
      BY <3>2, <3>3 DEF Alternate
    <3> QED
      BY <3>1, <3>2, <3>3, <3>4, PushKeepsStack DEF Takes
  <2>2. CASE SentBy(t, Top(t).peer) = {}
    BY <1>5, <2>2, GotoMoves, SameKeepsStack DEF ReceiveFromTarget, PCs, SendPCs
  <2> QED
    BY <2>1, <2>2
<1>6. ASSUME NEW t \in ThreadSet, EndSendWait(t) PROVE StackInv'
  <2>1. Depth(t) > 0 /\ Top(t).op = "Send"
    BY <1>6, DepthType DEF EndSendWait, StackInv, Fits, SendPCs, LoopPCs
  <2>2. /\ Replaced(t, [Top(t) EXCEPT !.waited = TRUE]) /\ Top(t) \in SendFrame
        /\ pc'[t] = "test" /\ OnlyMoves(t)
    BY <1>6, EndSendWaitStack
  <2>3. /\ [Top(t) EXCEPT !.waited = TRUE].op = "Send"
        /\ [Top(t) EXCEPT !.waited = TRUE].peer = Top(t).peer
    BY <2>2 DEF SendFrame
  <2> QED
    BY <2>1, <2>2, <2>3, ReplaceKeepsStack DEF SendPCs
<1>7. ASSUME NEW t \in ThreadSet, ReceiveSends(t) PROVE StackInv'
  <2>1. CASE sendlist[t] # {}
    <3>1. PICK e \in sendlist[t] : Takes(t, e)
      BY <1>7, <2>1, ReceiveSendsTakes
    <3>2. HandleFrame(e).op = "Handle"
      BY DEF HandleFrame
    <3>3. Depth(t) = 0
      BY <1>7 DEF ReceiveSends, StackInv, Fits, LoopPCs
    <3> QED
      BY <3>1, <3>2, <3>3, PushKeepsStack DEF Takes
  <2>2. CASE sendlist[t] = {}
    BY <1>7, <2>2, GotoMoves, SameKeepsStack DEF ReceiveSends, PCs, LoopPCs
  <2> QED
    BY <2>1, <2>2
<1>8. ASSUME NEW t \in ThreadSet, TakePosted(t) PROVE StackInv'
  <2>1. CASE msgs[t] > 0
    <3>1. Pushed(t, [op |-> "Dispatch"]) /\ pc'[t] = "run" /\ OnlyMoves(t)
      BY <1>8, <2>1, TakePostedStack
    <3>2. Depth(t) = 0 /\ [op |-> "Dispatch"].op = "Dispatch"
      BY <1>8 DEF TakePosted, StackInv, Fits, LoopPCs
    <3> QED
      BY <3>1, <3>2, PushKeepsStack
  <2>2. CASE ~(msgs[t] > 0)
    BY <1>8, <2>2, GotoMoves, SameKeepsStack DEF TakePosted, PCs, LoopPCs
  <2> QED
    BY <2>1, <2>2
<1>9. ASSUME NEW t \in ThreadSet, CheckStop(t) PROVE StackInv'
  <2>1. (IF fStop[t] THEN "exited" ELSE "wait") \in PCs \cap LoopPCs
    BY DEF PCs, LoopPCs
  <2> QED
    BY <1>9, <2>1, GotoMoves, SameKeepsStack DEF CheckStop, LoopPCs
<1>10. ASSUME NEW t \in ThreadSet, EndWait(t) PROVE StackInv'
  BY <1>10, GotoMoves, SameKeepsStack DEF EndWait, PCs, LoopPCs
<1>11. ASSUME NEW t \in ThreadSet, Return(t) PROVE StackInv'
  <2>1. /\ Popped(t) /\ Depth(t) > 0 /\ Top(t).op \in {"Handle", "Dispatch"}
        /\ pc'[t] = (IF Depth(t) > 1 THEN "recv" ELSE "loop") /\ OnlyMoves(t)
    BY <1>11, ReturnStack
  <2>2. Depth(t) > 1 => stack[t][Depth(t) - 1].op = "Send"
    BY <2>1, DepthType DEF StackInv, Shape, Alternate, Top
  <2>3. Depth(t) = 1 \/ Depth(t) > 1
    BY <2>1, DepthType
  <2> QED
    BY <2>1, <2>2, <2>3, PopKeepsStack
<1>12. ASSUME NEW t \in ThreadSet, EndJoin(t) PROVE StackInv'
  <2>1. Popped(t) /\ Depth(t) > 0 /\ Top(t).op = "Join" /\ pc'[t] = "run" /\ OnlyMoves(t)
    BY <1>12, EndJoinStack
  <2>2. Depth(t) > 1 /\ stack[t][Depth(t) - 1].op \in {"Handle", "Dispatch"}
    BY <2>1, DepthType DEF StackInv, Shape, Alternate, Top
  <2> QED
    BY <2>1, <2>2, PopKeepsStack
<1>13. ASSUME NEW t \in ThreadSet, NEW u \in ThreadSet, BeginSend(t, u) PROVE StackInv'
  <2> DEFINE f == [op |-> "Send", id |-> 0, peer |-> u, waited |-> FALSE]
  <2>1. f.op = "Send"
    OBVIOUS
  <2>2. Pushed(t, f) /\ pc'[t] = "push" /\ OnlyMoves(t)
    BY <1>13, BeginSendStack
  <2>3. Depth(t) # 0 /\ Top(t).op \in {"Handle", "Dispatch"}
    BY <1>13 DEF BeginSend, StackInv, Fits, LoopPCs
  <2> HIDE DEF f
  <2> QED
    BY <2>1, <2>2, <2>3, PushKeepsStack DEF Alternate, SendPCs
<1>14. ASSUME NEW t \in ThreadSet, NEW u \in ThreadSet, Stop(t, u) PROVE StackInv'
  <2> DEFINE f == [op |-> "Join", peer |-> u]
  <2>1. f.op = "Join"
    OBVIOUS
  <2>2. Pushed(t, f) /\ pc'[t] = "join" /\ OnlyMoves(t)
    BY <1>14, StopStack
  <2>3. Depth(t) # 0 /\ Top(t).op \in {"Handle", "Dispatch"}
    BY <1>14 DEF Stop, StackInv, Fits, LoopPCs
  <2> HIDE DEF f
  <2> QED
    BY <2>1, <2>2, <2>3, PushKeepsStack DEF Alternate
<1>15. ASSUME NEW t \in ThreadSet, NEW u \in ThreadSet, Start(t, u) PROVE StackInv'
  <2>1. pc[u] \in LoopPCs /\ pc'[u] \in LoopPCs /\ OnlyMoves(u) /\ stack' = stack
    BY <1>15, GotoMoves DEF Start, PCs, LoopPCs
  <2> QED
    BY <2>1, SameKeepsStack
<1>16. CASE UNCHANGED vars
  BY <1>16 DEF vars, StackInv, Fits, Shape, Depth, Top
<1> QED
  BY <1>1, <1>2, <1>3, <1>4, <1>5, <1>6, <1>7, <1>8, <1>9, <1>10, <1>11, <1>12, <1>13, <1>14,
     <1>15, <1>16 DEF Next, Step

-----------------------------------------------------------------------------
(* Types *)

LEMMA TopOfSend ==
  ASSUME TypeOK, StackInv, NEW t \in ThreadSet, pc[t] \in SendPCs
  PROVE  Depth(t) \in Nat \ {0} /\ Top(t) \in SendFrame /\ Top(t).op = "Send"
BY FrameFacts, DepthType DEF StackInv, Fits, SendPCs, LoopPCs, Top

LEMMA TypeStep ==
  ASSUME TypeOK, StackInv, CallsInv, [Next]_vars
  PROVE  TypeOK'
<1>1. ASSUME NEW t \in ThreadSet, Post(t) PROVE TypeOK'
  <2>1. woken' \in [ThreadSet -> BOOLEAN]
    BY <1>1, WakeUpWakes DEF Post
  <2>2. posted' \in 0 .. MaxPosts /\ msgs' \in [ThreadSet -> Nat]
    BY <1>1, ThreadsAssumption DEF Post, TypeOK
  <2> QED
    BY <1>1, <2>1, <2>2 DEF Post, TypeOK
<1>2. ASSUME NEW t \in ThreadSet, Clear(t) PROVE TypeOK'
  <2>1. PICK S \in SUBSET sendlist[t], k \in 0 .. msgs[t] :
          /\ sendlist' = [sendlist EXCEPT ![t] = @ \ S]
          /\ ready' = ready \cup {e.id : e \in S}
          /\ msgs' = [msgs EXCEPT ![t] = @ - k]
          /\ WakeUp({e.from : e \in S})
    BY <1>2 DEF Clear
  <2>2. woken' \in [ThreadSet -> BOOLEAN]
    BY <2>1, WakeUpWakes
  <2>3. msgs[t] \in Nat /\ msgs[t] - k \in Nat
    BY DEF TypeOK
  <2>4. msgs' \in [ThreadSet -> Nat]
    BY <2>1, <2>3 DEF TypeOK
  <2>5. sendlist' \in [ThreadSet -> SUBSET [id : Ids, from : ThreadSet]]
    BY <2>1 DEF TypeOK
  <2>6. \A e \in S : e.id \in Ids
    BY DEF TypeOK
  <2>7. ready' \subseteq Ids
    BY <2>1, <2>6 DEF TypeOK
  <2> QED
    BY <1>2, <2>2, <2>4, <2>5, <2>7 DEF Clear, TypeOK
<1>3. ASSUME NEW t \in ThreadSet, Quit(t) PROVE TypeOK'
  BY <1>3, WakeUpWakes DEF Quit, SetStop, TypeOK
<1>4. ASSUME NEW t \in ThreadSet, PushSend(t) PROVE TypeOK'
  <2>1. pc[t] = "push" /\ sent < MaxSends
    BY <1>4, PushHasRoom DEF PushSend
  <2>2. StackType' /\ Top(t) \in SendFrame /\ pc' \in [ThreadSet -> PCs]
    BY <1>4, <2>1, PushSendStack
  <2>3. sent' \in 0 .. MaxSends /\ sent + 1 \in Ids
    BY <1>4, <2>1, ThreadsAssumption DEF TypeOK, Ids, PushSend
  <2>4. [id |-> sent + 1, from |-> t] \in [id : Ids, from : ThreadSet] /\ Top(t).peer \in ThreadSet
    BY <2>2, <2>3 DEF SendFrame
  <2>5. sendlist' \in [ThreadSet -> SUBSET [id : Ids, from : ThreadSet]]
    BY <1>4, <2>4 DEF TypeOK, PushSend
  <2> QED
    BY <1>4, <2>2, <2>3, <2>5 DEF PushSend, TypeOK, StackType
<1>5. ASSUME NEW t \in ThreadSet, WakeTarget(t) PROVE TypeOK'
  BY <1>5, WakeUpWakes, GotoMoves DEF WakeTarget, TypeOK, PCs
<1>6. ASSUME NEW t \in ThreadSet, TestReady(t) PROVE TypeOK'
  <2>1. CASE Top(t).id \in ready
    <3>1. EndSend(t) /\ pc[t] \in SendPCs
      BY <1>6, <2>1 DEF TestReady, SendPCs
    <3>2. StackType' /\ pc' \in [ThreadSet -> PCs]
      BY <3>1, EndSendStack
    <3>3. woken' \in [ThreadSet -> BOOLEAN]
      BY <3>1, WakeUpWakes DEF EndSend
    <3> QED
      BY <1>6, <3>2, <3>3 DEF TestReady, TypeOK, StackType
  <2>2. CASE Top(t).id \notin ready
    BY <1>6, <2>2, GotoMoves DEF TestReady, PCs, TypeOK
  <2> QED
    BY <2>1, <2>2
<1>7. ASSUME NEW t \in ThreadSet, NEW e, Takes(t, e),
             UNCHANGED <<fStop, msgs, woken, ready, sent, posted>>
      PROVE  TypeOK'
  <2>1. sendlist' \in [ThreadSet -> SUBSET [id : Ids, from : ThreadSet]]
    BY <1>7 DEF Takes, TypeOK
  <2> QED
    BY <1>7, <2>1 DEF Takes, TypeOK, StackType
<1>8. ASSUME NEW t \in ThreadSet, ReceiveFromTarget(t) PROVE TypeOK'
  <2>1. CASE SentBy(t, Top(t).peer) # {}
    BY <1>8, <2>1, <1>7, ReceiveFromTargetTakes DEF ReceiveFromTarget
  <2>2. CASE SentBy(t, Top(t).peer) = {}
    BY <1>8, <2>2, GotoMoves DEF ReceiveFromTarget, PCs, TypeOK
  <2> QED
    BY <2>1, <2>2
<1>9. ASSUME NEW t \in ThreadSet, EndSendWait(t) PROVE TypeOK'
  <2>1. StackType' /\ pc' \in [ThreadSet -> PCs]
    BY <1>9, EndSendWaitStack
  <2> QED
    BY <1>9, <2>1 DEF EndSendWait, TypeOK, StackType
<1>10. ASSUME NEW t \in ThreadSet, ReceiveSends(t) PROVE TypeOK'
  <2>1. CASE sendlist[t] # {}
    BY <1>10, <2>1, <1>7, ReceiveSendsTakes DEF ReceiveSends
  <2>2. CASE sendlist[t] = {}
    BY <1>10, <2>2, GotoMoves DEF ReceiveSends, PCs, TypeOK
  <2> QED
    BY <2>1, <2>2
<1>11. ASSUME NEW t \in ThreadSet, TakePosted(t) PROVE TypeOK'
  <2>1. CASE msgs[t] > 0
    <3>1. StackType' /\ pc' \in [ThreadSet -> PCs]
      BY <1>11, <2>1, TakePostedStack
    <3>2. msgs' \in [ThreadSet -> Nat]
      <4>1. msgs[t] - 1 \in Nat
        BY <2>1 DEF TypeOK
      <4> QED
        BY <1>11, <2>1, <4>1 DEF TakePosted, TypeOK
    <3> QED
      BY <1>11, <3>1, <3>2 DEF TakePosted, TypeOK, StackType
  <2>2. CASE ~(msgs[t] > 0)
    BY <1>11, <2>2, GotoMoves DEF TakePosted, PCs, TypeOK
  <2> QED
    BY <2>1, <2>2
<1>12. ASSUME NEW t \in ThreadSet, CheckStop(t) PROVE TypeOK'
  <2>1. (IF fStop[t] THEN "exited" ELSE "wait") \in PCs
    BY DEF PCs
  <2> QED
    BY <1>12, <2>1, GotoMoves DEF CheckStop, TypeOK
<1>13. ASSUME NEW t \in ThreadSet, EndWait(t) PROVE TypeOK'
  BY <1>13, GotoMoves DEF EndWait, PCs, TypeOK
<1>14. ASSUME NEW t \in ThreadSet, Return(t) PROVE TypeOK'
  <2>1. StackType' /\ pc' \in [ThreadSet -> PCs] /\ Depth(t) > 0
    BY <1>14, ReturnStack
  <2>2. woken' \in [ThreadSet -> BOOLEAN] /\ ready' \subseteq Ids
    <3>1. CASE Inside(t, "Handle")
      <4>1. Reply(t) /\ Top(t).id \in Ids
        BY <1>14, <2>1, <3>1, FrameFacts, DepthType DEF Inside, Return, Top
      <4> QED
        BY <4>1, WakeUpWakes DEF Reply, TypeOK
    <3>2. CASE ~Inside(t, "Handle")
      BY <1>14, <3>2 DEF Return, TypeOK
    <3> QED
      BY <3>1, <3>2
  <2> QED
    BY <1>14, <2>1, <2>2 DEF Return, TypeOK, StackType
<1>15. ASSUME NEW t \in ThreadSet, EndJoin(t) PROVE TypeOK'
  BY <1>15, EndJoinStack DEF EndJoin, TypeOK, StackType
<1>16. ASSUME NEW t \in ThreadSet, NEW u \in ThreadSet, BeginSend(t, u) PROVE TypeOK'
  BY <1>16, BeginSendStack DEF BeginSend, TypeOK, StackType
<1>17. ASSUME NEW t \in ThreadSet, NEW u \in ThreadSet, Stop(t, u) PROVE TypeOK'
  BY <1>17, StopStack, WakeUpWakes DEF Stop, SetStop, TypeOK, StackType
<1>18. ASSUME NEW t \in ThreadSet, NEW u \in ThreadSet, Start(t, u) PROVE TypeOK'
  BY <1>18, GotoMoves DEF Start, TypeOK, PCs
<1>19. CASE UNCHANGED vars
  BY <1>19 DEF vars, TypeOK
<1> QED
  BY <1>1, <1>2, <1>3, <1>4, <1>5, <1>6, <1>8, <1>9, <1>10, <1>11, <1>12, <1>13, <1>14,
     <1>15, <1>16, <1>17, <1>18, <1>19 DEF Next, Step

-----------------------------------------------------------------------------
(* Numbers of calls *)

\* The numbers of the calls that t is in, once n were given out.
Numbered(t, n) ==
  \A i \in 1 .. Depth(t) :
    stack[t][i].op = "Send" =>
      stack[t][i].id \in 0 .. n /\ (stack[t][i].id = 0 <=> i = Depth(t) /\ pc[t] = "push")

Pushing == {t \in ThreadSet : pc[t] = "push"}

LEMMA OthersNumbered ==
  ASSUME TypeOK, CallsInv, NEW t \in ThreadSet, OnlyMoves(t),
         \A v \in ThreadSet \ {t} : stack'[v] = stack[v],
         sent' \in {sent, sent + 1}, Numbered(t, sent)'
  PROVE  \A v \in ThreadSet : Numbered(v, sent)'
<1> SUFFICES ASSUME NEW v \in ThreadSet \ {t} PROVE Numbered(v, sent)'
  OBVIOUS
<1>1. stack'[v] = stack[v] /\ Numbered(v, sent)
  BY DEF CallsInv, Numbered
<1>2. pc'[v] = "push" <=> pc[v] = "push"
  BY DEF OnlyMoves, LoopPCs
<1>3. \A x : x \in 0 .. sent => x \in 0 .. sent'
  BY DEF TypeOK
<1> QED
  BY <1>1, <1>2, <1>3 DEF Numbered, Depth

\* A step that numbers no call and makes none.
LEMMA NoNewCalls ==
  ASSUME TypeOK, StackInv, CallsInv, NEW t \in ThreadSet, OnlyMoves(t), ready' \subseteq 1 .. sent, sent' = sent,
         pc'[t] = "push" <=> pc[t] = "push", pc[t] = "push" => stack' = stack,
         \/ stack' = stack
         \/ Popped(t) /\ Depth(t) > 0
         \/ \E f : Pushed(t, f) /\ f.op # "Send"
         \/ \E f : Replaced(t, f) /\ f.op = Top(t).op /\ (f.op = "Send" => f.id = Top(t).id)
  PROVE  CallsInv'
<1>1. Depth(t) \in Nat /\ Numbered(t, sent)
  BY DepthType DEF CallsInv, Numbered
<1>2. \A v \in ThreadSet \ {t} : stack'[v] = stack[v]
  BY DEF Popped, Pushed, Replaced
<1>3. Numbered(t, sent)'
  <2>1. CASE stack' = stack
    BY <1>1, <2>1 DEF Numbered, Depth
  <2>2. CASE Popped(t) /\ Depth(t) > 0 /\ pc[t] # "push"
    BY <1>1, <2>2 DEF Numbered, Depth, Popped
  <2>3. CASE \E f : Pushed(t, f) /\ f.op # "Send" /\ pc[t] # "push"
    BY <1>1, <2>3 DEF Numbered, Depth, Pushed
  <2>4. CASE \E f : Replaced(t, f) /\ f.op = Top(t).op /\ (f.op = "Send" => f.id = Top(t).id) /\ pc[t] # "push"
    BY <1>1, <2>4 DEF Numbered, Depth, Replaced, Top
  <2> QED
    BY <2>1, <2>2, <2>3, <2>4
<1>4. \A v \in ThreadSet : Numbered(v, sent)'
  BY <1>2, <1>3, OthersNumbered
<1>5. Pushing' = Pushing
  BY DEF Pushing, OnlyMoves, LoopPCs
<1>6. sent' + Cardinality(Pushing') <= MaxSends
  BY <1>5 DEF CallsInv, Pushing
<1> QED
  BY <1>4, <1>6 DEF CallsInv, Numbered, Pushing

\* The message of a Send, as it is in the list of its target.
Entry(c, t) == [id |-> c, from |-> t]

LEMMA EntryOf ==
  ASSUME TypeOK, NEW u \in ThreadSet, NEW e \in sendlist[u]
  PROVE  e.id \in Ids /\ e.from \in ThreadSet /\ e = Entry(e.id, e.from)
BY DEF TypeOK, Entry

\* What is in a list or being handled was numbered, and its Send is the only one.
LEMMA WaitingCall ==
  ASSUME TypeOK, CallsInv, NoDanglingReady, NEW u \in ThreadSet, NEW t \in ThreadSet, NEW c \in Ids,
         Entry(c, t) \in sendlist[u] \/ Handling(u, c, t)
  PROVE  Sending(t, c, u) /\ c \notin ready /\ c \in 1 .. sent
<1>1. Sending(t, c, u) /\ c \notin ready
  BY DEF NoDanglingReady, Entry
<1>2. PICK i \in 1 .. Depth(t) : stack[t][i].op = "Send" /\ stack[t][i].id = c
  BY <1>1 DEF Sending
<1>3. c \in 0 .. sent
  BY <1>2 DEF CallsInv
<1> QED
  BY <1>1, <1>3 DEF Ids, TypeOK

LEMMA TopHandles ==
  ASSUME TypeOK, NEW t \in ThreadSet, Inside(t, "Handle")
  PROVE  Top(t).id \in Ids /\ Top(t).peer \in ThreadSet /\ Handling(t, Top(t).id, Top(t).peer)
<1>1. Depth(t) \in Nat /\ Depth(t) > 0 /\ Top(t).op = "Handle" /\ Top(t) \in Frame
  BY DepthType DEF Inside, Top
<1> QED
  BY <1>1, FrameFacts DEF Handling, Top

LEMMA CallsStep ==
  ASSUME TypeOK, StackInv, CallsInv, NoDanglingReady, [Next]_vars
  PROVE  CallsInv'
<1>0. ready \subseteq 1 .. sent
  BY DEF CallsInv
<1>1. ASSUME NEW t \in ThreadSet, Post(t) \/ Quit(t) PROVE CallsInv'
  BY <1>0, <1>1, NoNewCalls DEF OnlyMoves, Post, Quit
<1>2. ASSUME NEW t \in ThreadSet, Clear(t) PROVE CallsInv'
  <2>1. PICK S \in SUBSET sendlist[t] : ready' = ready \cup {e.id : e \in S}
    BY <1>2 DEF Clear
  <2>2. \A e \in S : e.id \in 1 .. sent
    BY EntryOf, WaitingCall
  <2>3. ready' \subseteq 1 .. sent
    BY <1>0, <2>1, <2>2
  <2> QED
    BY <1>2, <2>3, NoNewCalls DEF OnlyMoves, Clear
<1>3. ASSUME NEW t \in ThreadSet, PushSend(t) PROVE CallsInv'
  <2> DEFINE f == [Top(t) EXCEPT !.id = sent + 1]
  <2>1. pc[t] = "push" /\ sent < MaxSends /\ sent' = sent + 1 /\ ready' = ready
    BY <1>3, PushHasRoom DEF PushSend
  <2>2. Replaced(t, f) /\ Top(t) \in SendFrame /\ pc'[t] = "wake" /\ OnlyMoves(t)
    BY <1>3, <2>1, PushSendStack
  <2>3. f.id = sent + 1 /\ Depth(t) \in Nat /\ sent \in Nat /\ Numbered(t, sent)
    BY <2>2, DepthType DEF SendFrame, TypeOK, CallsInv, Numbered
  <2> HIDE DEF f
  <2>4. Numbered(t, sent)'
    <3> SUFFICES ASSUME NEW i \in 1 .. Depth(t), stack'[t][i].op = "Send"
                 PROVE  stack'[t][i].id \in 1 .. sent + 1
      BY <2>1, <2>2, <2>3 DEF Numbered, Depth, Replaced
    <3>1. CASE i = Depth(t)
      BY <2>2, <2>3, <3>1 DEF Replaced
    <3>2. CASE i # Depth(t)
      <4>1. i \in 1 .. Depth(t) - 1 /\ stack'[t][i] = stack[t][i]
        BY <2>2, <2>3, <3>2 DEF Replaced
      <4> QED
        BY <2>3, <3>2, <4>1 DEF Numbered
    <3> QED
      BY <3>1, <3>2
  <2>5. \A v \in ThreadSet : Numbered(v, sent)'
    BY <2>1, <2>2, <2>4, OthersNumbered DEF Replaced
  <2>6. Pushing' = Pushing \ {t} /\ t \in Pushing /\ IsFiniteSet(Pushing)
    <3>1. Pushing' = Pushing \ {t} /\ t \in Pushing
      BY <2>1, <2>2 DEF Pushing, OnlyMoves, LoopPCs
    <3>2. IsFiniteSet(Pushing)
      BY ThreadsAssumption, FS_Subset DEF Pushing
    <3> QED
      BY <3>1, <3>2
  <2>7. Cardinality(Pushing') = Cardinality(Pushing) - 1 /\ Cardinality(Pushing) \in Nat
    BY <2>6, FS_RemoveElement, FS_CardinalityType
  <2>8. sent + Cardinality(Pushing) <= MaxSends
    BY DEF CallsInv, Pushing
  <2>9. sent' + Cardinality(Pushing') <= MaxSends
    BY <2>1, <2>3, <2>7, <2>8, ThreadsAssumption
  <2>10. ready' \subseteq 1 .. sent'
    BY <1>0, <2>1, <2>3
  <2> QED
    BY <2>5, <2>9, <2>10 DEF CallsInv, Numbered, Pushing
<1>4. ASSUME NEW t \in ThreadSet, WakeTarget(t) PROVE CallsInv'
  BY <1>0, <1>4, GotoMoves, NoNewCalls DEF WakeTarget, PCs
<1>5. ASSUME NEW t \in ThreadSet, TestReady(t) PROVE CallsInv'
  <2>1. CASE Top(t).id \in ready
    <3>1. EndSend(t) /\ pc[t] \in SendPCs
      BY <1>5, <2>1 DEF TestReady, SendPCs
    <3>2. Popped(t) /\ Depth(t) > 0 /\ pc'[t] = "run" /\ OnlyMoves(t)
      BY <3>1, EndSendStack
    <3> QED
      BY <1>0, <1>5, <3>2, NoNewCalls DEF TestReady
  <2>2. CASE Top(t).id \notin ready
    BY <1>0, <1>5, <2>2, GotoMoves, NoNewCalls DEF TestReady, PCs
  <2> QED
    BY <2>1, <2>2
<1>6. ASSUME NEW t \in ThreadSet, NEW e, Takes(t, e), pc[t] # "push", ready' = ready, sent' = sent
      PROVE  CallsInv'
  <2>1. HandleFrame(e).op # "Send"
    BY DEF HandleFrame
  <2> QED
    BY <1>0, <1>6, <2>1, NoNewCalls DEF Takes
<1>7. ASSUME NEW t \in ThreadSet, ReceiveFromTarget(t) PROVE CallsInv'
  <2>1. CASE SentBy(t, Top(t).peer) # {}
    BY <1>7, <2>1, <1>6, ReceiveFromTargetTakes DEF ReceiveFromTarget
  <2>2. CASE SentBy(t, Top(t).peer) = {}
    BY <1>0, <1>7, <2>2, GotoMoves, NoNewCalls DEF ReceiveFromTarget, PCs
  <2> QED
    BY <2>1, <2>2
<1>8. ASSUME NEW t \in ThreadSet, EndSendWait(t) PROVE CallsInv'
  <2>1. /\ Replaced(t, [Top(t) EXCEPT !.waited = TRUE]) /\ Top(t) \in SendFrame
        /\ pc'[t] = "test" /\ OnlyMoves(t)
    BY <1>8, EndSendWaitStack
  <2>2. /\ [Top(t) EXCEPT !.waited = TRUE].op = Top(t).op
        /\ [Top(t) EXCEPT !.waited = TRUE].id = Top(t).id
    BY <2>1 DEF SendFrame
  <2> QED
    BY <1>0, <1>8, <2>1, <2>2, NoNewCalls DEF EndSendWait
<1>9. ASSUME NEW t \in ThreadSet, ReceiveSends(t) PROVE CallsInv'
  <2>1. CASE sendlist[t] # {}
    BY <1>9, <2>1, <1>6, ReceiveSendsTakes DEF ReceiveSends
  <2>2. CASE sendlist[t] = {}
    BY <1>0, <1>9, <2>2, GotoMoves, NoNewCalls DEF ReceiveSends, PCs
  <2> QED
    BY <2>1, <2>2
<1>10. ASSUME NEW t \in ThreadSet, TakePosted(t) PROVE CallsInv'
  <2>1. CASE msgs[t] > 0
    <3>1. Pushed(t, [op |-> "Dispatch"]) /\ pc'[t] = "run" /\ OnlyMoves(t) /\ [op |-> "Dispatch"].op # "Send"
      BY <1>10, <2>1, TakePostedStack
    <3> QED
      BY <1>0, <1>10, <3>1, NoNewCalls DEF TakePosted
  <2>2. CASE ~(msgs[t] > 0)
    BY <1>0, <1>10, <2>2, GotoMoves, NoNewCalls DEF TakePosted, PCs
  <2> QED
    BY <2>1, <2>2
<1>11. ASSUME NEW t \in ThreadSet, CheckStop(t) PROVE CallsInv'
  <2>1. (IF fStop[t] THEN "exited" ELSE "wait") \in PCs \ {"push"}
    BY DEF PCs
  <2> QED
    BY <1>0, <1>11, <2>1, GotoMoves, NoNewCalls DEF CheckStop
<1>12. ASSUME NEW t \in ThreadSet, EndWait(t) PROVE CallsInv'
  BY <1>0, <1>12, GotoMoves, NoNewCalls DEF EndWait, PCs
<1>13. ASSUME NEW t \in ThreadSet, Return(t) PROVE CallsInv'
  <2>1. Popped(t) /\ Depth(t) > 0 /\ pc'[t] # "push" /\ pc[t] # "push" /\ OnlyMoves(t)
    BY <1>13, ReturnStack DEF Return
  <2>2. ready' \subseteq 1 .. sent
    <3>1. CASE Inside(t, "Handle")
      <4>1. Top(t).id \in 1 .. sent
        BY <3>1, TopHandles, WaitingCall
      <4> QED
        BY <1>0, <1>13, <3>1, <4>1 DEF Return, Reply
    <3>2. CASE ~Inside(t, "Handle")
      BY <1>0, <1>13, <3>2 DEF Return
    <3> QED
      BY <3>1, <3>2
  <2> QED
    BY <1>13, <2>1, <2>2, NoNewCalls DEF Return
<1>14. ASSUME NEW t \in ThreadSet, EndJoin(t) PROVE CallsInv'
  <2>1. Popped(t) /\ Depth(t) > 0 /\ pc'[t] = "run" /\ OnlyMoves(t)
    BY <1>14, EndJoinStack
  <2> QED
    BY <1>0, <1>14, <2>1, NoNewCalls DEF EndJoin
<1>15. ASSUME NEW t \in ThreadSet, NEW u \in ThreadSet, BeginSend(t, u) PROVE CallsInv'
  <2> DEFINE f == [op |-> "Send", id |-> 0, peer |-> u, waited |-> FALSE]
  <2>1. f.id = 0 /\ f.op = "Send"
    OBVIOUS
  <2>2. Pushed(t, f) /\ pc'[t] = "push" /\ OnlyMoves(t)
    BY <1>15, BeginSendStack
  <2> HIDE DEF f
  <2>3. pc[t] = "run" /\ sent' = sent /\ ready' = ready /\ sent + Cardinality(Pushing) < MaxSends
    BY <1>15 DEF BeginSend, Pushing
  <2>4. Depth(t) \in Nat /\ sent \in Nat /\ Numbered(t, sent)
    <3>1. Depth(t) \in Nat /\ sent \in Nat
      BY DepthType DEF TypeOK
    <3>2. Numbered(t, sent)
      BY DEF CallsInv, Numbered
    <3> QED
      BY <3>1, <3>2
  <2>5. Numbered(t, sent)'
    <3> SUFFICES ASSUME NEW i \in 1 .. Depth(t) + 1, stack'[t][i].op = "Send"
                 PROVE  stack'[t][i].id \in 0 .. sent /\ (stack'[t][i].id = 0 <=> i = Depth(t) + 1)
      BY <2>2, <2>3, <2>4 DEF Numbered, Depth, Pushed
    <3>1. CASE i = Depth(t) + 1
      BY <2>1, <2>2, <2>4, <3>1 DEF Pushed
    <3>2. CASE i # Depth(t) + 1
      <4>1. i \in 1 .. Depth(t) /\ stack'[t][i] = stack[t][i]
        BY <2>2, <2>4, <3>2 DEF Pushed
      <4> QED
        BY <2>3, <2>4, <3>2, <4>1 DEF Numbered
    <3> QED
      BY <3>1, <3>2
  <2>6. \A v \in ThreadSet : Numbered(v, sent)'
    BY <2>2, <2>3, <2>5, OthersNumbered DEF Pushed
  <2>7. Pushing' = Pushing \cup {t} /\ t \notin Pushing
    BY <2>2, <2>3 DEF Pushing, OnlyMoves, LoopPCs
  <2>8. IsFiniteSet(Pushing)
    BY ThreadsAssumption, FS_Subset DEF Pushing
  <2>9. Cardinality(Pushing') = Cardinality(Pushing) + 1 /\ Cardinality(Pushing) \in Nat
    BY <2>7, <2>8, FS_AddElement, FS_CardinalityType
  <2>10. sent' + Cardinality(Pushing') <= MaxSends
    BY <2>3, <2>4, <2>9, ThreadsAssumption
  <2> QED
    BY <1>0, <2>3, <2>6, <2>10 DEF CallsInv, Numbered, Pushing
<1>16. ASSUME NEW t \in ThreadSet, NEW u \in ThreadSet, Stop(t, u) PROVE CallsInv'
  <2>1. Pushed(t, [op |-> "Join", peer |-> u]) /\ pc'[t] = "join" /\ OnlyMoves(t)
    BY <1>16, StopStack
  <2>2. [op |-> "Join", peer |-> u].op # "Send"
    OBVIOUS
  <2> QED
    BY <1>0, <1>16, <2>1, <2>2, NoNewCalls DEF Stop
<1>17. ASSUME NEW t \in ThreadSet, NEW u \in ThreadSet, Start(t, u) PROVE CallsInv'
  BY <1>0, <1>17, GotoMoves, NoNewCalls DEF Start, PCs
<1>18. CASE UNCHANGED vars
  BY <1>18 DEF vars, CallsInv, Depth
<1> QED
  BY <1>1, <1>2, <1>3, <1>4, <1>5, <1>7, <1>8, <1>9, <1>10, <1>11, <1>12, <1>13, <1>14,
     <1>15, <1>16, <1>17, <1>18 DEF Next, Step

-----------------------------------------------------------------------------
(* Who is in which call *)

\* The frame f is of call c, of kind op, with thread u.
IsCall(f, op, c, u) == f.op = op /\ f.id = c /\ f.peer = u

InCall(t, op, c, u) == \E i \in 1 .. Depth(t) : IsCall(stack[t][i], op, c, u)

LEMMA InCalls ==
  /\ \A t, c, u : Sending(t, c, u) <=> InCall(t, "Send", c, u)
  /\ \A t, c, u : Handling(t, c, u) <=> InCall(t, "Handle", c, u)
BY DEF Sending, Handling, InCall, IsCall

LEMMA PushedCalls ==
  ASSUME TypeOK, NEW t \in ThreadSet, NEW f, Pushed(t, f), NEW v \in ThreadSet, NEW op, NEW c, NEW u
  PROVE  InCall(v, op, c, u)' <=> InCall(v, op, c, u) \/ (v = t /\ IsCall(f, op, c, u))
<1>1. Depth(t) \in Nat /\ Depth(t)' = Depth(t) + 1
  BY DepthType DEF Pushed, Depth
<1>2. CASE v # t
  BY <1>2 DEF Pushed, InCall, Depth
<1>3. CASE v = t
  <2>1. \A i \in 1 .. Depth(t) + 1 : i \in 1 .. Depth(t) \/ i = Depth(t) + 1
    BY <1>1
  <2>2. Depth(t) + 1 \in 1 .. Depth(t) + 1 /\ \A i \in 1 .. Depth(t) : i \in 1 .. Depth(t) + 1
    BY <1>1
  <2> QED
    BY <1>1, <1>3, <2>1, <2>2 DEF Pushed, InCall
<1> QED
  BY <1>2, <1>3

LEMMA ReplacedCalls ==
  ASSUME TypeOK, NEW t \in ThreadSet, Depth(t) > 0, NEW f, Replaced(t, f),
         NEW v \in ThreadSet, NEW op, NEW c, NEW u, ~IsCall(Top(t), op, c, u) \/ IsCall(f, op, c, u)
  PROVE  InCall(v, op, c, u)' <=> InCall(v, op, c, u) \/ (v = t /\ IsCall(f, op, c, u))
<1>1. Depth(t) \in Nat /\ Depth(t)' = Depth(t)
  BY DepthType DEF Replaced, Depth
<1>2. CASE v # t
  BY <1>2 DEF Replaced, InCall, Depth
<1>3. CASE v = t
  <2>1. \A i \in 1 .. Depth(t) : i \in 1 .. Depth(t) - 1 \/ i = Depth(t)
    BY <1>1
  <2>2. Depth(t) \in 1 .. Depth(t) /\ \A i \in 1 .. Depth(t) - 1 : i \in 1 .. Depth(t)
    BY <1>1
  <2> QED
    BY <1>1, <1>3, <2>1, <2>2 DEF Replaced, InCall, Top
<1> QED
  BY <1>2, <1>3

\* A call is on one stack, at one place.
LEMMA OneFrame ==
  ASSUME FramesDistinct, NEW t \in ThreadSet, NEW u \in ThreadSet, NEW i \in 1 .. Depth(t), NEW j \in 1 .. Depth(u),
         NEW op \in {"Send", "Handle"}, NEW c \in Ids, NEW p, NEW q,
         IsCall(stack[t][i], op, c, p), IsCall(stack[u][j], op, c, q)
  PROVE  t = u /\ i = j /\ p = q
BY DEF FramesDistinct, IsCall, Ids

LEMMA OneCall ==
  ASSUME FramesDistinct, NEW t \in ThreadSet, NEW u \in ThreadSet, NEW op \in {"Send", "Handle"}, NEW c \in Ids,
         NEW p, NEW q, InCall(t, op, c, p), InCall(u, op, c, q)
  PROVE  t = u /\ p = q
BY OneFrame DEF InCall

LEMMA PoppedCalls ==
  ASSUME TypeOK, FramesDistinct, NEW t \in ThreadSet, Depth(t) > 0, Popped(t),
         NEW v \in ThreadSet, NEW op \in {"Send", "Handle"}, NEW c \in Ids, NEW u
  PROVE  InCall(v, op, c, u)' <=> InCall(v, op, c, u) /\ ~(v = t /\ IsCall(Top(t), op, c, u))
<1>1. Depth(t) \in Nat /\ Depth(t)' = Depth(t) - 1
  BY DepthType DEF Popped, Depth
<1>2. CASE v # t
  BY <1>2 DEF Popped, InCall, Depth
<1>3. CASE v = t
  <2>1. InCall(t, op, c, u)' <=> \E i \in 1 .. Depth(t) - 1 : IsCall(stack[t][i], op, c, u)
    BY <1>1 DEF InCall, Popped
  <2>2. \A i \in 1 .. Depth(t) : i \in 1 .. Depth(t) - 1 \/ i = Depth(t)
    BY <1>1
  <2>3. Depth(t) \in 1 .. Depth(t) /\ \A i \in 1 .. Depth(t) - 1 : i \in 1 .. Depth(t) /\ i # Depth(t)
    BY <1>1
  <2>4. \A i \in 1 .. Depth(t) - 1 : ~(IsCall(stack[t][i], op, c, u) /\ IsCall(Top(t), op, c, u))
    BY <2>3, OneFrame DEF Top
  <2> QED
    BY <1>3, <2>1, <2>2, <2>3, <2>4 DEF InCall, Top
<1> QED
  BY <1>2, <1>3

-----------------------------------------------------------------------------
(* No call is twice on the stacks *)

LEMMA PushKeepsDistinct ==
  ASSUME TypeOK, FramesDistinct, NEW t \in ThreadSet, NEW f, Pushed(t, f),
         f.op \in {"Send", "Handle"} /\ f.id # 0 =>
           \A v \in ThreadSet : \A i \in 1 .. Depth(v) : stack[v][i].op = f.op => stack[v][i].id # f.id
  PROVE  FramesDistinct'
<1>1. Depth(t) \in Nat /\ Depth(t)' = Depth(t) + 1
  BY DepthType DEF Pushed, Depth
<1>2. ASSUME NEW v \in ThreadSet, NEW i \in 1 .. Depth(v)'
      PROVE  \/ v = t /\ i = Depth(t) + 1 /\ stack'[v][i] = f
             \/ i \in 1 .. Depth(v) /\ stack'[v][i] = stack[v][i] /\ ~(v = t /\ i = Depth(t) + 1)
  <2>1. CASE v # t
    BY <1>2, <2>1 DEF Pushed, Depth
  <2>2. CASE v = t /\ i = Depth(t) + 1
    BY <2>2 DEF Pushed
  <2>3. CASE v = t /\ i # Depth(t) + 1
    <3>1. i \in 1 .. Depth(t)
      BY <1>1, <1>2, <2>3
    <3> QED
      BY <2>3, <3>1 DEF Pushed
  <2> QED
    BY <2>1, <2>2, <2>3
<1> SUFFICES ASSUME NEW v \in ThreadSet, NEW w \in ThreadSet, NEW i \in 1 .. Depth(v)', NEW j \in 1 .. Depth(w)',
                    stack'[v][i].op = stack'[w][j].op, stack'[v][i].op \in {"Send", "Handle"},
                    stack'[v][i].id = stack'[w][j].id, stack'[v][i].id # 0
             PROVE  v = w /\ i = j
  BY DEF FramesDistinct
<1>3. \/ v = t /\ i = Depth(t) + 1 /\ stack'[v][i] = f
      \/ i \in 1 .. Depth(v) /\ stack'[v][i] = stack[v][i]
  BY <1>2
<1>4. \/ w = t /\ j = Depth(t) + 1 /\ stack'[w][j] = f
      \/ j \in 1 .. Depth(w) /\ stack'[w][j] = stack[w][j]
  BY <1>2
<1> QED
  BY <1>3, <1>4 DEF FramesDistinct

LEMMA PopKeepsDistinct ==
  ASSUME TypeOK, FramesDistinct, NEW t \in ThreadSet, Depth(t) > 0, Popped(t)
  PROVE  FramesDistinct'
<1>1. Depth(t) \in Nat /\ Depth(t)' = Depth(t) - 1
  BY DepthType DEF Popped, Depth
<1>2. ASSUME NEW v \in ThreadSet, NEW i \in 1 .. Depth(v)'
      PROVE  i \in 1 .. Depth(v) /\ stack'[v][i] = stack[v][i]
  <2>1. CASE v # t
    BY <1>2, <2>1 DEF Popped, Depth
  <2>2. CASE v = t
    <3>1. i \in 1 .. Depth(t) - 1 /\ i \in 1 .. Depth(t)
      BY <1>1, <1>2, <2>2
    <3> QED
      BY <2>2, <3>1 DEF Popped
  <2> QED
    BY <2>1, <2>2
<1> QED
  BY <1>2 DEF FramesDistinct

LEMMA ReplaceKeepsDistinct ==
  ASSUME TypeOK, FramesDistinct, NEW t \in ThreadSet, Depth(t) > 0, NEW f, Replaced(t, f), f.op = Top(t).op,
         \/ f.id = Top(t).id
         \/ \A v \in ThreadSet : \A i \in 1 .. Depth(v) : stack[v][i].op = f.op => stack[v][i].id # f.id
  PROVE  FramesDistinct'
<1>1. Depth(t) \in Nat /\ Depth(t)' = Depth(t) /\ Depth(t) \in 1 .. Depth(t)
  BY DepthType DEF Replaced, Depth
<1>2. ASSUME NEW v \in ThreadSet, NEW i \in 1 .. Depth(v)'
      PROVE  /\ i \in 1 .. Depth(v)
             /\ \/ v = t /\ i = Depth(t) /\ stack'[v][i] = f
                \/ stack'[v][i] = stack[v][i] /\ ~(v = t /\ i = Depth(t))
  <2>1. CASE v # t
    BY <1>2, <2>1 DEF Replaced, Depth
  <2>2. CASE v = t /\ i = Depth(t)
    BY <1>1, <2>2 DEF Replaced
  <2>3. CASE v = t /\ i # Depth(t)
    <3>1. i \in 1 .. Depth(t) - 1 /\ i \in 1 .. Depth(t)
      BY <1>1, <1>2, <2>3
    <3> QED
      BY <2>3, <3>1 DEF Replaced
  <2> QED
    BY <2>1, <2>2, <2>3
<1> SUFFICES ASSUME NEW v \in ThreadSet, NEW w \in ThreadSet, NEW i \in 1 .. Depth(v)', NEW j \in 1 .. Depth(w)',
                    stack'[v][i].op = stack'[w][j].op, stack'[v][i].op \in {"Send", "Handle"},
                    stack'[v][i].id = stack'[w][j].id, stack'[v][i].id # 0
             PROVE  v = w /\ i = j
  BY DEF FramesDistinct
<1>3. /\ i \in 1 .. Depth(v)
      /\ \/ v = t /\ i = Depth(t) /\ stack'[v][i] = f
         \/ stack'[v][i] = stack[v][i]
  BY <1>2
<1>4. /\ j \in 1 .. Depth(w)
      /\ \/ w = t /\ j = Depth(t) /\ stack'[w][j] = f
         \/ stack'[w][j] = stack[w][j]
  BY <1>2
<1>5. Top(t) = stack[t][Depth(t)]
  BY DEF Top
<1> QED
  BY <1>1, <1>3, <1>4, <1>5 DEF FramesDistinct

-----------------------------------------------------------------------------
(* Every call that waits is in one list or in one handler *)

Waits(u, c, t) == Entry(c, t) \in sendlist[u] \/ InCall(u, "Handle", c, t)

CallState ==
  \A t, u \in ThreadSet, c \in Ids :
    /\ Waits(u, c, t) => InCall(t, "Send", c, u) /\ c \notin ready
    /\ InCall(t, "Send", c, u) /\ c \notin ready => Waits(u, c, t)
    /\ ~(Entry(c, t) \in sendlist[u] /\ InCall(u, "Handle", c, t))

LEMMA CallStateMeans == CallState <=> NoDanglingReady /\ NoSendForgotten
<1>1. CallState => NoDanglingReady /\ NoSendForgotten
  BY InCalls DEF CallState, Waits, NoDanglingReady, NoSendForgotten, Entry
<1>2. ASSUME NoDanglingReady, NoSendForgotten PROVE CallState
  <2> SUFFICES ASSUME NEW t \in ThreadSet, NEW u \in ThreadSet, NEW c \in Ids
               PROVE  /\ Waits(u, c, t) => InCall(t, "Send", c, u) /\ c \notin ready
                      /\ InCall(t, "Send", c, u) /\ c \notin ready => Waits(u, c, t)
                      /\ ~(Entry(c, t) \in sendlist[u] /\ InCall(u, "Handle", c, t))
    BY DEF CallState
  <2>1. Waits(u, c, t) <=> Entry(c, t) \in sendlist[u] \/ Handling(u, c, t)
    BY InCalls DEF Waits
  <2>2. Waits(u, c, t) => Sending(t, c, u) /\ c \notin ready
    BY <1>2, <2>1 DEF NoDanglingReady, Entry
  <2>3. Sending(t, c, u) /\ c \notin ready => (Entry(c, t) \in sendlist[u]) # Handling(u, c, t)
    BY <1>2 DEF NoSendForgotten, Entry
  <2>4. Handling(u, c, t) \in BOOLEAN
    BY DEF Handling
  <2> QED
    BY <2>1, <2>2, <2>3, <2>4, InCalls
<1> QED
  BY <1>1, <1>2

LEMMA CallStateMeansNext == (CallState <=> NoDanglingReady /\ NoSendForgotten)'
BY CallStateMeans, PTL

SameCalls ==
  \A t, u \in ThreadSet, c \in Ids, op \in {"Send", "Handle"} : InCall(t, op, c, u)' <=> InCall(t, op, c, u)

LEMMA SameCallsKept ==
  ASSUME CallState, SameCalls, sendlist' = sendlist, ready' = ready
  PROVE  CallState'
BY DEF CallState, SameCalls, Waits, Entry

\* Two waiting calls with one number are the same call.
LEMMA OneWaits ==
  ASSUME FramesDistinct, CallState, NEW u \in ThreadSet, NEW t \in ThreadSet, NEW v \in ThreadSet, NEW w \in ThreadSet,
         NEW c \in Ids, Waits(u, c, t), Waits(v, c, w)
  PROVE  u = v /\ t = w
<1>1. InCall(t, "Send", c, u) /\ InCall(w, "Send", c, v)
  BY DEF CallState
<1> QED
  BY <1>1, OneCall

\* A thread takes a message from its list: no handler of it runs yet.
LEMMA TakeKeepsCalls ==
  ASSUME TypeOK, FramesDistinct, CallState, NEW t \in ThreadSet, NEW e, Takes(t, e), ready' = ready
  PROVE  FramesDistinct' /\ CallState'
<1> DEFINE c == e.id
           p == e.from
<1>1. c \in Ids /\ p \in ThreadSet /\ e = Entry(c, p) /\ e \in sendlist[t]
  BY EntryOf DEF Takes
<1>2. HandleFrame(e).op = "Handle" /\ HandleFrame(e).id = c /\ HandleFrame(e).peer = p
  BY DEF HandleFrame
<1>3. \A d, u : IsCall(HandleFrame(e), "Handle", d, u) <=> d = c /\ u = p
  BY <1>2 DEF IsCall
<1>4. \A d, u : ~IsCall(HandleFrame(e), "Send", d, u)
  BY <1>2 DEF IsCall
<1>5. Pushed(t, HandleFrame(e)) /\ sendlist' = [sendlist EXCEPT ![t] = @ \ {e}]
  BY DEF Takes
<1>6. \A u \in ThreadSet : \A x : x \in sendlist'[u] <=> x \in sendlist[u] /\ ~(u = t /\ x = e)
  BY <1>5 DEF TypeOK
<1> HIDE DEF c, p
<1>7. Waits(t, c, p) /\ ~InCall(t, "Handle", c, p)
  BY <1>1 DEF CallState, Waits
<1>8. \A v, u \in ThreadSet : ~InCall(v, "Handle", c, u)
  BY <1>1, <1>7, OneWaits DEF Waits
<1>9. \A v \in ThreadSet : \A i \in 1 .. Depth(v) : stack[v][i].op = "Handle" => stack[v][i].id # c
  BY <1>8, DepthType, FrameFacts DEF InCall, IsCall
<1>10. FramesDistinct'
  BY <1>2, <1>5, <1>9, PushKeepsDistinct
<1>11. \A v, u \in ThreadSet, d \in Ids : InCall(v, "Send", d, u)' <=> InCall(v, "Send", d, u)
  BY <1>4, <1>5, PushedCalls
<1>12. \A v, u \in ThreadSet, d \in Ids :
         InCall(v, "Handle", d, u)' <=> InCall(v, "Handle", d, u) \/ (v = t /\ d = c /\ u = p)
  BY <1>3, <1>5, PushedCalls
<1>13. \A d, u : Entry(d, u) = e <=> d = c /\ u = p
  BY <1>1 DEF Entry
<1>14. \A v, u \in ThreadSet, d \in Ids : Waits(u, d, v)' <=> Waits(u, d, v)
  BY <1>1, <1>6, <1>7, <1>12, <1>13 DEF Waits
<1>15. \A v, u \in ThreadSet, d \in Ids : ~(Entry(d, v) \in sendlist'[u] /\ InCall(u, "Handle", d, v)')
  BY <1>1, <1>6, <1>12, <1>13 DEF CallState
<1>16. CallState'
  BY <1>11, <1>14, <1>15 DEF CallState
<1> QED
  BY <1>10, <1>16

\* A call gets a new number and is put into the list.
LEMMA PushSendKeepsCalls ==
  ASSUME TypeOK, StackInv, CallsInv, FramesDistinct, CallState, NEW t \in ThreadSet, PushSend(t)
  PROVE  FramesDistinct' /\ CallState'
<1> DEFINE f == [Top(t) EXCEPT !.id = sent + 1]
           c == sent + 1
           p == Top(t).peer
<1>1. pc[t] = "push" /\ sent < MaxSends /\ sent \in Nat /\ ready' = ready
  BY PushHasRoom DEF PushSend, TypeOK
<1>2. Replaced(t, f) /\ Top(t) \in SendFrame
  BY <1>1, PushSendStack
<1>3. Depth(t) \in Nat \ {0} /\ Top(t).op = "Send" /\ p \in ThreadSet
  BY <1>1, TopOfSend DEF SendPCs, SendFrame
<1>4. f.op = "Send" /\ f.id = c /\ f.peer = p /\ c \in Ids
  <2>1. f.op = "Send" /\ f.id = c /\ f.peer = p
    BY <1>2 DEF SendFrame
  <2>2. c \in Ids
    BY <1>1, ThreadsAssumption DEF Ids
  <2> QED
    BY <2>1, <2>2
<1>5. Top(t).id = 0
  BY <1>1, <1>3 DEF CallsInv, Top
<1>6. \A v \in ThreadSet : \A i \in 1 .. Depth(v) : stack[v][i].op = "Send" => stack[v][i].id # c
  <2>1. c \notin 0 .. sent
    BY <1>1
  <2> QED
    BY <2>1 DEF CallsInv
<1>7. \A u \in ThreadSet : \A x : x \in sendlist'[u] <=> x \in sendlist[u] \/ (u = p /\ x = Entry(c, t))
  BY <1>3 DEF PushSend, TypeOK, Entry
<1>8. c \notin ready
  BY <1>1 DEF CallsInv
<1>9. 0 \notin Ids
  BY DEF Ids
<1> HIDE DEF f, c, p
<1>10. FramesDistinct'
  BY <1>2, <1>3, <1>4, <1>6, ReplaceKeepsDistinct
<1>11. \A d \in Ids : \A u, op : ~IsCall(Top(t), op, d, u)
  BY <1>5, <1>9 DEF IsCall
<1>12. \A v, u \in ThreadSet, d \in Ids :
         InCall(v, "Send", d, u)' <=> InCall(v, "Send", d, u) \/ (v = t /\ d = c /\ u = p)
  BY <1>2, <1>3, <1>4, <1>11, ReplacedCalls DEF IsCall
<1>13. \A v, u \in ThreadSet, d \in Ids : InCall(v, "Handle", d, u)' <=> InCall(v, "Handle", d, u)
  BY <1>2, <1>3, <1>4, <1>11, ReplacedCalls DEF IsCall
<1>14. \A v, u \in ThreadSet : ~InCall(v, "Send", c, u)
  BY <1>6 DEF InCall, IsCall
<1>15. \A v, u \in ThreadSet : ~Waits(u, c, v)
  BY <1>4, <1>14 DEF CallState
<1>16. \A d, u : Entry(d, u) = Entry(c, t) <=> d = c /\ u = t
  BY DEF Entry
<1>17. \A v, u \in ThreadSet, d \in Ids : Waits(u, d, v)' <=> Waits(u, d, v) \/ (v = t /\ d = c /\ u = p)
  BY <1>7, <1>13, <1>16 DEF Waits
<1>18. \A v, u \in ThreadSet, d \in Ids : ~(Entry(d, v) \in sendlist'[u] /\ InCall(u, "Handle", d, v)')
  BY <1>7, <1>13, <1>15, <1>16 DEF CallState, Waits
<1>19. CallState'
  BY <1>1, <1>8, <1>12, <1>17, <1>18 DEF CallState
<1> QED
  BY <1>10, <1>19

\* A Send returns once its flag is set.
LEMMA EndSendKeepsCalls ==
  ASSUME TypeOK, StackInv, FramesDistinct, CallState, NEW t \in ThreadSet, TestReady(t), Top(t).id \in ready
  PROVE  FramesDistinct' /\ CallState'
<1>1. EndSend(t) /\ pc[t] \in SendPCs /\ sendlist' = sendlist /\ ready' = ready
  BY DEF TestReady, SendPCs
<1>2. Popped(t) /\ Depth(t) > 0 /\ Top(t).op = "Send"
  BY <1>1, EndSendStack DEF SendFrame
<1>3. FramesDistinct'
  BY <1>2, PopKeepsDistinct
<1>4. \A v, u \in ThreadSet, d \in Ids : InCall(v, "Handle", d, u)' <=> InCall(v, "Handle", d, u)
  BY <1>2, PoppedCalls DEF IsCall
<1>5. \A v, u \in ThreadSet, d \in Ids :
        InCall(v, "Send", d, u)' <=> InCall(v, "Send", d, u) /\ ~(v = t /\ IsCall(Top(t), "Send", d, u))
  BY <1>2, PoppedCalls
<1>6. \A d, u : IsCall(Top(t), "Send", d, u) => d \in ready
  BY DEF IsCall
<1>7. \A v, u \in ThreadSet, d \in Ids : Waits(u, d, v)' <=> Waits(u, d, v)
  BY <1>1, <1>4 DEF Waits
<1>8. CallState'
  BY <1>1, <1>4, <1>5, <1>6, <1>7 DEF CallState
<1> QED
  BY <1>3, <1>8

\* The handler of a sent message returns and its flag is set.
LEMMA ReplyKeepsCalls ==
  ASSUME TypeOK, StackInv, FramesDistinct, CallState, NEW t \in ThreadSet, Return(t), Inside(t, "Handle")
  PROVE  FramesDistinct' /\ CallState'
<1> DEFINE c == Top(t).id
           p == Top(t).peer
<1>1. Popped(t) /\ Depth(t) > 0
  BY ReturnStack
<1>2. ready' = ready \cup {c} /\ sendlist' = sendlist
  BY DEF Return, Reply
<1>3. c \in Ids /\ p \in ThreadSet /\ InCall(t, "Handle", c, p)
  BY TopHandles, InCalls
<1>4. \A op, d, u : IsCall(Top(t), op, d, u) <=> op = "Handle" /\ d = c /\ u = p
  BY DEF IsCall, Inside
<1> HIDE DEF c, p
<1>5. FramesDistinct'
  BY <1>1, PopKeepsDistinct
<1>6. \A v, u \in ThreadSet, d \in Ids : InCall(v, "Send", d, u)' <=> InCall(v, "Send", d, u)
  BY <1>1, <1>4, PoppedCalls
<1>7. \A v, u \in ThreadSet, d \in Ids :
        InCall(v, "Handle", d, u)' <=> InCall(v, "Handle", d, u) /\ ~(v = t /\ d = c /\ u = p)
  BY <1>1, <1>4, PoppedCalls
<1>8. Waits(t, c, p) /\ Entry(c, p) \notin sendlist[t]
  BY <1>3 DEF Waits, CallState
<1>9. \A v, u \in ThreadSet, d \in Ids : Waits(u, d, v)' <=> Waits(u, d, v) /\ d # c
  <2> SUFFICES ASSUME NEW v \in ThreadSet, NEW u \in ThreadSet, NEW d \in Ids
               PROVE  Waits(u, d, v)' <=> Waits(u, d, v) /\ d # c
    OBVIOUS
  <2>1. CASE d # c
    BY <1>2, <1>7, <2>1 DEF Waits
  <2>2. ASSUME d = c, Waits(u, d, v)' PROVE FALSE
    <3>1. /\ Entry(d, v) \in sendlist[u] \/ InCall(u, "Handle", d, v)
          /\ Entry(d, v) \in sendlist[u] \/ ~(u = t /\ v = p)
      BY <1>2, <1>7, <2>2 DEF Waits
    <3>2. u = t /\ v = p
      BY <1>3, <1>8, <2>2, <3>1, OneWaits DEF Waits
    <3> QED
      BY <1>8, <2>2, <3>1, <3>2
  <2> QED
    BY <2>1, <2>2
<1>10. CallState'
  BY <1>2, <1>6, <1>7, <1>9 DEF CallState
<1> QED
  BY <1>5, <1>10

\* Clear takes messages from the list and sets their flags.
LEMMA ClearKeepsCalls ==
  ASSUME TypeOK, FramesDistinct, CallState, NEW t \in ThreadSet, Clear(t)
  PROVE  FramesDistinct' /\ CallState'
<1>1. PICK S \in SUBSET sendlist[t] :
        sendlist' = [sendlist EXCEPT ![t] = @ \ S] /\ ready' = ready \cup {e.id : e \in S}
  BY DEF Clear
<1>2. stack' = stack
  BY DEF Clear
<1>3. FramesDistinct'
  BY <1>2 DEF FramesDistinct, Depth
<1>4. SameCalls
  BY <1>2 DEF SameCalls, InCall, Depth
<1>5. \A u \in ThreadSet : \A x : x \in sendlist'[u] <=> x \in sendlist[u] /\ ~(u = t /\ x \in S)
  BY <1>1 DEF TypeOK
<1>6. \A d, v : Entry(d, v) \in S => d \in ready'
  BY <1>1 DEF Entry
<1>7. \A v, u \in ThreadSet, d \in Ids : Waits(u, d, v)' <=> Waits(u, d, v) /\ d \notin {e.id : e \in S}
  <2> SUFFICES ASSUME NEW v \in ThreadSet, NEW u \in ThreadSet, NEW d \in Ids
               PROVE  Waits(u, d, v)' <=> Waits(u, d, v) /\ d \notin {e.id : e \in S}
    OBVIOUS
  <2>1. ASSUME NEW e \in S, d = e.id, Waits(u, d, v) PROVE ~Waits(u, d, v)'
    <3>1. e.from \in ThreadSet /\ e = Entry(d, e.from) /\ e \in sendlist[t]
      BY <2>1, EntryOf
    <3>2. Waits(t, d, e.from) /\ ~InCall(t, "Handle", d, e.from)
      BY <3>1 DEF Waits, CallState
    <3>3. u = t /\ v = e.from
      BY <2>1, <3>1, <3>2, OneWaits
    <3>4. ~InCall(t, "Handle", d, v)'
      BY <1>4, <3>2, <3>3 DEF SameCalls
    <3> QED
      BY <1>5, <3>1, <3>3, <3>4 DEF Waits
  <2>2. Waits(u, d, v)' => Waits(u, d, v)
    BY <1>4, <1>5 DEF Waits, SameCalls
  <2>3. Waits(u, d, v) /\ d \notin {e.id : e \in S} => Waits(u, d, v)'
    <3>1. (Entry(d, v)).id = d
      BY DEF Entry
    <3> QED
      BY <1>4, <1>5, <3>1 DEF Waits, SameCalls
  <2> QED
    BY <2>1, <2>2, <2>3
<1>8. \A v, u \in ThreadSet, d \in Ids : ~(Entry(d, v) \in sendlist'[u] /\ InCall(u, "Handle", d, v)')
  BY <1>4, <1>5 DEF CallState, SameCalls
<1>9. CallState'
  BY <1>1, <1>4, <1>7, <1>8 DEF CallState, SameCalls
<1> QED
  BY <1>3, <1>9

\* Other steps: what they call or return from is no numbered call.
NoCall(f) == f.op \in {"Send", "Handle"} => f.op = "Send" /\ f.id = 0

LEMMA OtherStepsKeepCalls ==
  ASSUME TypeOK, FramesDistinct, CallState, sendlist' = sendlist, ready' = ready, NEW t \in ThreadSet,
         \/ stack' = stack
         \/ \E f : Pushed(t, f) /\ NoCall(f)
         \/ Depth(t) > 0 /\ Popped(t) /\ NoCall(Top(t))
         \/ /\ Depth(t) > 0
            /\ \E f : Replaced(t, f) /\ f.op = Top(t).op /\ f.id = Top(t).id /\ f.peer = Top(t).peer
  PROVE  FramesDistinct' /\ CallState'
<1>0. 0 \notin Ids
  BY DEF Ids
<1>1. CASE stack' = stack
  <2>1. SameCalls /\ FramesDistinct'
    BY <1>1 DEF SameCalls, InCall, Depth, FramesDistinct
  <2> QED
    BY <2>1, SameCallsKept
<1>2. ASSUME NEW f, Pushed(t, f), NoCall(f) PROVE FramesDistinct' /\ CallState'
  <2>1. \A op \in {"Send", "Handle"}, c \in Ids : \A u : ~IsCall(f, op, c, u)
    BY <1>0, <1>2 DEF IsCall, NoCall
  <2>2. SameCalls
    BY <1>2, <2>1, PushedCalls DEF SameCalls
  <2>3. FramesDistinct'
    BY <1>2, PushKeepsDistinct DEF NoCall
  <2> QED
    BY <2>2, <2>3, SameCallsKept
<1>3. CASE Depth(t) > 0 /\ Popped(t) /\ NoCall(Top(t))
  <2>1. \A op \in {"Send", "Handle"}, c \in Ids : \A u : ~IsCall(Top(t), op, c, u)
    BY <1>0, <1>3 DEF IsCall, NoCall
  <2>2. SameCalls
    BY <1>3, <2>1, PoppedCalls DEF SameCalls
  <2>3. FramesDistinct'
    BY <1>3, PopKeepsDistinct
  <2> QED
    BY <2>2, <2>3, SameCallsKept
<1>4. ASSUME NEW f, Depth(t) > 0, Replaced(t, f), f.op = Top(t).op, f.id = Top(t).id, f.peer = Top(t).peer
      PROVE  FramesDistinct' /\ CallState'
  <2>1. \A op, c, u : IsCall(Top(t), op, c, u) <=> IsCall(f, op, c, u)
    BY <1>4 DEF IsCall
  <2>2. \A op, c, u : IsCall(f, op, c, u) => InCall(t, op, c, u)
    BY <1>4, <2>1, DepthType DEF InCall, Top
  <2>3. SameCalls
    BY <1>4, <2>1, <2>2, ReplacedCalls DEF SameCalls
  <2>4. FramesDistinct'
    BY <1>4, ReplaceKeepsDistinct
  <2> QED
    BY <2>3, <2>4, SameCallsKept
<1> QED
  BY <1>1, <1>2, <1>3, <1>4

LEMMA CallStateStep ==
  ASSUME TypeOK, StackInv, CallsInv, FramesDistinct, CallState, [Next]_vars
  PROVE  FramesDistinct' /\ CallState'
<1> DEFINE Goal == FramesDistinct' /\ CallState'
<1>1. ASSUME NEW t \in ThreadSet, Post(t) \/ Quit(t) \/ WakeTarget(t) \/ CheckStop(t) \/ EndWait(t) PROVE Goal
  <2>1. sendlist' = sendlist /\ ready' = ready /\ stack' = stack
    BY <1>1 DEF Post, Quit, WakeTarget, CheckStop, EndWait
  <2> QED
    BY <2>1, OtherStepsKeepCalls
<1>2. ASSUME NEW t \in ThreadSet, Clear(t) PROVE Goal
  BY <1>2, ClearKeepsCalls
<1>3. ASSUME NEW t \in ThreadSet, PushSend(t) PROVE Goal
  BY <1>3, PushSendKeepsCalls
<1>4. ASSUME NEW t \in ThreadSet, TestReady(t) PROVE Goal
  <2>1. CASE Top(t).id \in ready
    BY <1>4, <2>1, EndSendKeepsCalls
  <2>2. CASE Top(t).id \notin ready
    BY <1>4, <2>2, OtherStepsKeepCalls DEF TestReady
  <2> QED
    BY <2>1, <2>2
<1>5. ASSUME NEW t \in ThreadSet, ReceiveFromTarget(t) PROVE Goal
  <2>1. CASE SentBy(t, Top(t).peer) # {}
    BY <1>5, <2>1, TakeKeepsCalls, ReceiveFromTargetTakes DEF ReceiveFromTarget
  <2>2. CASE SentBy(t, Top(t).peer) = {}
    BY <1>5, <2>2, OtherStepsKeepCalls DEF ReceiveFromTarget
  <2> QED
    BY <2>1, <2>2
<1>6. ASSUME NEW t \in ThreadSet, EndSendWait(t) PROVE Goal
  <2> DEFINE f == [Top(t) EXCEPT !.waited = TRUE]
  <2>1. Replaced(t, f) /\ Top(t) \in SendFrame
    BY <1>6, EndSendWaitStack
  <2>2. f.op = Top(t).op /\ f.id = Top(t).id /\ f.peer = Top(t).peer
    BY <2>1 DEF SendFrame
  <2>3. Depth(t) > 0
    BY <1>6, TopOfSend DEF EndSendWait, SendPCs
  <2> HIDE DEF f
  <2> QED
    BY <1>6, <2>1, <2>2, <2>3, OtherStepsKeepCalls DEF EndSendWait
<1>7. ASSUME NEW t \in ThreadSet, ReceiveSends(t) PROVE Goal
  <2>1. CASE sendlist[t] # {}
    BY <1>7, <2>1, TakeKeepsCalls, ReceiveSendsTakes DEF ReceiveSends
  <2>2. CASE sendlist[t] = {}
    BY <1>7, <2>2, OtherStepsKeepCalls DEF ReceiveSends
  <2> QED
    BY <2>1, <2>2
<1>8. ASSUME NEW t \in ThreadSet, TakePosted(t) PROVE Goal
  <2>1. CASE msgs[t] > 0
    <3>1. Pushed(t, [op |-> "Dispatch"]) /\ NoCall([op |-> "Dispatch"])
      BY <1>8, <2>1, TakePostedStack DEF NoCall
    <3> QED
      BY <1>8, <3>1, OtherStepsKeepCalls DEF TakePosted
  <2>2. CASE ~(msgs[t] > 0)
    BY <1>8, <2>2, OtherStepsKeepCalls DEF TakePosted
  <2> QED
    BY <2>1, <2>2
<1>9. ASSUME NEW t \in ThreadSet, Return(t) PROVE Goal
  <2>1. CASE Inside(t, "Handle")
    BY <1>9, <2>1, ReplyKeepsCalls
  <2>2. CASE ~Inside(t, "Handle")
    <3>1. Popped(t) /\ Depth(t) > 0 /\ Top(t).op \in {"Handle", "Dispatch"}
      BY <1>9, ReturnStack
    <3>2. NoCall(Top(t))
      BY <2>2, <3>1 DEF Inside, NoCall
    <3> QED
      BY <1>9, <2>2, <3>1, <3>2, OtherStepsKeepCalls DEF Return
  <2> QED
    BY <2>1, <2>2
<1>10. ASSUME NEW t \in ThreadSet, EndJoin(t) PROVE Goal
  <2>1. Popped(t) /\ Depth(t) > 0 /\ NoCall(Top(t))
    BY <1>10, EndJoinStack DEF NoCall
  <2> QED
    BY <1>10, <2>1, OtherStepsKeepCalls DEF EndJoin
<1>11. ASSUME NEW t \in ThreadSet, NEW u \in ThreadSet, BeginSend(t, u) PROVE Goal
  <2> DEFINE f == [op |-> "Send", id |-> 0, peer |-> u, waited |-> FALSE]
  <2>1. Pushed(t, f) /\ NoCall(f)
    BY <1>11, BeginSendStack DEF NoCall
  <2> HIDE DEF f
  <2> QED
    BY <1>11, <2>1, OtherStepsKeepCalls DEF BeginSend
<1>12. ASSUME NEW t \in ThreadSet, NEW u \in ThreadSet, Stop(t, u) PROVE Goal
  <2> DEFINE f == [op |-> "Join", peer |-> u]
  <2>1. Pushed(t, f) /\ NoCall(f)
    BY <1>12, StopStack DEF NoCall
  <2> HIDE DEF f
  <2> QED
    BY <1>12, <2>1, OtherStepsKeepCalls DEF Stop
<1>13. ASSUME NEW t \in ThreadSet, NEW u \in ThreadSet, Start(t, u) PROVE Goal
  BY <1>13, OtherStepsKeepCalls DEF Start
<1>14. CASE UNCHANGED vars
  <2>1. SameCalls /\ FramesDistinct'
    BY <1>14 DEF vars, SameCalls, InCall, Depth, FramesDistinct
  <2> QED
    BY <1>14, <2>1, SameCallsKept DEF vars
<1> QED
  BY <1>1, <1>2, <1>3, <1>4, <1>5, <1>6, <1>7, <1>8, <1>9, <1>10, <1>11, <1>12, <1>13, <1>14
     DEF Next, Step

-----------------------------------------------------------------------------
(* Wake-ups *)

\* A message that is going to be announced still is.
KeepsAnnounced == \A v \in ThreadSet : \A e \in sendlist[v] : Announced(e) => Announced(e)'

LEMMA StepKeepsAnnounced ==
  ASSUME TypeOK, NEW t \in ThreadSet, OnlyMoves(t), pc[t] # "wake",
         \A v \in ThreadSet \ {t} : stack'[v] = stack[v]
  PROVE  KeepsAnnounced
<1> SUFFICES ASSUME NEW v \in ThreadSet, NEW e \in sendlist[v], Announced(e) PROVE Announced(e)'
  BY DEF KeepsAnnounced
<1>1. e.from \in ThreadSet \ {t} /\ pc[e.from] = "wake"
  BY EntryOf DEF Announced
<1>2. stack'[e.from] = stack[e.from] /\ pc'[e.from] = "wake"
  BY <1>1 DEF OnlyMoves, LoopPCs
<1> QED
  BY <1>2 DEF Announced, Top, Depth

LEMMA StillKeepsAnnounced ==
  ASSUME pc' = pc, stack' = stack
  PROVE  KeepsAnnounced
BY DEF KeepsAnnounced, Announced, Top, Depth

\* The flags set in this step are of calls of woken threads.
NewFlagsWake(v) ==
  \A i \in 1 .. Depth(v) :
    stack[v][i].op = "Send" /\ stack[v][i].id \in ready' => stack[v][i].id \in ready \/ woken'[v]

\* What a step may give v to do, it wakes v for.
Calm(v) ==
  /\ woken[v] => woken'[v]
  /\ msgs[v] = 0 /\ ~woken'[v] => msgs'[v] = 0
  /\ fStop'[v] /\ ~woken'[v] => fStop[v]
  /\ NewFlagsWake(v)
  /\ \A e \in sendlist'[v] : Announced(e)' \/ (e \in sendlist[v] /\ (Announced(e) => Announced(e)' \/ woken'[v]))

LEMMA CalmSleeps ==
  ASSUME NEW v \in ThreadSet, Quiet(v), FlagWakes(v), Calm(v), stack'[v] = stack[v],
         pc'[v] \in {"queue", "check", "wait", "recv", "swait"} => pc'[v] = pc[v]
  PROVE  Quiet(v)' /\ FlagWakes(v)'
<1>1. Depth(v)' = Depth(v) /\ Top(v)' = Top(v)
  BY DEF Depth, Top
<1>2. pc'[v] \in {"queue", "check", "wait"} /\ ~woken'[v] => \A e \in sendlist'[v] : Announced(e)'
  BY DEF Quiet, Calm
<1>3. pc'[v] \in {"check", "wait"} /\ ~woken'[v] => msgs'[v] = 0
  BY DEF Quiet, Calm
<1>4. pc'[v] = "wait" /\ ~woken'[v] => ~fStop'[v]
  BY DEF Quiet, Calm
<1>5. pc'[v] = "swait" /\ ~woken'[v] => \A e \in sendlist'[v] : e.from = Top(v).peer => Announced(e)'
  BY DEF Quiet, Calm, SentBy
<1>6. Quiet(v)'
  BY <1>1, <1>2, <1>3, <1>4, <1>5 DEF Quiet, SentBy
<1>7. FlagWakes(v)'
  <2> SUFFICES ASSUME NEW i \in 1 .. Depth(v), Tested(v, i)', stack[v][i].id \in ready' PROVE WillWake(v, i)'
    BY <1>1 DEF FlagWakes
  <2>1. Tested(v, i)
    BY <1>1 DEF Tested
  <2>2. stack[v][i].id \in ready \/ woken'[v]
    BY <2>1 DEF Calm, NewFlagsWake, Tested
  <2>3. stack[v][i].id \in ready => WillWake(v, i)
    BY <2>1 DEF FlagWakes
  <2> QED
    BY <1>1, <2>2, <2>3 DEF WillWake, Calm
<1> QED
  BY <1>6, <1>7

\* The flags of t when t itself moves: it goes on,
LEMMA SameKeepsFlags ==
  ASSUME NEW t \in ThreadSet, FlagWakes(t), woken[t] => woken'[t], NewFlagsWake(t), stack'[t] = stack[t],
         pc'[t] \in {"recv", "swait"} => pc[t] \in {"recv", "swait"} \/ Top(t).id \notin ready',
         Depth(t) \in Nat
  PROVE  FlagWakes(t)'
<1>1. Depth(t)' = Depth(t) /\ Top(t)' = Top(t)
  BY DEF Depth, Top
<1> SUFFICES ASSUME NEW i \in 1 .. Depth(t), Tested(t, i)', stack[t][i].id \in ready' PROVE WillWake(t, i)'
  BY <1>1 DEF FlagWakes
<1>2. i < Depth(t) \/ i = Depth(t)
  OBVIOUS
<1>3. Tested(t, i)
  BY <1>1, <1>2 DEF Tested, Top
<1>4. stack[t][i].id \in ready \/ woken'[t]
  BY <1>3 DEF NewFlagsWake, Tested
<1>5. stack[t][i].id \in ready => WillWake(t, i)
  BY <1>3 DEF FlagWakes
<1> QED
  BY <1>1, <1>4, <1>5 DEF WillWake

\* calls something,
LEMMA PushKeepsFlags ==
  ASSUME TypeOK, NEW t \in ThreadSet, FlagWakes(t), woken[t] => woken'[t], NewFlagsWake(t), NEW f, Pushed(t, f),
         Depth(t) > 0 /\ Top(t).op = "Send" => pc[t] \in {"recv", "swait"},
         pc'[t] \notin {"recv", "swait"}
  PROVE  FlagWakes(t)'
<1>1. Depth(t) \in Nat /\ Depth(t)' = Depth(t) + 1
  BY DepthType DEF Pushed, Depth
<1> SUFFICES ASSUME NEW i \in 1 .. Depth(t) + 1, Tested(t, i)', stack'[t][i].id \in ready' PROVE WillWake(t, i)'
  BY <1>1 DEF FlagWakes
<1>2. i \in 1 .. Depth(t)
  BY <1>1 DEF Tested
<1>3. stack'[t][i] = stack[t][i] /\ stack[t][i].op = "Send"
  BY <1>2 DEF Pushed, Tested
<1>4. Tested(t, i)
  BY <1>1, <1>2, <1>3 DEF Tested, Top
<1>5. stack[t][i].id \in ready \/ woken'[t]
  BY <1>2, <1>3 DEF NewFlagsWake
<1>6. stack[t][i].id \in ready => WillWake(t, i)
  BY <1>2, <1>4 DEF FlagWakes
<1>7. \A j \in i + 1 .. Depth(t) : j \in i + 1 .. Depth(t) + 1 /\ stack'[t][j] = stack[t][j]
  BY <1>1, <1>2 DEF Pushed
<1> QED
  BY <1>1, <1>5, <1>6, <1>7 DEF WillWake

\* returns from a call,
LEMMA PopKeepsFlags ==
  ASSUME TypeOK, NEW t \in ThreadSet, FlagWakes(t), woken[t] => woken'[t], NewFlagsWake(t), Popped(t),
         Depth(t) > 0, Top(t).op = "Send" /\ Top(t).waited => woken'[t]
  PROVE  FlagWakes(t)'
<1>1. Depth(t) \in Nat /\ Depth(t)' = Depth(t) - 1
  BY DepthType DEF Popped, Depth
<1> SUFFICES ASSUME NEW i \in 1 .. Depth(t) - 1, Tested(t, i)', stack'[t][i].id \in ready' PROVE WillWake(t, i)'
  BY <1>1 DEF FlagWakes
<1>2. i \in 1 .. Depth(t) /\ i < Depth(t)
  BY <1>1
<1>3. stack'[t][i] = stack[t][i] /\ stack[t][i].op = "Send"
  BY DEF Popped, Tested
<1>4. Tested(t, i)
  BY <1>2, <1>3 DEF Tested
<1>5. stack[t][i].id \in ready \/ woken'[t]
  BY <1>2, <1>3 DEF NewFlagsWake
<1>6. stack[t][i].id \in ready => WillWake(t, i)
  BY <1>2, <1>4 DEF FlagWakes
<1>7. \A j \in i + 1 .. Depth(t) : j = Depth(t) \/ (j \in i + 1 .. Depth(t) - 1 /\ stack'[t][j] = stack[t][j])
  BY <1>1, <1>2 DEF Popped
<1> QED
  BY <1>1, <1>5, <1>6, <1>7 DEF WillWake, Top

\* goes on with its innermost Send.
LEMMA ReplaceKeepsFlags ==
  ASSUME TypeOK, NEW t \in ThreadSet, FlagWakes(t), ready' = ready, NEW f, Replaced(t, f), Depth(t) > 0,
         f.op = "Send", Top(t).waited => f.waited, woken[t] => woken'[t] \/ f.waited,
         pc'[t] \notin {"recv", "swait"}
  PROVE  FlagWakes(t)'
<1>1. Depth(t) \in Nat /\ Depth(t)' = Depth(t)
  BY DepthType DEF Replaced, Depth
<1> SUFFICES ASSUME NEW i \in 1 .. Depth(t), Tested(t, i)', stack'[t][i].id \in ready PROVE WillWake(t, i)'
  BY <1>1 DEF FlagWakes
<1>2. i \in 1 .. Depth(t) - 1 /\ i < Depth(t) /\ Depth(t) \in i + 1 .. Depth(t)
  BY <1>1 DEF Tested
<1>3. stack'[t][i] = stack[t][i] /\ stack[t][i].op = "Send"
  BY <1>2 DEF Replaced, Tested
<1>4. Tested(t, i)
  BY <1>2, <1>3 DEF Tested
<1>5. WillWake(t, i)
  BY <1>3, <1>4 DEF FlagWakes
<1>6. \A j \in i + 1 .. Depth(t) : j = Depth(t) \/ stack'[t][j] = stack[t][j]
  BY <1>1, <1>2 DEF Replaced
<1>7. stack'[t][Depth(t)] = f
  BY DEF Replaced
<1>8. CASE woken[t]
  BY <1>1, <1>2, <1>7, <1>8 DEF WillWake
<1>9. ASSUME NEW j \in i + 1 .. Depth(t), stack[t][j].op = "Send", stack[t][j].waited PROVE WillWake(t, i)'
  <2>1. stack'[t][j].op = "Send" /\ stack'[t][j].waited
    BY <1>6, <1>7, <1>9 DEF Top
  <2> QED
    BY <1>1, <2>1 DEF WillWake
<1> QED
  BY <1>5, <1>8, <1>9 DEF WillWake

\* Most steps give other threads nothing to do.
LEMMA PlainCalm ==
  ASSUME KeepsAnnounced, NEW v \in ThreadSet, sendlist'[v] \subseteq sendlist[v], woken[v] => woken'[v],
         msgs[v] = 0 => msgs'[v] = 0, fStop'[v] = fStop[v], NewFlagsWake(v)
  PROVE  Calm(v)
BY DEF Calm, KeepsAnnounced

LEMMA OldFlags ==
  ASSUME ready' = ready
  PROVE  \A v \in ThreadSet : NewFlagsWake(v)
BY DEF NewFlagsWake

\* Whoever waits for a flag is the thread that is woken up with it.
LEMMA FlagOwner ==
  ASSUME FramesDistinct, CallState, NEW u \in ThreadSet, NEW p \in ThreadSet, NEW c \in Ids, Waits(u, c, p),
         NEW v \in ThreadSet, NEW i \in 1 .. Depth(v), stack[v][i].op = "Send", stack[v][i].id = c
  PROVE  v = p /\ stack[v][i].peer = u
<1>1. PICK j \in 1 .. Depth(p) : IsCall(stack[p][j], "Send", c, u)
  BY DEF CallState, InCall
<1>2. IsCall(stack[v][i], "Send", c, stack[v][i].peer)
  BY DEF IsCall
<1> QED
  BY <1>1, <1>2, OneFrame

LEMMA AllCalm ==
  ASSUME WakeInv, stack' = stack, pc' = pc, \A v \in ThreadSet : Calm(v)
  PROVE  WakeInv'
BY CalmSleeps DEF WakeInv

LEMMA OthersCalm ==
  ASSUME WakeInv, NEW t \in ThreadSet, OnlyMoves(t), \A v \in ThreadSet \ {t} : stack'[v] = stack[v] /\ Calm(v),
         Quiet(t)', FlagWakes(t)'
  PROVE  WakeInv'
<1> SUFFICES ASSUME NEW v \in ThreadSet \ {t} PROVE Quiet(v)' /\ FlagWakes(v)'
  BY DEF WakeInv
<1>1. pc'[v] \in {"queue", "check", "wait", "recv", "swait"} => pc'[v] = pc[v]
  BY DEF OnlyMoves
<1> QED
  BY <1>1, CalmSleeps DEF WakeInv

\* A thread that does not sleep, and is not going to, is quiet.
LEMMA AwakeIsQuiet ==
  ASSUME NEW t \in ThreadSet, pc'[t] \notin {"queue", "check", "wait", "swait"}
  PROVE  Quiet(t)'
BY DEF Quiet

\* The flags set by Clear, and those set by a handler that returns.
LEMMA ClearWakes ==
  ASSUME TypeOK, FramesDistinct, CallState, NEW t \in ThreadSet, NEW S \in SUBSET sendlist[t],
         ready' = ready \cup {e.id : e \in S}, WakeUp({e.from : e \in S}), NEW v \in ThreadSet
  PROVE  NewFlagsWake(v)
<1> SUFFICES ASSUME NEW i \in 1 .. Depth(v), stack[v][i].op = "Send", NEW e \in S, stack[v][i].id = e.id
             PROVE  woken'[v]
  BY DEF NewFlagsWake
<1>1. e.id \in Ids /\ e.from \in ThreadSet /\ Waits(t, e.id, e.from)
  BY EntryOf DEF Waits
<1>2. v = e.from
  BY <1>1, FlagOwner
<1> QED
  BY <1>2, WakeUpWakes

LEMMA ReplyWakes ==
  ASSUME TypeOK, FramesDistinct, CallState, NEW t \in ThreadSet, Inside(t, "Handle"), Reply(t), NEW v \in ThreadSet
  PROVE  NewFlagsWake(v)
<1> SUFFICES ASSUME NEW i \in 1 .. Depth(v), stack[v][i].op = "Send", stack[v][i].id = Top(t).id
             PROVE  woken'[v]
  BY DEF NewFlagsWake, Reply
<1>1. Top(t).id \in Ids /\ Top(t).peer \in ThreadSet /\ Waits(t, Top(t).id, Top(t).peer)
  BY TopHandles, InCalls DEF Waits
<1>2. v = Top(t).peer
  BY <1>1, FlagOwner
<1> QED
  BY <1>2, WakeUpWakes DEF Reply

\* The target that a Send wakes up is the thread that has its message.
LEMMA WakeTargetWakes ==
  ASSUME TypeOK, StackInv, FramesDistinct, CallState, NEW t \in ThreadSet, WakeTarget(t),
         NEW v \in ThreadSet, NEW e \in sendlist[v], Announced(e)
  PROVE  Announced(e)' \/ woken'[v]
<1>1. e.id \in Ids /\ e.from \in ThreadSet /\ Waits(v, e.id, e.from)
  BY EntryOf DEF Waits
<1>2. CASE e.from = t
  <2>1. Depth(t) \in 1 .. Depth(t) /\ Top(t).op = "Send" /\ Top(t).id = e.id
    BY <1>2, TopOfSend DEF WakeTarget, SendPCs, Announced
  <2>2. Top(t).peer = v
    BY <1>1, <2>1, FlagOwner DEF Top
  <2> QED
    BY <2>2, WakeUpWakes DEF WakeTarget
<1>3. CASE e.from # t
  <2>1. pc'[e.from] = pc[e.from] /\ stack' = stack
    BY <1>1, <1>3, GotoMoves DEF WakeTarget, PCs
  <2> QED
    BY <2>1 DEF Announced, Top, Depth
<1> QED
  BY <1>2, <1>3

-----------------------------------------------------------------------------
LEMMA WakeStep ==
  ASSUME TypeOK, StackInv, CallsInv, FramesDistinct, CallState, WakeInv, [Next]_vars
  PROVE  WakeInv'
<1>0. \A t \in ThreadSet : Quiet(t) /\ FlagWakes(t) /\ Depth(t) \in Nat
  BY DepthType DEF WakeInv
<1>1. ASSUME NEW t \in ThreadSet, Post(t) PROVE WakeInv'
  <2>1. KeepsAnnounced /\ \A v \in ThreadSet : NewFlagsWake(v)
    BY <1>1, StillKeepsAnnounced, OldFlags DEF Post
  <2>2. \A v \in ThreadSet : (woken'[v] <=> woken[v] \/ v = t) /\ (v # t => msgs'[v] = msgs[v])
    BY <1>1, WakeUpWakes DEF Post, TypeOK
  <2>3. \A v \in ThreadSet : Calm(v)
    BY <1>1, <2>1, <2>2 DEF Post, Calm, KeepsAnnounced
  <2> QED
    BY <1>1, <2>3, AllCalm DEF Post
<1>2. ASSUME NEW t \in ThreadSet, Clear(t) PROVE WakeInv'
  <2>1. PICK S \in SUBSET sendlist[t], k \in 0 .. msgs[t] :
          /\ sendlist' = [sendlist EXCEPT ![t] = @ \ S]
          /\ ready' = ready \cup {e.id : e \in S}
          /\ msgs' = [msgs EXCEPT ![t] = @ - k]
          /\ WakeUp({e.from : e \in S})
    BY <1>2 DEF Clear
  <2>2. KeepsAnnounced
    BY <1>2, StillKeepsAnnounced DEF Clear
  <2>3. \A v \in ThreadSet : NewFlagsWake(v)
    BY <2>1, ClearWakes
  <2>4. \A v \in ThreadSet : sendlist'[v] \subseteq sendlist[v] /\ (woken[v] => woken'[v])
    BY <2>1, WakeUpWakes DEF TypeOK
  <2>5. \A v \in ThreadSet : msgs[v] = 0 => msgs'[v] = 0
    <3>1. msgs[t] = 0 => k = 0
      OBVIOUS
    <3>2. \A v \in ThreadSet : v # t => msgs'[v] = msgs[v]
      BY <2>1 DEF TypeOK
    <3>3. msgs'[t] = msgs[t] - k
      BY <2>1 DEF TypeOK
    <3> QED
      BY <3>1, <3>2, <3>3
  <2>6. \A v \in ThreadSet : Calm(v)
    BY <1>2, <2>2, <2>3, <2>4, <2>5, PlainCalm DEF Clear
  <2> QED
    BY <1>2, <2>6, AllCalm DEF Clear
<1>3. ASSUME NEW t \in ThreadSet, Quit(t) PROVE WakeInv'
  <2>1. KeepsAnnounced /\ \A v \in ThreadSet : NewFlagsWake(v)
    BY <1>3, StillKeepsAnnounced, OldFlags DEF Quit
  <2>2. \A v \in ThreadSet : (woken'[v] <=> woken[v] \/ v = t) /\ (v # t => fStop'[v] = fStop[v])
    <3>1. WakeUp({t}) /\ fStop' = [fStop EXCEPT ![t] = TRUE]
      BY <1>3 DEF Quit, SetStop
    <3>2. \A v \in ThreadSet : woken'[v] <=> woken[v] \/ v = t
      BY <3>1, WakeUpWakes
    <3>3. \A v \in ThreadSet : v # t => fStop'[v] = fStop[v]
      BY <3>1 DEF TypeOK
    <3> QED
      BY <3>2, <3>3
  <2>3. \A v \in ThreadSet : Calm(v)
    BY <1>3, <2>1, <2>2 DEF Quit, Calm, KeepsAnnounced
  <2> QED
    BY <1>3, <2>3, AllCalm DEF Quit
<1>4. ASSUME NEW t \in ThreadSet, PushSend(t) PROVE WakeInv'
  <2> DEFINE f == [Top(t) EXCEPT !.id = sent + 1]
  <2>1. pc[t] = "push" /\ sent < MaxSends
    BY <1>4, PushHasRoom DEF PushSend
  <2>2. Replaced(t, f) /\ Top(t) \in SendFrame /\ pc'[t] = "wake" /\ OnlyMoves(t)
    BY <1>4, <2>1, PushSendStack
  <2>3. Depth(t) \in Nat \ {0} /\ f.op = "Send" /\ f.id = sent + 1 /\ (Top(t).waited => f.waited)
    BY <2>1, <2>2, TopOfSend DEF SendPCs, SendFrame
  <2> HIDE DEF f
  <2>4. FlagWakes(t)'
    BY <1>0, <1>4, <2>2, <2>3, ReplaceKeepsFlags DEF PushSend
  <2>5. KeepsAnnounced
    BY <2>1, <2>2, StepKeepsAnnounced DEF Replaced
  <2>6. \A v \in ThreadSet : \A e \in sendlist'[v] : e \in sendlist[v] \/ e = [id |-> sent + 1, from |-> t]
    BY <1>4 DEF PushSend, TypeOK
  <2>7. \A v \in ThreadSet : \A e \in sendlist'[v] : e \in sendlist[v] \/ Announced(e)'
    BY <2>2, <2>3, <2>6 DEF Announced, Replaced, Top, Depth
  <2>8. \A v \in ThreadSet : Calm(v)
    BY <1>4, <2>5, <2>7 DEF PushSend, Calm, KeepsAnnounced, NewFlagsWake
  <2> QED
    BY <2>2, <2>4, <2>8, AwakeIsQuiet, OthersCalm DEF Replaced
<1>5. ASSUME NEW t \in ThreadSet, WakeTarget(t) PROVE WakeInv'
  <2>1. stack' = stack /\ pc'[t] = "test" /\ OnlyMoves(t)
    BY <1>5, GotoMoves DEF WakeTarget, PCs
  <2>2. \A v \in ThreadSet : NewFlagsWake(v) /\ (woken[v] => woken'[v])
    BY <1>5, OldFlags, WakeUpWakes DEF WakeTarget
  <2>3. FlagWakes(t)'
    BY <1>0, <2>1, <2>2, SameKeepsFlags
  <2>4. \A v \in ThreadSet : \A e \in sendlist[v] : Announced(e) => Announced(e)' \/ woken'[v]
    BY <1>5, WakeTargetWakes
  <2>5. \A v \in ThreadSet : Calm(v)
    BY <1>5, <2>2, <2>4 DEF WakeTarget, Calm
  <2> QED
    BY <2>1, <2>3, <2>5, AwakeIsQuiet, OthersCalm
<1>6. ASSUME NEW t \in ThreadSet, TestReady(t) PROVE WakeInv'
  <2>1. \A v \in ThreadSet : NewFlagsWake(v)
    BY <1>6, OldFlags DEF TestReady
  <2>2. CASE Top(t).id \in ready
    <3>1. EndSend(t) /\ pc[t] \in SendPCs /\ pc[t] # "wake"
      BY <1>6, <2>2 DEF TestReady, SendPCs
    <3>2. Popped(t) /\ Depth(t) > 0 /\ pc'[t] = "run" /\ OnlyMoves(t)
      BY <3>1, EndSendStack
    <3>3. KeepsAnnounced
      BY <3>1, <3>2, StepKeepsAnnounced DEF Popped
    <3>4. (\A v \in ThreadSet : woken[v] => woken'[v]) /\ (Top(t).waited => woken'[t])
      BY <3>1, WakeUpWakes DEF EndSend
    <3>5. FlagWakes(t)'
      BY <1>0, <2>1, <3>2, <3>4, PopKeepsFlags
    <3>6. \A v \in ThreadSet : Calm(v)
      BY <1>6, <2>1, <3>3, <3>4, PlainCalm DEF TestReady
    <3> QED
      BY <3>2, <3>5, <3>6, AwakeIsQuiet, OthersCalm DEF Popped
  <2>3. CASE Top(t).id \notin ready
    <3>1. stack' = stack /\ woken' = woken /\ ready' = ready /\ pc'[t] = "recv" /\ OnlyMoves(t) /\ pc[t] # "wake"
      BY <1>6, <2>3, GotoMoves DEF TestReady, PCs
    <3>2. FlagWakes(t)'
      BY <1>0, <2>1, <2>3, <3>1, SameKeepsFlags
    <3>3. KeepsAnnounced
      BY <3>1, StepKeepsAnnounced
    <3>4. \A v \in ThreadSet : Calm(v)
      BY <1>6, <2>1, <3>1, <3>3, PlainCalm DEF TestReady
    <3> QED
      BY <3>1, <3>2, <3>4, AwakeIsQuiet, OthersCalm
  <2> QED
    BY <2>2, <2>3
<1>7. ASSUME NEW t \in ThreadSet, NEW e, Takes(t, e), UNCHANGED <<fStop, msgs, woken, ready>>, pc[t] # "wake",
             Depth(t) > 0 => pc[t] = "recv"
      PROVE  WakeInv'
  <2>1. Pushed(t, HandleFrame(e)) /\ pc'[t] = "run" /\ OnlyMoves(t)
    BY <1>7 DEF Takes
  <2>2. \A v \in ThreadSet : NewFlagsWake(v) /\ sendlist'[v] \subseteq sendlist[v]
    BY <1>7, OldFlags DEF Takes, TypeOK
  <2>3. FlagWakes(t)'
    BY <1>0, <1>7, <2>1, <2>2, PushKeepsFlags
  <2>4. KeepsAnnounced
    BY <1>7, <2>1, StepKeepsAnnounced DEF Pushed
  <2>5. \A v \in ThreadSet : Calm(v)
    BY <1>7, <2>2, <2>4, PlainCalm
  <2> QED
    BY <2>1, <2>3, <2>5, AwakeIsQuiet, OthersCalm DEF Pushed
<1>8. ASSUME NEW t \in ThreadSet, ReceiveFromTarget(t) PROVE WakeInv'
  <2>1. CASE SentBy(t, Top(t).peer) # {}
    BY <1>8, <2>1, <1>7, ReceiveFromTargetTakes DEF ReceiveFromTarget
  <2>2. CASE SentBy(t, Top(t).peer) = {}
    <3>1. /\ stack' = stack /\ woken' = woken /\ ready' = ready /\ sendlist' = sendlist
          /\ pc'[t] = "swait" /\ OnlyMoves(t) /\ pc[t] = "recv"
      BY <1>8, <2>2, GotoMoves DEF ReceiveFromTarget, PCs
    <3>2. \A v \in ThreadSet : NewFlagsWake(v)
      BY <3>1, OldFlags
    <3>3. FlagWakes(t)'
      BY <1>0, <3>1, <3>2, SameKeepsFlags
    <3>4. KeepsAnnounced
      BY <3>1, StepKeepsAnnounced
    <3>5. \A v \in ThreadSet : Calm(v)
      BY <1>8, <3>1, <3>2, <3>4, PlainCalm DEF ReceiveFromTarget
    <3>6. Quiet(t)'
      <4>1. \A e \in SentBy(t, Top(t).peer)' : FALSE
        BY <2>2, <3>1 DEF SentBy, Top, Depth
      <4> QED
        BY <3>1, <4>1 DEF Quiet
    <3> QED
      BY <3>1, <3>3, <3>5, <3>6, OthersCalm
  <2> QED
    BY <2>1, <2>2
<1>9. ASSUME NEW t \in ThreadSet, EndSendWait(t) PROVE WakeInv'
  <2> DEFINE f == [Top(t) EXCEPT !.waited = TRUE]
  <2>1. Replaced(t, f) /\ Top(t) \in SendFrame /\ pc'[t] = "test" /\ OnlyMoves(t)
    BY <1>9, EndSendWaitStack
  <2>2. Depth(t) > 0 /\ f.op = "Send" /\ f.waited
    BY <1>9, <2>1, TopOfSend DEF EndSendWait, SendPCs, SendFrame
  <2> HIDE DEF f
  <2>3. FlagWakes(t)'
    BY <1>0, <1>9, <2>1, <2>2, ReplaceKeepsFlags DEF EndSendWait
  <2>4. KeepsAnnounced
    BY <1>9, <2>1, StepKeepsAnnounced DEF EndSendWait, Replaced
  <2>5. \A v \in ThreadSet : NewFlagsWake(v)
    BY <1>9, OldFlags DEF EndSendWait
  <2>6. \A v \in ThreadSet \ {t} : Calm(v)
    BY <1>9, <2>4, <2>5, PlainCalm DEF EndSendWait, TypeOK
  <2> QED
    BY <2>1, <2>3, <2>6, AwakeIsQuiet, OthersCalm DEF Replaced
<1>10. ASSUME NEW t \in ThreadSet, ReceiveSends(t) PROVE WakeInv'
  <2>0. Depth(t) = 0 /\ pc[t] = "loop"
    BY <1>10 DEF ReceiveSends, StackInv, Fits, LoopPCs
  <2>1. CASE sendlist[t] # {}
    BY <1>10, <2>0, <2>1, <1>7, ReceiveSendsTakes DEF ReceiveSends
  <2>2. CASE sendlist[t] = {}
    <3>1. /\ stack' = stack /\ woken' = woken /\ ready' = ready /\ sendlist' = sendlist
          /\ pc'[t] = "queue" /\ OnlyMoves(t)
      BY <1>10, <2>2, GotoMoves DEF ReceiveSends, PCs
    <3>2. \A v \in ThreadSet : NewFlagsWake(v)
      BY <3>1, OldFlags
    <3>3. FlagWakes(t)'
      BY <1>0, <3>1, <3>2, SameKeepsFlags
    <3>4. KeepsAnnounced
      BY <2>0, <3>1, StepKeepsAnnounced
    <3>5. \A v \in ThreadSet : Calm(v)
      BY <1>10, <3>1, <3>2, <3>4, PlainCalm DEF ReceiveSends
    <3>6. Quiet(t)'
      BY <2>2, <3>1 DEF Quiet
    <3> QED
      BY <3>1, <3>3, <3>5, <3>6, OthersCalm
  <2> QED
    BY <2>1, <2>2
<1>11. ASSUME NEW t \in ThreadSet, TakePosted(t) PROVE WakeInv'
  <2>0. Depth(t) = 0 /\ pc[t] = "queue" /\ woken' = woken /\ ready' = ready /\ sendlist' = sendlist /\ fStop' = fStop
    BY <1>11 DEF TakePosted, StackInv, Fits, LoopPCs
  <2>1. \A v \in ThreadSet : NewFlagsWake(v)
    BY <2>0, OldFlags
  <2>2. CASE msgs[t] > 0
    <3>1. Pushed(t, [op |-> "Dispatch"]) /\ pc'[t] = "run" /\ OnlyMoves(t)
      BY <1>11, <2>2, TakePostedStack
    <3>2. \A v \in ThreadSet \ {t} : msgs'[v] = msgs[v]
      BY <1>11, <2>2 DEF TakePosted, TypeOK
    <3>3. FlagWakes(t)'
      BY <1>0, <2>0, <2>1, <3>1, PushKeepsFlags
    <3>4. KeepsAnnounced
      BY <2>0, <3>1, StepKeepsAnnounced DEF Pushed
    <3>5. \A v \in ThreadSet \ {t} : Calm(v)
      BY <2>0, <2>1, <3>2, <3>4, PlainCalm
    <3> QED
      BY <3>1, <3>3, <3>5, AwakeIsQuiet, OthersCalm DEF Pushed
  <2>3. CASE ~(msgs[t] > 0)
    <3>1. stack' = stack /\ msgs' = msgs /\ pc'[t] = "check" /\ OnlyMoves(t)
      BY <1>11, <2>3, GotoMoves DEF TakePosted, PCs
    <3>2. FlagWakes(t)'
      BY <1>0, <2>0, <2>1, <3>1, SameKeepsFlags
    <3>3. KeepsAnnounced
      BY <2>0, <3>1, StepKeepsAnnounced
    <3>4. \A v \in ThreadSet : Calm(v)
      BY <2>0, <2>1, <3>1, <3>3, PlainCalm
    <3>5. msgs[t] = 0
      BY <2>3 DEF TypeOK
    <3>6. Quiet(t)'
      BY <1>0, <2>0, <3>1, <3>3, <3>5 DEF Quiet, KeepsAnnounced
    <3> QED
      BY <3>1, <3>2, <3>4, <3>6, OthersCalm
  <2> QED
    BY <2>2, <2>3
<1>12. ASSUME NEW t \in ThreadSet, CheckStop(t) PROVE WakeInv'
  <2>1. (IF fStop[t] THEN "exited" ELSE "wait") \in PCs
    BY DEF PCs
  <2>2. /\ UNCHANGED <<fStop, sendlist, msgs, woken, stack, ready>> /\ pc[t] = "check"
        /\ pc'[t] = (IF fStop[t] THEN "exited" ELSE "wait") /\ OnlyMoves(t)
    BY <1>12, <2>1, GotoMoves DEF CheckStop
  <2>3. \A v \in ThreadSet : NewFlagsWake(v)
    BY <2>2, OldFlags
  <2>4. FlagWakes(t)'
    BY <1>0, <2>2, <2>3, SameKeepsFlags
  <2>5. KeepsAnnounced
    BY <2>2, StepKeepsAnnounced
  <2>6. \A v \in ThreadSet : Calm(v)
    BY <2>2, <2>3, <2>5, PlainCalm
  <2>7. Quiet(t)'
    BY <1>0, <2>2, <2>5 DEF Quiet, KeepsAnnounced
  <2> QED
    BY <2>2, <2>4, <2>6, <2>7, OthersCalm
<1>13. ASSUME NEW t \in ThreadSet, EndWait(t) PROVE WakeInv'
  <2>1. /\ UNCHANGED <<fStop, sendlist, msgs, stack, ready>> /\ pc[t] = "wait"
        /\ pc'[t] = "loop" /\ OnlyMoves(t) /\ \A v \in ThreadSet \ {t} : woken'[v] = woken[v]
    BY <1>13, GotoMoves DEF EndWait, PCs, TypeOK
  <2>2. Depth(t)' = 0
    BY <2>1 DEF StackInv, Fits, LoopPCs, Depth
  <2>3. FlagWakes(t)'
    BY <2>2 DEF FlagWakes
  <2>4. KeepsAnnounced /\ \A v \in ThreadSet : NewFlagsWake(v)
    BY <2>1, StepKeepsAnnounced, OldFlags
  <2>5. \A v \in ThreadSet \ {t} : Calm(v)
    BY <2>1, <2>4, PlainCalm
  <2> QED
    BY <2>1, <2>3, <2>5, AwakeIsQuiet, OthersCalm
<1>14. ASSUME NEW t \in ThreadSet, Return(t) PROVE WakeInv'
  <2>1. /\ Popped(t) /\ Depth(t) > 0 /\ Top(t).op \in {"Handle", "Dispatch"} /\ OnlyMoves(t)
        /\ pc'[t] \notin {"queue", "check", "wait", "swait"} /\ pc[t] # "wake"
    BY <1>14, ReturnStack DEF Return
  <2>2. \A v \in ThreadSet : NewFlagsWake(v) /\ (woken[v] => woken'[v])
    <3>1. CASE Inside(t, "Handle")
      BY <1>14, <3>1, ReplyWakes, WakeUpWakes DEF Return, Reply
    <3>2. CASE ~Inside(t, "Handle")
      BY <1>14, <3>2, OldFlags DEF Return
    <3> QED
      BY <3>1, <3>2
  <2>3. FlagWakes(t)'
    BY <1>0, <2>1, <2>2, PopKeepsFlags
  <2>4. KeepsAnnounced
    BY <2>1, StepKeepsAnnounced DEF Popped
  <2>5. \A v \in ThreadSet : Calm(v)
    BY <1>14, <2>2, <2>4, PlainCalm DEF Return
  <2> QED
    BY <2>1, <2>3, <2>5, AwakeIsQuiet, OthersCalm DEF Popped
<1>15. ASSUME NEW t \in ThreadSet, EndJoin(t) PROVE WakeInv'
  <2>1. /\ Popped(t) /\ Depth(t) > 0 /\ Top(t).op = "Join" /\ OnlyMoves(t) /\ pc'[t] = "run" /\ pc[t] # "wake"
        /\ UNCHANGED <<fStop, sendlist, msgs, woken, ready>>
    BY <1>15, EndJoinStack DEF EndJoin
  <2>2. \A v \in ThreadSet : NewFlagsWake(v)
    BY <2>1, OldFlags
  <2>3. FlagWakes(t)'
    BY <1>0, <2>1, <2>2, PopKeepsFlags
  <2>4. KeepsAnnounced
    BY <2>1, StepKeepsAnnounced DEF Popped
  <2>5. \A v \in ThreadSet : Calm(v)
    BY <2>1, <2>2, <2>4, PlainCalm
  <2> QED
    BY <2>1, <2>3, <2>5, AwakeIsQuiet, OthersCalm DEF Popped
<1>16. ASSUME NEW t \in ThreadSet, NEW u \in ThreadSet, BeginSend(t, u) PROVE WakeInv'
  <2> DEFINE f == [op |-> "Send", id |-> 0, peer |-> u, waited |-> FALSE]
  <2>1. Pushed(t, f) /\ pc'[t] = "push" /\ OnlyMoves(t)
    BY <1>16, BeginSendStack
  <2> HIDE DEF f
  <2>2. pc[t] = "run" /\ Top(t).op # "Send" /\ UNCHANGED <<fStop, sendlist, msgs, woken, ready>>
    BY <1>16 DEF BeginSend, StackInv, Fits
  <2>3. \A v \in ThreadSet : NewFlagsWake(v)
    BY <2>2, OldFlags
  <2>4. FlagWakes(t)'
    BY <1>0, <2>1, <2>2, <2>3, PushKeepsFlags
  <2>5. KeepsAnnounced
    BY <2>1, <2>2, StepKeepsAnnounced DEF Pushed
  <2>6. \A v \in ThreadSet : Calm(v)
    BY <2>2, <2>3, <2>5, PlainCalm
  <2> QED
    BY <2>1, <2>4, <2>6, AwakeIsQuiet, OthersCalm DEF Pushed
<1>17. ASSUME NEW t \in ThreadSet, NEW u \in ThreadSet, Stop(t, u) PROVE WakeInv'
  <2> DEFINE f == [op |-> "Join", peer |-> u]
  <2>1. Pushed(t, f) /\ pc'[t] = "join" /\ OnlyMoves(t)
    BY <1>17, StopStack
  <2> HIDE DEF f
  <2>2. pc[t] = "run" /\ Top(t).op # "Send" /\ UNCHANGED <<sendlist, msgs, ready>>
    BY <1>17 DEF Stop, StackInv, Fits
  <2>3. \A v \in ThreadSet : (woken'[v] <=> woken[v] \/ v = u) /\ (v # u => fStop'[v] = fStop[v])
    <3>1. WakeUp({u}) /\ fStop' = [fStop EXCEPT ![u] = TRUE]
      BY <1>17 DEF Stop, SetStop
    <3>2. \A v \in ThreadSet : woken'[v] <=> woken[v] \/ v = u
      BY <3>1, WakeUpWakes
    <3>3. \A v \in ThreadSet : v # u => fStop'[v] = fStop[v]
      BY <3>1 DEF TypeOK
    <3> QED
      BY <3>2, <3>3
  <2>4. \A v \in ThreadSet : NewFlagsWake(v)
    BY <2>2, OldFlags
  <2>5. FlagWakes(t)'
    BY <1>0, <2>1, <2>2, <2>3, <2>4, PushKeepsFlags
  <2>6. KeepsAnnounced
    BY <2>1, <2>2, StepKeepsAnnounced DEF Pushed
  <2>7. \A v \in ThreadSet : Calm(v)
    BY <2>2, <2>3, <2>4, <2>6 DEF Calm, KeepsAnnounced
  <2> QED
    BY <2>1, <2>5, <2>7, AwakeIsQuiet, OthersCalm DEF Pushed
<1>18. ASSUME NEW t \in ThreadSet, NEW u \in ThreadSet, Start(t, u) PROVE WakeInv'
  <2>1. /\ pc[u] = "joined" /\ pc'[u] = "loop" /\ OnlyMoves(u)
        /\ UNCHANGED <<sendlist, msgs, woken, stack, ready>>
    BY <1>18, GotoMoves DEF Start, PCs
  <2>2. \A v \in ThreadSet : fStop'[v] => fStop[v]
    BY <1>18 DEF Start, TypeOK
  <2>3. KeepsAnnounced /\ \A v \in ThreadSet : NewFlagsWake(v)
    BY <2>1, StepKeepsAnnounced, OldFlags
  <2>4. FlagWakes(u)'
    BY <1>0, <2>1, <2>3, SameKeepsFlags
  <2>5. \A v \in ThreadSet : Calm(v)
    BY <2>1, <2>2, <2>3 DEF Calm, KeepsAnnounced
  <2> QED
    BY <2>1, <2>4, <2>5, AwakeIsQuiet, OthersCalm
<1>19. CASE UNCHANGED vars
  <2>1. UNCHANGED <<fStop, sendlist, msgs, woken, pc, stack, ready>>
    BY <1>19 DEF vars
  <2>2. KeepsAnnounced /\ \A v \in ThreadSet : NewFlagsWake(v)
    BY <2>1, StillKeepsAnnounced, OldFlags
  <2>3. \A v \in ThreadSet : Calm(v)
    BY <2>1, <2>2, PlainCalm
  <2> QED
    BY <2>1, <2>3, AllCalm
<1> QED
  BY <1>1, <1>2, <1>3, <1>4, <1>5, <1>6, <1>8, <1>9, <1>10, <1>11, <1>12, <1>13, <1>14,
     <1>15, <1>16, <1>17, <1>18, <1>19 DEF Next, Step

-----------------------------------------------------------------------------
(* The theorems *)

LEMMA InitInv == Init => Inv
<1> SUFFICES ASSUME Init PROVE Inv
  OBVIOUS
<1>1. TypeOK
  BY ThreadsAssumption DEF Init, TypeOK, PCs
<1>2. \A t \in ThreadSet : Depth(t) = 0
  BY DEF Init, Depth
<1>3. StackInv
  BY <1>2 DEF Init, StackInv, Fits, Shape, LoopPCs, SendPCs
<1>4. CallsInv
  <2>1. {t \in ThreadSet : pc[t] = "push"} = {}
    BY DEF Init
  <2>2. Cardinality({t \in ThreadSet : pc[t] = "push"}) = 0
    BY <2>1, FS_EmptySet
  <2> QED
    BY <1>2, <2>2, ThreadsAssumption DEF Init, CallsInv
<1>5. FramesDistinct
  BY <1>2 DEF FramesDistinct
<1>6. \A t \in ThreadSet : \A op, c, u : ~InCall(t, op, c, u)
  BY <1>2 DEF InCall
<1>7. CallState
  BY <1>6 DEF CallState, Waits, Init
<1>8. WakeInv
  BY <1>2 DEF Init, WakeInv, Quiet, FlagWakes
<1> QED
  BY <1>1, <1>3, <1>4, <1>5, <1>7, <1>8, CallStateMeans DEF Inv

LEMMA NextInv == Inv /\ [Next]_vars => Inv'
<1> SUFFICES ASSUME Inv, [Next]_vars PROVE Inv'
  OBVIOUS
<1>1. CallState /\ NoDanglingReady
  BY CallStateMeans DEF Inv
<1>2. TypeOK' /\ StackInv'
  BY TypeStep, StackStep DEF Inv
<1>3. CallsInv'
  BY <1>1, CallsStep DEF Inv
<1>4. FramesDistinct' /\ CallState'
  BY <1>1, CallStateStep DEF Inv
<1>5. WakeInv'
  BY <1>1, WakeStep DEF Inv
<1> QED
  BY <1>2, <1>3, <1>4, <1>5, CallStateMeansNext DEF Inv

\* The inductive invariant holds in every reachable state.
THEOREM Invariance == Spec => []Inv
BY InitInv, NextInv, PTL DEF Spec

\* The pointer to the flag of a Send never dangles, however deep sends are nested,
\* whoever clears the lists and stops the threads.
THEOREM FlagsNeverDangle == Spec => []NoDanglingReady
<1>1. Inv => NoDanglingReady
  BY DEF Inv
<1> QED
  BY <1>1, Invariance, PTL

\* Every message that is sent is handled once, or cleared.
THEOREM SendsNotForgotten == Spec => []NoSendForgotten
<1>1. Inv => NoSendForgotten
  BY DEF Inv
<1> QED
  BY <1>1, Invariance, PTL

\* No thread sleeps on a wake-up that Send has consumed.
THEOREM WakeUpsNotLost == Spec => []NoLostWakeUp
<1>1. Inv => NoLostWakeUp
  <2> SUFFICES ASSUME Inv, NEW t \in ThreadSet
               PROVE  /\ pc[t] = "wait" /\ ~woken[t] =>
                           msgs[t] = 0 /\ ~fStop[t] /\ \A e \in sendlist[t] : Announced(e)
                      /\ pc[t] = "swait" /\ ~woken[t] =>
                           Top(t).id \notin ready /\ \A e \in SentBy(t, Top(t).peer) : Announced(e)
    BY DEF NoLostWakeUp, Announced
  <2>1. Quiet(t) /\ FlagWakes(t) /\ TypeOK /\ StackInv
    BY DEF Inv, WakeInv
  <2>2. ASSUME pc[t] = "swait", ~woken[t] PROVE Top(t).id \notin ready
    <3>1. Depth(t) \in Nat \ {0} /\ Top(t).op = "Send"
      BY <2>1, <2>2, TopOfSend DEF SendPCs
    <3>2. Tested(t, Depth(t)) /\ Depth(t) \in 1 .. Depth(t)
      BY <2>2, <3>1 DEF Tested, Top
    <3>3. ~WillWake(t, Depth(t))
      BY <2>2, <3>1 DEF WillWake
    <3> QED
      BY <2>1, <3>2, <3>3 DEF FlagWakes, Top
  <2> QED
    BY <2>1, <2>2 DEF Quiet
<1> QED
  BY <1>1, Invariance, PTL

\* A thread that waits in Send is re-entered only by the thread it waits for.
THEOREM ReentryIsByTarget == Spec => []OnlyTargetReenters
<1>1. Inv => OnlyTargetReenters
  BY DEF Inv, StackInv, Shape, Alternate, OnlyTargetReenters
<1> QED
  BY <1>1, Invariance, PTL
=============================================================================
