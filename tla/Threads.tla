------------------------------ MODULE Threads ------------------------------
(***************************************************************************)
(* rtc::Thread (webrtc/base/thread.cc): threads that post messages to each *)
(* other, call each other synchronously with Send, and are stopped.        *)
(*                                                                         *)
(* stack[t] holds the calls thread t is in below its message loop: a Send  *)
(* that waits for its target, the handler of a message another thread sent *)
(* (Handle) or posted (Dispatch), a Join.  Handlers are arbitrary code: in *)
(* pc "run" they may send, stop a thread or return.  A sent message is     *)
(* known by the number of its call; ready is the set of the calls whose    *)
(* flag ready, a local variable of Send, was set through the pointer in    *)
(* the send list.  Posted messages are only counted: module MessageQueue   *)
(* has the rest of the queue.                                              *)
(***************************************************************************)
EXTENDS Integers, Sequences, FiniteSets

CONSTANTS
  ThreadSet,    \* the threads
  MaySend,      \* the pairs <<t, u>> such that handlers on t send to u
  MayStop,      \* the pairs <<t, u>> such that handlers on t stop and start u
  MayQuit,      \* the threads on which Quit is called
  MayClear,     \* the threads on which Clear is called
  MaxSends,     \* bound: calls of Send
  MaxPosts      \* bound: messages posted

ASSUME ThreadsAssumption ==
  /\ IsFiniteSet(ThreadSet)
  /\ MaySend \subseteq ThreadSet \X ThreadSet /\ MayStop \subseteq ThreadSet \X ThreadSet
  /\ MayQuit \subseteq ThreadSet /\ MayClear \subseteq ThreadSet
  /\ MaxSends \in Nat /\ MaxPosts \in Nat

VARIABLES
  fStop,      \* fStop[t]: fStop_
  sendlist,   \* sendlist[t]: sendlist_, in the order of the ids
  msgs,       \* msgs[t]: number of messages in msgq_
  woken,      \* woken[t]: the socket server was woken up since the last Wait
  pc,         \* pc[t]: where the thread is
  stack,      \* stack[t]: the calls it is in, innermost last
  ready,      \* the sends whose flag was set
  sent,       \* number of messages put into send lists
  posted      \* number of messages posted

vars == <<fStop, sendlist, msgs, woken, pc, stack, ready, sent, posted>>

Ids == 1 .. MaxSends
Frame ==
  [op : {"Send"}, id : 0 .. MaxSends, peer : ThreadSet, waited : BOOLEAN]
    \cup [op : {"Handle"}, id : Ids, peer : ThreadSet]
    \cup [op : {"Join"}, peer : ThreadSet] \cup [op : {"Dispatch"}]
PCs == {"loop", "queue", "check", "wait", "exited", "joined",
        "run", "push", "wake", "test", "recv", "swait", "join"}

TypeOK ==
  /\ fStop \in [ThreadSet -> BOOLEAN]
  /\ sendlist \in [ThreadSet -> SUBSET [id : Ids, from : ThreadSet]]
  /\ msgs \in [ThreadSet -> Nat]
  /\ woken \in [ThreadSet -> BOOLEAN]
  /\ pc \in [ThreadSet -> PCs]
  /\ stack \in [ThreadSet -> Seq(Frame)]
  /\ ready \subseteq Ids
  /\ sent \in 0 .. MaxSends /\ posted \in 0 .. MaxPosts

Init ==
  /\ fStop = [t \in ThreadSet |-> FALSE]
  /\ sendlist = [t \in ThreadSet |-> {}]
  /\ msgs = [t \in ThreadSet |-> 0]
  /\ woken = [t \in ThreadSet |-> FALSE]
  /\ pc = [t \in ThreadSet |-> "loop"]
  /\ stack = [t \in ThreadSet |-> << >>]
  /\ ready = {} /\ sent = 0 /\ posted = 0

-----------------------------------------------------------------------------
Depth(t) == Len(stack[t])
Top(t) == stack[t][Depth(t)]
Inside(t, op) == Depth(t) > 0 /\ Top(t).op = op
Entered(t, frame) == [stack EXCEPT ![t] = Append(@, frame)]
Left(t) == [stack EXCEPT ![t] = SubSeq(@, 1, Len(@) - 1)]
Goto(t, where) == pc' = [pc EXCEPT ![t] = where]
WakeUp(S) == woken' = [t \in ThreadSet |-> woken[t] \/ t \in S]

-----------------------------------------------------------------------------
(* What any code may call on thread u *)

Post(u) ==
  /\ posted < MaxPosts /\ ~fStop[u]
  /\ posted' = posted + 1
  /\ msgs' = [msgs EXCEPT ![u] = @ + 1]
  /\ WakeUp({u})
  /\ UNCHANGED <<fStop, sendlist, pc, stack, ready, sent>>

\* Mutant: the senders are released, their messages stay in the list.
ClearKeepsSends(u) ==
  /\ u \in MayClear
  /\ \E S \in SUBSET sendlist[u], k \in 0 .. msgs[u] :
       /\ ready' = ready \cup {e.id : e \in S}
       /\ msgs' = [msgs EXCEPT ![u] = @ - k]
       /\ WakeUp({e.from : e \in S})
  /\ UNCHANGED <<fStop, sendlist, pc, stack, sent, posted>>

\* Clear of a handler: the sends S and k of the posted messages are for it.
Clear(u) ==
  /\ u \in MayClear
  /\ \E S \in SUBSET sendlist[u], k \in 0 .. msgs[u] :
       /\ sendlist' = [sendlist EXCEPT ![u] = @ \ S]
       /\ ready' = ready \cup {e.id : e \in S}
       /\ msgs' = [msgs EXCEPT ![u] = @ - k]
       /\ WakeUp({e.from : e \in S})
  /\ UNCHANGED <<fStop, pc, stack, sent, posted>>

SetStop(u) ==
  /\ fStop' = [fStop EXCEPT ![u] = TRUE]
  /\ WakeUp({u})

Quit(u) ==
  /\ u \in MayQuit
  /\ SetStop(u)
  /\ UNCHANGED <<sendlist, msgs, pc, stack, ready, sent, posted>>

-----------------------------------------------------------------------------
(* Send, called by a handler on thread t (a Send to t itself is a call).   *)

\* fStop_ is read without a lock.
BeginSend(t, u) ==
  /\ pc[t] = "run" /\ t # u /\ <<t, u>> \in MaySend /\ ~fStop[u]
  /\ sent + Cardinality({v \in ThreadSet : pc[v] = "push"}) < MaxSends
  /\ stack' = Entered(t, [op |-> "Send", id |-> 0, peer |-> u, waited |-> FALSE])
  /\ Goto(t, "push")
  /\ UNCHANGED <<fStop, sendlist, msgs, woken, ready, sent, posted>>

PushSend(t) ==
  /\ pc[t] = "push"
  /\ sent' = sent + 1
  /\ sendlist' = [sendlist EXCEPT ![Top(t).peer] = @ \cup {[id |-> sent + 1, from |-> t]}]
  /\ stack' = [stack EXCEPT ![t][Depth(t)].id = sent + 1]
  /\ Goto(t, "wake")
  /\ UNCHANGED <<fStop, msgs, woken, ready, posted>>

WakeTarget(t) ==
  /\ pc[t] = "wake"
  /\ WakeUp({Top(t).peer})
  /\ Goto(t, "test")
  /\ UNCHANGED <<fStop, sendlist, msgs, stack, ready, sent, posted>>

\* Mutant: the wake-ups that Send consumed are not given back.
EndSendKeepsWakeUps(t) ==
  /\ stack' = Left(t)
  /\ Goto(t, "run")
  /\ UNCHANGED woken

\* The wake-ups consumed by the loop may have been for something else.
EndSend(t) ==
  /\ stack' = Left(t)
  /\ Goto(t, "run")
  /\ WakeUp(IF Top(t).waited THEN {t} ELSE {})

TestReady(t) ==
  /\ pc[t] = "test"
  /\ IF Top(t).id \in ready THEN EndSend(t)
     ELSE /\ Goto(t, "recv")
          /\ UNCHANGED <<woken, stack>>
  /\ UNCHANGED <<fStop, sendlist, msgs, ready, sent, posted>>

\* Mutant: a thread that waits for a send handles the sends of every thread.
SentByAny(t, source) == sendlist[t]

\* What ReceiveSendsFromThread(source) may take from the send list of t.
SentBy(t, source) == {e \in sendlist[t] : e.from = source}

\* Mutant: the message is not erased from the list.
HandleKeepsEntry(t, S) ==
  LET e == CHOOSE x \in S : \A y \in S : x.id <= y.id IN
  /\ stack' = Entered(t, [op |-> "Handle", id |-> e.id, peer |-> e.from])
  /\ Goto(t, "run")
  /\ UNCHANGED sendlist

\* PopSendMessageFromThread, and the call of the handler.
Handle(t, S) ==
  LET e == CHOOSE x \in S : \A y \in S : x.id <= y.id IN
  /\ sendlist' = [sendlist EXCEPT ![t] = @ \ {e}]
  /\ stack' = Entered(t, [op |-> "Handle", id |-> e.id, peer |-> e.from])
  /\ Goto(t, "run")

ReceiveFromTarget(t) ==
  LET S == SentBy(t, Top(t).peer) IN
  /\ pc[t] = "recv"
  /\ IF S # {} THEN Handle(t, S)
     ELSE /\ Goto(t, "swait")
          /\ UNCHANGED <<sendlist, stack>>
  /\ UNCHANGED <<fStop, msgs, woken, ready, sent, posted>>

EndSendWait(t) ==
  /\ pc[t] = "swait" /\ woken[t]
  /\ woken' = [woken EXCEPT ![t] = FALSE]
  /\ stack' = [stack EXCEPT ![t][Depth(t)].waited = TRUE]
  /\ Goto(t, "test")
  /\ UNCHANGED <<fStop, sendlist, msgs, ready, sent, posted>>

-----------------------------------------------------------------------------
(* The message loop: ProcessMessages(kForever) and Get *)

ReceiveSends(t) ==
  /\ pc[t] = "loop"
  /\ IF sendlist[t] # {} THEN Handle(t, sendlist[t])
     ELSE /\ Goto(t, "queue")
          /\ UNCHANGED <<sendlist, stack>>
  /\ UNCHANGED <<fStop, msgs, woken, ready, sent, posted>>

TakePosted(t) ==
  /\ pc[t] = "queue"
  /\ IF msgs[t] > 0
     THEN /\ msgs' = [msgs EXCEPT ![t] = @ - 1]
          /\ stack' = Entered(t, [op |-> "Dispatch"])
          /\ Goto(t, "run")
     ELSE /\ Goto(t, "check")
          /\ UNCHANGED <<msgs, stack>>
  /\ UNCHANGED <<fStop, sendlist, woken, ready, sent, posted>>

CheckStop(t) ==
  /\ pc[t] = "check"
  /\ Goto(t, IF fStop[t] THEN "exited" ELSE "wait")
  /\ UNCHANGED <<fStop, sendlist, msgs, woken, stack, ready, sent, posted>>

EndWait(t) ==
  /\ pc[t] = "wait" /\ woken[t]
  /\ woken' = [woken EXCEPT ![t] = FALSE]
  /\ Goto(t, "loop")
  /\ UNCHANGED <<fStop, sendlist, msgs, stack, ready, sent, posted>>

\* Mutant: the sender is not woken up.
ReplyWithoutWakeUp(t) ==
  /\ ready' = ready \cup {Top(t).id}
  /\ UNCHANGED woken

\* The flag of the sender is set and it is woken up.
Reply(t) ==
  /\ ready' = ready \cup {Top(t).id}
  /\ WakeUp({Top(t).peer})

\* A handler returns to the loop that called it: ReceiveSends of the message loop,
\* that of the Send below it, or ProcessMessages.
Return(t) ==
  /\ pc[t] = "run" /\ Depth(t) > 0
  /\ IF Inside(t, "Handle") THEN Reply(t) ELSE UNCHANGED <<ready, woken>>
  /\ stack' = Left(t)
  /\ Goto(t, IF Depth(t) > 1 THEN "recv" ELSE "loop")
  /\ UNCHANGED <<fStop, sendlist, msgs, sent, posted>>

-----------------------------------------------------------------------------
(* Stop and Start, called by a handler on thread t *)

Stop(t, u) ==
  /\ pc[t] = "run" /\ t # u /\ <<t, u>> \in MayStop /\ pc[u] # "joined"
  /\ SetStop(u)
  /\ stack' = Entered(t, [op |-> "Join", peer |-> u])
  /\ Goto(t, "join")
  /\ UNCHANGED <<sendlist, msgs, ready, sent, posted>>

EndJoin(t) ==
  /\ pc[t] = "join" /\ pc[Top(t).peer] = "exited"
  /\ pc' = [pc EXCEPT ![t] = "run", ![Top(t).peer] = "joined"]
  /\ stack' = Left(t)
  /\ UNCHANGED <<fStop, sendlist, msgs, woken, ready, sent, posted>>

Start(t, u) ==
  /\ pc[t] = "run" /\ <<t, u>> \in MayStop /\ pc[u] = "joined"
  /\ fStop' = [fStop EXCEPT ![u] = FALSE]
  /\ Goto(u, "loop")
  /\ UNCHANGED <<sendlist, msgs, woken, stack, ready, sent, posted>>

-----------------------------------------------------------------------------
Step(t) ==
  \/ PushSend(t) \/ WakeTarget(t) \/ TestReady(t) \/ ReceiveFromTarget(t) \/ EndSendWait(t)
  \/ ReceiveSends(t) \/ TakePosted(t) \/ CheckStop(t) \/ EndWait(t) \/ Return(t) \/ EndJoin(t)

Next ==
  \E t \in ThreadSet :
    \/ Post(t) \/ Clear(t) \/ Quit(t) \/ Step(t)
    \/ \E u \in ThreadSet : BeginSend(t, u) \/ Stop(t, u) \/ Start(t, u)

Spec == Init /\ [][Next]_vars

\* Threads run and handlers return.
FairSpec == Spec /\ \A t \in ThreadSet : WF_vars(Step(t))

-----------------------------------------------------------------------------
(* Properties *)

\* Thread t is in call c of Send, to thread u.
Sending(t, c, u) ==
  \E i \in 1 .. Depth(t) : stack[t][i].op = "Send" /\ stack[t][i].id = c /\ stack[t][i].peer = u

\* Thread u runs the handler of call c of Send, by thread t.
Handling(u, c, t) ==
  \E i \in 1 .. Depth(u) : stack[u][i].op = "Handle" /\ stack[u][i].id = c /\ stack[u][i].peer = t

\* The pointer to ready, a local variable of Send, never dangles: what is in a send
\* list or being handled belongs to a Send that is still on its thread's stack and
\* waits, however deep sends are nested and whoever clears the list.
NoDanglingReady ==
  \A u, t \in ThreadSet, c \in Ids :
    [id |-> c, from |-> t] \in sendlist[u] \/ Handling(u, c, t)
      => Sending(t, c, u) /\ c \notin ready

\* A Send that waits is in the list of its target or being handled there, not both:
\* no message is forgotten, none is handled twice.
NoSendForgotten ==
  \A t, u \in ThreadSet, c \in Ids :
    Sending(t, c, u) /\ c \notin ready
      => ([id |-> c, from |-> t] \in sendlist[u]) # Handling(u, c, t)

\* A thread that is about to sleep, or sleeps, and was not woken up has nothing to
\* do, or its sender is just going to wake it up: in the message loop nothing
\* is queued and it is not told to stop; in Send its call is not ready and its target
\* has sent it nothing.
NoLostWakeUp ==
  \A t \in ThreadSet :
    LET announced(e) == pc[e.from] = "wake" /\ Top(e.from).id = e.id IN
    /\ pc[t] = "wait" /\ ~woken[t] =>
         msgs[t] = 0 /\ ~fStop[t] /\ \A e \in sendlist[t] : announced(e)
    /\ pc[t] = "swait" /\ ~woken[t] =>
         Top(t).id \notin ready /\ \A e \in SentBy(t, Top(t).peer) : announced(e)

\* thread_unittest.cc, ThreeThreadsInvoke: a thread that waits in Send handles the
\* sends of the thread it waits for and no other.
OnlyTargetReenters ==
  \A t \in ThreadSet : \A i \in 1 .. Depth(t) - 1 :
    stack[t][i].op = "Send" =>
      stack[t][i + 1].op = "Handle" /\ stack[t][i + 1].peer = stack[t][i].peer

\* thread_unittest.cc, TwoThreadsInvokeNoDeadlock: every Send returns, also when the
\* threads send to each other at the same time, unless a thread is stopped: what was
\* sent to that one waits until it is started again.
SendReturns ==
  \A c \in Ids : (\E t, u \in ThreadSet : Sending(t, c, u))
                  ~> \/ \A t, u \in ThreadSet : ~Sending(t, c, u)
                     \/ \E t \in ThreadSet : fStop[t]
=============================================================================
