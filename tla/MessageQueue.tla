---------------------------- MODULE MessageQueue ----------------------------
(***************************************************************************)
(* rtc::MessageQueue (webrtc/base/messagequeue.cc): any thread posts       *)
(* messages, for now or for later, clears those of a handler, or quits the *)
(* queue; one thread gets them.                                            *)
(*                                                                         *)
(* A message has a number, which it has not in the code, and the true time *)
(* from which it may be handled; the code knows that time modulo the width *)
(* of its clock.  msgq_ and the heap dmsgq_ are sets whose elements carry  *)
(* what orders them.  Get is split where it takes or releases crit_, or    *)
(* reads a field or the time without it: once it has read the time (pc     *)
(* "read") other threads still post and delete, and time passes, until it  *)
(* has crit_.  While it moves delayed messages (pc "scan") it holds crit_  *)
(* and no other thread touches the queues.                                 *)
(***************************************************************************)
EXTENDS Integers, FiniteSets

CONSTANTS
  Handlers,       \* message handlers
  ClockModulus,   \* number of values of the clock (2^32 in the code)
  Periods,        \* stretches of time <<first, last>> in which the queue is looked at
  Delays,         \* delays given to PostDelayed, and by PostAt negative ones
  Waits,          \* timeouts given to Get and Peek, besides kForever
  MaxPosts,       \* bound: messages posted
  MaxLate         \* bound: how long a thread that posts or gets may be busy

kForever == -1

ASSUME QueueAssumption ==
  /\ ClockModulus \in Nat \ {0} /\ Periods \subseteq Nat \X Nat
  /\ MaxPosts \in Nat /\ MaxLate \in Nat
  /\ Delays \subseteq Int /\ Waits \subseteq Nat

\* timeutils.cc, TimeAfter: RTC_DCHECK_LT(elapsed, HALF).  True time is counted from a
\* wrap of the clock that lies before every message is due.
ASSUME ClockAssumption ==
  /\ \A delay \in Delays : 2 * delay < ClockModulus /\ - ClockModulus < 2 * delay
  /\ 2 * MaxLate < ClockModulus
  /\ \A p \in Periods, delay \in Delays : p[1] + delay >= 0

VARIABLES
  clock,    \* the true time
  fStop,    \* fStop_
  peek,     \* msgPeek_, as the set of the message it holds
  msgq,     \* msgq_
  dmsgq,    \* dmsgq_
  calls,    \* posts that have read fStop_ as false and not queued their message
  doomed,   \* objects popped with a dispose message and not deleted yet
  alive,    \* handlers that were not deleted
  woken,    \* the socket server was woken up since the last Wait
  get,      \* the call of Get or Peek in progress
  posted,   \* number of messages posted
  pushed,   \* number of messages put into msgq_ or dmsgq_
  gone      \* the messages that were got, cleared, refused or disposed of

queues == <<peek, msgq, dmsgq, calls, pushed>>
vars == <<clock, fStop, queues, doomed, alive, woken, get, posted, gone>>

Numbers == 1 .. MaxPosts
Message == [n : Numbers, h : Handlers, dispose : BOOLEAN, due : Int]
PCs == {"out", "stopped", "read", "scan", "pop", "empty", "wait"}
GetRecord == [pc : PCs, peeking : BOOLEAN, wait : Waits \cup {kForever}, start : Nat,
              cur : Nat, next : Int, until : Int]

TypeOK ==
  /\ clock \in Nat /\ fStop \in BOOLEAN /\ woken \in BOOLEAN
  /\ peek \subseteq Message
  /\ calls \subseteq [m : Message, delayed : BOOLEAN]
  /\ msgq \subseteq [pos : Nat, m : Message]
  /\ dmsgq \subseteq [trigger : 0 .. ClockModulus - 1, num : Nat, m : Message]
  /\ doomed \subseteq Handlers /\ alive \subseteq Handlers
  /\ get \in GetRecord
  /\ posted \in 0 .. MaxPosts /\ pushed \in Nat /\ gone \subseteq Numbers

Outside(pc) ==
  [pc |-> pc, peeking |-> FALSE, wait |-> kForever, start |-> 0, cur |-> 0,
   next |-> kForever, until |-> kForever]

Init ==
  /\ clock \in {p[1] : p \in Periods} /\ fStop = FALSE /\ woken = FALSE
  /\ peek = {} /\ msgq = {} /\ dmsgq = {} /\ calls = {}
  /\ doomed = {} /\ alive = Handlers
  /\ get = Outside("out")
  /\ posted = 0 /\ pushed = 0 /\ gone = {}

-----------------------------------------------------------------------------
(* Time, modulo the width of the clock (timeutils.cc) *)

Time(t) == t % ClockModulus

\* The difference of two clock values as a signed number.
TimeDiff(later, earlier) ==
  LET d == (later - earlier) % ClockModulus
  IN IF 2 * d < ClockModulus THEN d ELSE d - ClockModulus

\* Mutant: clock values compared as unsigned numbers.
TimeIsLaterUnsigned(earlier, later) == later > earlier

TimeIsLater(earlier, later) == TimeDiff(later, earlier) > 0

-----------------------------------------------------------------------------
(* The queues *)

\* Mutant: the heap is a heap of maxima, what operator< says without its inversion.
BeforeLatest(d, e) == d.trigger > e.trigger \/ (d.trigger = e.trigger /\ d.num <= e.num)

\* operator< of DelayedMessage: d comes out of the heap before e.
Before(d, e) == d.trigger < e.trigger \/ (d.trigger = e.trigger /\ d.num <= e.num)

Top == CHOOSE d \in dmsgq : \A e \in dmsgq : Before(d, e)
Front == CHOOSE e \in msgq : \A f \in msgq : e.pos <= f.pos

\* Get holds crit_.
Locked == get.pc = "scan"

NumbersOf(S) == {e.m.n : e \in S}

-----------------------------------------------------------------------------
(* Post, PostDelayed, PostAt and Dispose read fStop_ without a lock, then  *)
(* take crit_ and queue the message.                                       *)

Begin(h, dispose, delayed, delay) ==
  /\ posted < MaxPosts /\ h \in alive
  /\ posted' = posted + 1
  /\ IF fStop THEN /\ gone' = gone \cup {posted + 1}
                   /\ UNCHANGED calls
     ELSE /\ calls' = calls \cup {[m |-> [n |-> posted + 1, h |-> h, dispose |-> dispose,
                                          due |-> clock + delay], delayed |-> delayed]}
          /\ UNCHANGED gone
  /\ UNCHANGED <<clock, fStop, peek, msgq, dmsgq, pushed, doomed, alive, woken, get>>

Post(h) == Begin(h, FALSE, FALSE, 0)

\* A time at which the queue is still looked at.
DuringPeriod(time) == \E p \in Periods : clock \in p[1] .. p[2] /\ time <= p[2]

\* The bound leaves time for a thread that is late.
PostDelayed(h) ==
  \E delay \in Delays : DuringPeriod(clock + delay + MaxLate) /\ Begin(h, FALSE, TRUE, delay)

\* An object is disposed of once.
Dispose(h) ==
  /\ h \notin doomed
  /\ \A e \in msgq \cup calls : ~(e.m.h = h /\ e.m.dispose)
  /\ Begin(h, TRUE, FALSE, 0)

\* Mutant: the thread of the queue is not woken up for a delayed message.
PushDelayedSilently(c) ==
  /\ IF c.delayed
     THEN /\ dmsgq' = dmsgq \cup {[trigger |-> Time(c.m.due), num |-> pushed, m |-> c.m]}
          /\ UNCHANGED <<msgq, woken>>
     ELSE /\ msgq' = msgq \cup {[pos |-> pushed, m |-> c.m]}
          /\ woken' = TRUE
          /\ UNCHANGED dmsgq

Push(c) ==
  /\ IF c.delayed
     THEN /\ dmsgq' = dmsgq \cup {[trigger |-> Time(c.m.due), num |-> pushed, m |-> c.m]}
          /\ UNCHANGED msgq
     ELSE /\ msgq' = msgq \cup {[pos |-> pushed, m |-> c.m]}
          /\ UNCHANGED dmsgq
  /\ woken' = TRUE

EndPost(c) ==
  /\ ~Locked
  /\ calls' = calls \ {c}
  /\ Push(c)
  /\ pushed' = pushed + 1
  /\ UNCHANGED <<clock, fStop, peek, doomed, alive, get, posted, gone>>

-----------------------------------------------------------------------------
(* Clear, Quit and Restart *)

Match(m, h) == m.h = h /\ ~m.dispose
Matching(S, h) == {e \in S : Match(e.m, h)}

\* Mutant: the message kept by Peek is not cleared.
DropMessagesKeepsPeek(h) ==
  /\ msgq' = msgq \ Matching(msgq, h)
  /\ dmsgq' = dmsgq \ Matching(dmsgq, h)
  /\ gone' = gone \cup NumbersOf(Matching(msgq \cup dmsgq, h))
  /\ UNCHANGED peek

DropMessages(h) ==
  /\ peek' = {m \in peek : ~Match(m, h)}
  /\ msgq' = msgq \ Matching(msgq, h)
  /\ dmsgq' = dmsgq \ Matching(dmsgq, h)
  /\ gone' = gone \cup {m.n : m \in peek \ peek'} \cup NumbersOf(Matching(msgq \cup dmsgq, h))

Clear(h) ==
  /\ ~Locked
  /\ DropMessages(h)
  /\ UNCHANGED <<clock, fStop, calls, pushed, doomed, alive, woken, get, posted>>

\* ~MessageHandler clears the messages of the handler.  It is not deleted while
\* another thread posts to it.
Delete(h) ==
  /\ ~Locked
  /\ h \in alive /\ \A c \in calls : c.m.h # h
  /\ alive' = alive \ {h}
  /\ DropMessages(h)
  /\ UNCHANGED <<clock, fStop, calls, pushed, woken, posted>>

\* Any thread deletes a handler, also while Get is between two critical sections.
\* Peek keeps its message without crit_, after Get has returned it, where Clear does
\* not see it: no other thread may delete a handler during a Peek.
DeleteHandler(h) ==
  /\ ~get.peeking /\ h \notin doomed
  /\ \A e \in msgq \cup calls : ~(e.m.h = h /\ e.m.dispose)
  /\ Delete(h)
  /\ UNCHANGED <<doomed, get>>

Quit ==
  /\ fStop' = TRUE /\ woken' = TRUE
  /\ UNCHANGED <<clock, peek, msgq, dmsgq, calls, pushed, doomed, alive, get, posted, gone>>

Restart ==
  /\ fStop' = FALSE
  /\ UNCHANGED <<clock, queues, doomed, alive, woken, get, posted, gone>>

-----------------------------------------------------------------------------
(* Get and Peek *)

\* Mutant: Get does not look at the message that Peek has kept.
CallIgnoresPeek(peeking, wait) ==
  /\ get.pc \in {"out", "stopped"}
  /\ get' = IF peek # {} /\ peeking THEN Outside("out")
            ELSE [Outside("read") EXCEPT !.peeking = peeking, !.wait = wait,
                                         !.start = clock, !.cur = clock]
  /\ UNCHANGED <<clock, fStop, queues, doomed, alive, woken, posted, gone>>

\* Get or Peek is called; it returns the message Peek has kept, if any, or reads the
\* time.
Call(peeking, wait) ==
  /\ get.pc \in {"out", "stopped"}
  /\ IF peek # {}
     THEN /\ get' = Outside("out")
          /\ peek' = IF peeking THEN peek ELSE {}
          /\ gone' = IF peeking THEN gone ELSE gone \cup {m.n : m \in peek}
     ELSE /\ get' = [Outside("read") EXCEPT !.peeking = peeking, !.wait = wait,
                                             !.start = clock, !.cur = clock]
          /\ UNCHANGED <<peek, gone>>
  /\ UNCHANGED <<clock, fStop, msgq, dmsgq, calls, pushed, doomed, alive, woken, posted>>

CallGet == \E wait \in Waits \cup {kForever} : Call(FALSE, wait)
CallPeek == \E wait \in Waits : Call(TRUE, wait)

\* Sent messages are handled (module Threads has them), then crit_ is taken.
ReceiveSends ==
  /\ get.pc = "read"
  /\ get' = [get EXCEPT !.pc = "scan"]
  /\ UNCHANGED <<clock, fStop, queues, doomed, alive, woken, posted, gone>>

\* Mutant: the message stays in the heap.
MoveTriggeredKeepsTop ==
  /\ get.pc = "scan" /\ dmsgq # {} /\ ~TimeIsLater(Time(get.cur), Top.trigger)
  /\ msgq' = msgq \cup {[pos |-> pushed, m |-> Top.m]}
  /\ pushed' = pushed + 1
  /\ UNCHANGED <<clock, fStop, peek, dmsgq, calls, doomed, alive, woken, get, posted, gone>>

\* One round of the loop that moves the triggered messages, with crit_ held.
MoveTriggered ==
  /\ get.pc = "scan" /\ dmsgq # {} /\ ~TimeIsLater(Time(get.cur), Top.trigger)
  /\ msgq' = msgq \cup {[pos |-> pushed, m |-> Top.m]}
  /\ dmsgq' = dmsgq \ {Top}
  /\ pushed' = pushed + 1
  /\ UNCHANGED <<clock, fStop, peek, calls, doomed, alive, woken, get, posted, gone>>

\* The front of the queue is pulled off; g is get with cmsDelayNext computed.
Pull(g) ==
  /\ IF msgq = {} THEN /\ get' = [g EXCEPT !.pc = "empty"]
                       /\ UNCHANGED <<msgq, peek, doomed, gone>>
     ELSE /\ msgq' = msgq \ {Front}
          /\ IF Front.m.dispose
             THEN /\ get' = [g EXCEPT !.pc = "pop"]
                  /\ doomed' = {Front.m.h} /\ gone' = gone \cup {Front.m.n}
                  /\ UNCHANGED peek
             ELSE /\ get' = Outside("out")
                  /\ peek' = IF g.peeking THEN {Front.m} ELSE {}
                  /\ gone' = IF g.peeking THEN gone ELSE gone \cup {Front.m.n}
                  /\ UNCHANGED doomed
  /\ UNCHANGED <<clock, fStop, dmsgq, calls, pushed, alive, woken, posted>>

\* The first pass, in the critical section of MoveTriggered.
FirstPull ==
  /\ get.pc = "scan" /\ (dmsgq # {} => TimeIsLater(Time(get.cur), Top.trigger))
  /\ Pull([get EXCEPT !.next = IF dmsgq = {} THEN kForever
                               ELSE TimeDiff(Top.trigger, Time(get.cur))])

\* A pass after a dispose message.
NextPull ==
  /\ get.pc = "pop" /\ doomed = {}
  /\ Pull(get)

\* The object of a dispose message is deleted, crit_ not held.
DeleteDoomed ==
  \E h \in doomed : /\ Delete(h)
                    /\ doomed' = {}
                    /\ UNCHANGED get

\* fStop_ is read without crit_; otherwise the time to wait is computed.
CheckStop ==
  LET left == get.wait - TimeDiff(Time(get.cur), Time(get.start))
      asked == IF left < 0 THEN 0 ELSE left
      next == IF get.wait = kForever THEN get.next
              ELSE IF get.next # kForever /\ get.next < asked THEN get.next ELSE asked
  IN
  /\ get.pc = "empty"
  /\ get' = IF fStop THEN Outside("stopped")
            ELSE [get EXCEPT !.pc = "wait", !.next = next,
                             !.until = IF next = kForever THEN kForever ELSE clock + next]
  /\ UNCHANGED <<clock, fStop, queues, doomed, alive, woken, posted, gone>>

\* Mutant: Wait is not ended by a wake-up.
EndWaitAtTimeOnly ==
  /\ get.pc = "wait"
  /\ get.until # kForever /\ clock >= get.until
  /\ woken' = FALSE
  /\ get' = IF get.wait # kForever /\ TimeDiff(Time(clock), Time(get.start)) >= get.wait
            THEN Outside("out")
            ELSE [get EXCEPT !.pc = "read", !.cur = clock, !.next = kForever, !.until = kForever]
  /\ UNCHANGED <<clock, fStop, queues, doomed, alive, posted, gone>>

\* Wait returns when it is woken up or its time is over; the time is read.
EndWait ==
  /\ get.pc = "wait"
  /\ woken \/ (get.until # kForever /\ clock >= get.until)
  /\ woken' = FALSE
  /\ get' = IF get.wait # kForever /\ TimeDiff(Time(clock), Time(get.start)) >= get.wait
            THEN Outside("out")
            ELSE [get EXCEPT !.pc = "read", !.cur = clock, !.next = kForever, !.until = kForever]
  /\ UNCHANGED <<clock, fStop, queues, doomed, alive, posted, gone>>

GetStep ==
  ReceiveSends \/ MoveTriggered \/ FirstPull \/ NextPull \/ DeleteDoomed \/ CheckStop \/ EndWait

-----------------------------------------------------------------------------
\* Time passes; no thread is late by half the clock's range.
Tick ==
  /\ clock \notin {p[2] : p \in Periods}
  /\ get.pc \notin {"out", "stopped", "wait"} => clock < get.cur + MaxLate
  /\ get.pc = "wait" => get.until = kForever \/ clock < get.until + MaxLate
  /\ \A d \in dmsgq \cup {c \in calls : c.delayed} : clock < d.m.due + MaxLate
  /\ clock' = clock + 1
  /\ UNCHANGED <<fStop, queues, doomed, alive, woken, get, posted, gone>>

Next ==
  \/ \E h \in Handlers : Post(h) \/ PostDelayed(h) \/ Dispose(h) \/ Clear(h) \/ DeleteHandler(h)
  \/ \E c \in calls : EndPost(c)
  \/ Quit \/ Restart \/ CallGet \/ CallPeek \/ GetStep \/ Tick

Spec == Init /\ [][Next]_vars

\* The thread of the queue runs and keeps calling Get, posts end, time passes.
FairSpec ==
  /\ Spec
  /\ WF_vars(CallGet) /\ WF_vars(GetStep) /\ WF_vars(Tick)
  /\ WF_vars(\E c \in calls : EndPost(c))

-----------------------------------------------------------------------------
(* Properties *)

\* How often the clock has wrapped at time t.
Round(t) == t \div ClockModulus

\* The delayed messages S become due in the same round of the clock.
OneRound(S) == \A d, e \in S : Round(d.m.due) = Round(e.m.due)

\* Every message posted is in exactly one place: with its poster, in one of the
\* queues, kept by Peek, or done with.  None is lost or handled twice.
ExactlyOnce ==
  LET places == <<NumbersOf(calls), NumbersOf(msgq), NumbersOf(dmsgq), {m.n : m \in peek}, gone>>
  IN /\ \A S \in {calls, msgq, dmsgq} : \A e, f \in S : e.m.n = f.m.n => e = f
     /\ \A i, j \in 1 .. 5 : i # j => places[i] \cap places[j] = {}
     /\ UNION {places[i] : i \in 1 .. 5} = 1 .. posted

\* ~MessageHandler leaves no message behind, in the queues or kept by Peek, that a
\* later Get would hand out for a deleted handler, whichever thread deletes it and
\* wherever Get is.  A message that Get has already taken off the queue is out of
\* reach of Clear: the code leaves it to the owner not to delete a handler then.
NoMessageOfDeleted ==
  \A m \in peek \cup {e.m : e \in msgq \cup dmsgq} : m.h \in alive

\* Every delay leaves room, within half the range of the clock, for the time that
\* passes between Get's reading of the clock and its taking of crit_.
DelaysHaveRoom == \A delay \in Delays : 2 * (delay + MaxLate) < ClockModulus

\* No message is ready before its time.
NoneEarly == \A e \in msgq : e.m.due <= clock

\* A delayed message is never ready before its time, also when the clock wraps and
\* when it was posted after Get read the time, if the delays leave room for that.
\* (TimeAfter in timeutils.cc allows delays that do not; they are handed out at once.)
NeverEarly == DelaysHaveRoom => NoneEarly

\* No message was posted yet for a time after the clock wraps.
BeforeWrap == \A delay \in Delays : Round(clock + delay) = 0

\* Get never sleeps on a message: while it waits and is not woken up, nothing is
\* queued, the queue is not stopped, and it sleeps no longer than any delayed message
\* had left when Get read the time.  A message due after the clock wraps hides the
\* others from Get, which may then sleep too long.
NeverOversleeps ==
  get.pc = "wait" /\ ~woken =>
    /\ msgq = {} /\ ~fStop
    /\ BeforeWrap => \A d \in dmsgq : get.next # kForever /\ get.next <= d.m.due - get.cur

\* d comes before every delayed message: the order the heap should have.
DueFirst(d) == \A e \in dmsgq : d.m.due < e.m.due \/ (d.m.due = e.m.due /\ d.num <= e.num)

\* messagequeue.h, DelayedMessage: "sorted by trigger time.  Messages with the same
\* trigger time are processed in num_ (FIFO) order.", as long as the clock does not
\* wrap between two delayed messages: their times are compared as unsigned numbers.
TriggerOrderInRound ==
  [][OneRound(dmsgq) =>
       \A d \in dmsgq \ dmsgq' : d.m.n \in NumbersOf(msgq') => DueFirst(d)]_vars

\* A message, once posted, is handled, cleared or, if the queue is stopped, kept, as
\* long as the clock never wraps between two delayed messages: one that is overtaken
\* then may have to wait for longer than is looked at.
EventuallyGot ==
  []OneRound(dmsgq) => \A n \in Numbers : (n <= posted) ~> (n \in gone \/ fStop)
=============================================================================
