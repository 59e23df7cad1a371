------------------------- MODULE MessageQueueProofs -------------------------
(***************************************************************************)
(* Proofs about MessageQueue, for every set of handlers, every width of    *)
(* the clock, all delays of less than half its range and every bound.      *)
(***************************************************************************)
EXTENDS MessageQueue, WellFoundedInduction, TLAPS

-----------------------------------------------------------------------------
(* The inductive invariant *)

\* The messages that are not done with.
Delayed == dmsgq \cup {c \in calls : c.delayed}

\* Get and Peek start with nothing kept, and keep one message when they return.
PeekInv ==
  /\ \A m, k \in peek : m = k
  /\ get.pc \notin {"out", "stopped"} => peek = {}

\* An object is doomed by one message; DeleteDoomed follows before the next pass.
DisposedOnce ==
  /\ get.pc # "pop" => doomed = {}
  /\ \A e, f \in msgq \cup calls : e.m.dispose /\ f.m.dispose /\ e.m.h = f.m.h => e = f
  /\ \A e \in msgq \cup calls : e.m.dispose => e.m.h \notin doomed
  /\ \A d \in Delayed : ~d.m.dispose
  /\ \A m \in peek : ~m.dispose

\* Messages that are still to be queued are for handlers that exist, too.
HandlersExist == NoMessageOfDeleted /\ \A c \in calls : c.m.h \in alive

\* What the clock value of a time says is its distance from t.
Near(t, d) == 2 * (d.m.due - t) < ClockModulus /\ 2 * (t - d.m.due) < ClockModulus

\* Delayed messages are within half the range of the clock; while Get looks for those
\* that are triggered, the time it has read is not much older.
TimesInv ==
  /\ \E p \in Periods : p[1] <= clock
  /\ get.cur <= clock
  /\ \A c \in calls : ~c.delayed => c.m.due <= clock
  /\ \A d \in dmsgq : d.trigger = Time(d.m.due)
  /\ \A d \in Delayed : /\ Near(clock, d) /\ d.m.due >= 0
                        /\ \E delay \in Delays : d.m.due <= clock + delay
  /\ get.pc \in {"read", "scan"} => clock <= get.cur + MaxLate

\* Before it waits, Get has found nothing and knows when to look again; whoever
\* changes that wakes it up.
SleepInv ==
  ~woken =>
    /\ get.pc \in {"empty", "wait"} => msgq = {}
    /\ get.pc = "wait" => ~fStop
    /\ get.pc \in {"pop", "empty", "wait"} /\ BeforeWrap =>
         \A d \in dmsgq : get.next >= 0 /\ get.next <= d.m.due - get.cur

Inv ==
  /\ TypeOK /\ ExactlyOnce /\ PeekInv /\ DisposedOnce /\ HandlersExist
  /\ TimesInv /\ NeverEarly /\ SleepInv

-----------------------------------------------------------------------------
(* Time *)

LEMMA TimeFacts ==
  ASSUME NEW a \in Int
  PROVE  /\ Time(a) \in 0 .. ClockModulus - 1 /\ Round(a) \in Int
         /\ a = ClockModulus * Round(a) + Time(a)
BY QueueAssumption DEF Time, Round

LEMMA Remainder ==
  ASSUME NEW q \in Int, NEW r \in 0 .. ClockModulus - 1
  PROVE  (ClockModulus * q + r) % ClockModulus = r
<1> DEFINE x == ClockModulus * q + r
           y == x \div ClockModulus
           s == x % ClockModulus
<1>1. x \in Int /\ y \in Int /\ s \in 0 .. ClockModulus - 1 /\ x = ClockModulus * y + s
  BY QueueAssumption
<1>2. ClockModulus * (q - y) = s - r
  BY <1>1, QueueAssumption
<1>3. CASE q - y >= 1
  <2>1. ClockModulus * (q - y) >= ClockModulus
    BY <1>1, <1>3, QueueAssumption
  <2> QED
    BY <1>1, <1>2, <2>1, QueueAssumption
<1>4. CASE q - y <= -1
  <2>1. ClockModulus * (q - y) <= - ClockModulus
    BY <1>1, <1>4, QueueAssumption
  <2> QED
    BY <1>1, <1>2, <2>1, QueueAssumption
<1>5. CASE q = y
  BY <1>1, <1>2, <1>5, QueueAssumption
<1> QED
  BY <1>1, <1>3, <1>4, <1>5

\* The signed difference of two clock values is the difference of the times, if these
\* are less than half the range of the clock apart.
LEMMA TimeDiffIsDifference ==
  ASSUME NEW a \in Int, NEW b \in Int,
         2 * (a - b) < ClockModulus, 2 * (b - a) < ClockModulus
  PROVE  TimeDiff(Time(a), Time(b)) = a - b
<1> DEFINE q == Round(b) - Round(a)
<1>1. Time(a) - Time(b) = ClockModulus * q + (a - b) /\ q \in Int
  <2>1. Time(a) \in Int /\ Round(a) \in Int /\ a = ClockModulus * Round(a) + Time(a)
    BY TimeFacts, QueueAssumption
  <2>2. Time(b) \in Int /\ Round(b) \in Int /\ b = ClockModulus * Round(b) + Time(b)
    BY TimeFacts, QueueAssumption
  <2>3. ClockModulus * q = ClockModulus * Round(b) - ClockModulus * Round(a)
    BY <2>1, <2>2, QueueAssumption
  <2> QED
    BY <2>1, <2>2, <2>3, QueueAssumption
<1>2. CASE a >= b
  <2>1. a - b \in 0 .. ClockModulus - 1
    BY <1>2, QueueAssumption
  <2>2. (Time(a) - Time(b)) % ClockModulus = a - b
    BY <1>1, <2>1, Remainder
  <2> QED
    BY <2>2 DEF TimeDiff
<1>3. CASE a < b
  <2>1. a - b + ClockModulus \in 0 .. ClockModulus - 1
    BY <1>3, QueueAssumption
  <2>2. Time(a) - Time(b) = ClockModulus * (q - 1) + (a - b + ClockModulus) /\ q - 1 \in Int
    BY <1>1, QueueAssumption
  <2>3. (Time(a) - Time(b)) % ClockModulus = a - b + ClockModulus
    BY <2>1, <2>2, Remainder
  <2> QED
    BY <2>3, <1>3, QueueAssumption DEF TimeDiff
<1> QED
  BY <1>2, <1>3

\* Less than the whole range of the clock ahead, a time that is found to be later is.
LEMMA LaterIsDifference ==
  ASSUME NEW a \in Int, NEW b \in Int, a - b < ClockModulus, 2 * (b - a) < ClockModulus,
         TimeDiff(Time(a), Time(b)) > 0
  PROVE  TimeDiff(Time(a), Time(b)) = a - b
<1> DEFINE q == Round(b) - Round(a)
<1>1. CASE a < b
  BY <1>1, TimeDiffIsDifference, QueueAssumption
<1>2. CASE a >= b
  <2>1. Time(a) \in Int /\ Round(a) \in Int /\ a = ClockModulus * Round(a) + Time(a)
    BY TimeFacts, QueueAssumption
  <2>2. Time(b) \in Int /\ Round(b) \in Int /\ b = ClockModulus * Round(b) + Time(b)
    BY TimeFacts, QueueAssumption
  <2>3. ClockModulus * q = ClockModulus * Round(b) - ClockModulus * Round(a)
    BY <2>1, <2>2, QueueAssumption
  <2>4. Time(a) - Time(b) = ClockModulus * q + (a - b) /\ q \in Int
    BY <2>1, <2>2, <2>3, QueueAssumption
  <2>5. a - b \in 0 .. ClockModulus - 1
    BY <1>2, QueueAssumption
  <2>6. (Time(a) - Time(b)) % ClockModulus = a - b
    BY <2>4, <2>5, Remainder
  <2> QED
    BY <2>5, <2>6, QueueAssumption DEF TimeDiff
<1> QED
  BY <1>1, <1>2

LEMMA TimeType ==
  ASSUME NEW a \in Int
  PROVE  Time(a) \in Int
BY QueueAssumption DEF Time

LEMMA TimeDiffType ==
  ASSUME NEW a \in Int, NEW b \in Int
  PROVE  TimeDiff(a, b) \in Int
BY QueueAssumption DEF TimeDiff

\* In the same round the clock values are ordered as the times.
LEMMA SameRound ==
  ASSUME NEW a \in Int, NEW b \in Int, Round(a) = Round(b)
  PROVE  Time(a) - Time(b) = a - b
BY TimeFacts, QueueAssumption

LEMMA RoundZero ==
  ASSUME NEW a \in Int
  PROVE  Round(a) = 0 <=> 0 <= a /\ a < ClockModulus
<1>1. ASSUME 0 <= a, a < ClockModulus PROVE Round(a) = 0
  <2>1. Time(a) = a
    <3>1. a \in 0 .. ClockModulus - 1 /\ a = ClockModulus * 0 + a
      BY <1>1, QueueAssumption
    <3> QED
      BY <3>1, Remainder DEF Time
  <2>a. Round(a) \in Int /\ a = ClockModulus * Round(a) + Time(a)
    BY TimeFacts
  <2>2. ClockModulus * Round(a) = 0 /\ Round(a) \in Int
    BY <2>1, <2>a, QueueAssumption
  <2>3. CASE Round(a) >= 1
    <3>1. ClockModulus * Round(a) >= ClockModulus
      BY <2>2, <2>3, QueueAssumption
    <3> QED
      BY <2>2, <3>1, QueueAssumption
  <2>4. CASE Round(a) <= -1
    <3>1. ClockModulus * Round(a) <= - ClockModulus
      BY <2>2, <2>4, QueueAssumption
    <3> QED
      BY <2>2, <3>1, QueueAssumption
  <2> QED
    BY <2>2, <2>3, <2>4
<1>2. ASSUME Round(a) = 0 PROVE 0 <= a /\ a < ClockModulus
  BY <1>2, TimeFacts, QueueAssumption
<1> QED
  BY <1>1, <1>2

-----------------------------------------------------------------------------
(* The first message of a queue *)

LEMMA MinimumExists ==
  ASSUME NEW T \in SUBSET Nat, T # {}
  PROVE  \E x \in T : \A y \in T : x <= y
<1> DEFINE R == OpToRel(<, Nat)
<1>1. \A x, y \in Nat : <<y, x>> \notin R => x <= y
  BY DEF OpToRel
<1>2. IsWellFoundedOn(R, Nat)
  BY NatLessThanWellFounded
<1> HIDE DEF R
<1>3. \E x \in T : \A y \in T : ~(<<y, x>> \in R)
  BY <1>2, WFMin
<1> QED
  BY <1>1, <1>3

LEMMA FrontIsFirst ==
  ASSUME TypeOK, msgq # {}
  PROVE  Front \in msgq
<1> DEFINE T == {e.pos : e \in msgq}
<1>1. T \in SUBSET Nat /\ T # {}
  BY DEF TypeOK
<1> HIDE DEF T
<1>2. \E x \in T : \A y \in T : x <= y
  BY <1>1, MinimumExists
<1>3. \E e \in msgq : \A f \in msgq : e.pos <= f.pos
  BY <1>2 DEF T
<1> QED
  BY <1>3 DEF Front

LEMMA TopIsFirst ==
  ASSUME TypeOK, dmsgq # {}
  PROVE  Top \in dmsgq /\ \A e \in dmsgq : Before(Top, e)
<1> DEFINE T == {e.trigger : e \in dmsgq}
<1>1. \A e \in dmsgq : e.trigger \in Nat /\ e.num \in Nat
  BY QueueAssumption DEF TypeOK
<1>2. T \in SUBSET Nat /\ T # {}
  BY <1>1
<1> HIDE DEF T
<1>a. \E x \in T : \A y \in T : x <= y
  BY <1>2, MinimumExists
<1>3. PICK d \in dmsgq : \A e \in dmsgq : d.trigger <= e.trigger
  BY <1>a DEF T
<1> DEFINE S == {e \in dmsgq : e.trigger = d.trigger}
           N == {e.num : e \in S}
<1>4. N \in SUBSET Nat /\ N # {}
  BY <1>1, <1>3
<1> HIDE DEF N
<1>b. \E x \in N : \A y \in N : x <= y
  BY <1>4, MinimumExists
<1>5. PICK f \in S : \A e \in S : f.num <= e.num
  BY <1>b DEF N
<1>6. \A e \in dmsgq : Before(f, e)
  BY <1>1, <1>3, <1>5 DEF Before
<1>7. \E x \in dmsgq : \A e \in dmsgq : Before(x, e)
  BY <1>5, <1>6
<1> QED
  BY <1>7 DEF Top

-----------------------------------------------------------------------------
(* Types *)

LEMMA OutsideType ==
  ASSUME NEW pc \in PCs
  PROVE  Outside(pc) \in GetRecord /\ kForever \in Int
<1>1. kForever \in Int
  BY DEF kForever
<1> QED
  BY <1>1 DEF Outside, GetRecord

LEMMA TypeInit == Init => TypeOK
<1> SUFFICES ASSUME Init PROVE TypeOK
  OBVIOUS
<1>1. get \in GetRecord
  BY OutsideType DEF Init, PCs
<1>2. clock \in Nat
  BY QueueAssumption DEF Init
<1>3. fStop \in BOOLEAN /\ woken \in BOOLEAN
  BY DEF Init
<1>4. posted \in 0 .. MaxPosts /\ pushed \in Nat
  BY QueueAssumption DEF Init
<1> QED
  BY <1>1, <1>2, <1>3, <1>4 DEF Init, TypeOK

LEMMA BeginType ==
  ASSUME TypeOK, NEW h \in Handlers, NEW dispose \in BOOLEAN, NEW delayed \in BOOLEAN,
         NEW delay \in Int, Begin(h, dispose, delayed, delay)
  PROVE  TypeOK'
<1> DEFINE m == [n |-> posted + 1, h |-> h, dispose |-> dispose, due |-> clock + delay]
<1>1. posted + 1 \in Numbers /\ posted' \in 0 .. MaxPosts
  BY QueueAssumption DEF Begin, TypeOK, Numbers
<1>2. m \in Message
  BY <1>1 DEF Message, TypeOK
<1>3. calls' \subseteq [m : Message, delayed : BOOLEAN] /\ gone' \subseteq Numbers
  BY <1>1, <1>2 DEF Begin, TypeOK
<1> QED
  BY <1>1, <1>3 DEF Begin, TypeOK

LEMMA EndPostType ==
  ASSUME TypeOK, NEW c \in calls, EndPost(c)
  PROVE  TypeOK'
<1>1. c.m \in Message /\ c.m.due \in Int
  BY DEF TypeOK, Message
<1>2. Time(c.m.due) \in 0 .. ClockModulus - 1
  BY <1>1, TimeFacts
<1> QED
  BY <1>1, <1>2 DEF TypeOK, EndPost, Push

LEMMA DropMessagesType ==
  ASSUME TypeOK, NEW h, DropMessages(h)
  PROVE  /\ peek' \subseteq peek /\ msgq' \subseteq msgq /\ dmsgq' \subseteq dmsgq
         /\ gone' \subseteq Numbers
BY DEF TypeOK, DropMessages, Matching, NumbersOf, Message

LEMMA DeleteType ==
  ASSUME TypeOK, NEW h, Delete(h), doomed' \subseteq doomed, UNCHANGED get
  PROVE  TypeOK'
<1>1. DropMessages(h)
  BY DEF Delete
<1> QED
  BY <1>1, DropMessagesType DEF TypeOK, Delete

\* FirstPull computes the time until the next delayed message.
LEMMA FirstPullGet ==
  ASSUME TypeOK, FirstPull
  PROVE  \E g \in GetRecord :
           /\ Pull(g) /\ g.cur = get.cur
           /\ dmsgq # {} => g.next = TimeDiff(Top.trigger, Time(get.cur))
<1> DEFINE next == IF dmsgq = {} THEN kForever ELSE TimeDiff(Top.trigger, Time(get.cur))
           g == [get EXCEPT !.next = next]
<1>1. get \in GetRecord /\ get.cur \in Int /\ kForever \in Int
  BY DEF TypeOK, GetRecord, kForever
<1>2. dmsgq # {} => Top.trigger \in Int
  BY TopIsFirst, QueueAssumption DEF TypeOK
<1>3. next \in Int
  BY <1>1, <1>2, TimeType, TimeDiffType
<1>4. Pull(g)
  BY DEF FirstPull
<1> HIDE DEF next
<1>5. g \in GetRecord /\ g.cur = get.cur /\ g.next = next
  BY <1>1, <1>3 DEF GetRecord
<1> HIDE DEF g
<1> QED
  BY <1>4, <1>5 DEF next

LEMMA PullType ==
  ASSUME TypeOK, NEW g \in GetRecord, Pull(g)
  PROVE  TypeOK'
<1>1. msgq # {} => Front \in msgq /\ Front.m \in Message /\ Front.m.n \in Numbers /\ Front.m.h \in Handlers
  BY FrontIsFirst DEF TypeOK, Message
<1>b. g.peeking \in BOOLEAN
  BY DEF GetRecord
<1>c. [g EXCEPT !.pc = "empty"] \in GetRecord /\ [g EXCEPT !.pc = "pop"] \in GetRecord
  BY DEF GetRecord, PCs
<1>2. get' \in GetRecord
  BY <1>c, OutsideType DEF Pull, PCs
<1> QED
  BY <1>1, <1>2 DEF TypeOK, Pull

\* The time to wait is at most the time until the next delayed message.
LEMMA CheckStopGet ==
  ASSUME TypeOK, CheckStop
  PROVE  \/ fStop /\ get' = Outside("stopped")
         \/ /\ ~fStop /\ get'.pc = "wait" /\ get'.cur = get.cur /\ get' \in GetRecord
            /\ get.next >= 0 => get'.next >= 0 /\ get'.next <= get.next
<1> DEFINE left == get.wait - TimeDiff(Time(get.cur), Time(get.start))
           asked == IF left < 0 THEN 0 ELSE left
           next == IF get.wait = kForever THEN get.next
                   ELSE IF get.next # kForever /\ get.next < asked THEN get.next ELSE asked
           until == IF next = kForever THEN kForever ELSE clock + next
<1>1. get \in GetRecord /\ get.wait \in Int /\ get.next \in Int /\ get.cur \in Int /\ get.start \in Int
  <2>1. kForever \in Int
    BY DEF kForever
  <2>2. get \in GetRecord
    BY DEF TypeOK
  <2>3. get.wait \in Waits \cup {kForever} /\ get.next \in Int /\ get.cur \in Nat /\ get.start \in Nat
    BY <2>2 DEF GetRecord
  <2>4. Waits \cup {kForever} \subseteq Int
    BY <2>1, QueueAssumption
  <2> QED
    BY <2>2, <2>3, <2>4
<1>2. left \in Int
  <2>1. TimeDiff(Time(get.cur), Time(get.start)) \in Int
    BY <1>1, TimeType, TimeDiffType
  <2> QED
    BY <1>1, <2>1
<1> HIDE DEF left
<1>3. asked \in Nat
  BY <1>2
<1>4. next \in Int
  BY <1>1, <1>3
<1>5. get.next >= 0 => next >= 0 /\ next <= get.next
  BY <1>1, <1>3 DEF kForever
<1>6. get' = IF fStop THEN Outside("stopped")
             ELSE [get EXCEPT !.pc = "wait", !.next = next, !.until = until]
  BY DEF CheckStop, left
<1> HIDE DEF next
<1>7. until \in Int
  BY <1>4 DEF kForever, TypeOK
<1> HIDE DEF until
<1>8. [get EXCEPT !.pc = "wait", !.next = next, !.until = until] \in GetRecord
  BY <1>1, <1>4, <1>7 DEF GetRecord, PCs
<1> QED
  BY <1>1, <1>5, <1>6, <1>8 DEF GetRecord

LEMMA TypeStep ==
  ASSUME TypeOK, [Next]_vars
  PROVE  TypeOK'
<1>1. ASSUME NEW h \in Handlers, Post(h) \/ PostDelayed(h) \/ Dispose(h) PROVE TypeOK'
  <2>1. CASE Post(h) \/ Dispose(h)
    <3>1. FALSE \in BOOLEAN /\ TRUE \in BOOLEAN /\ 0 \in Int
      OBVIOUS
    <3> QED
      BY <2>1, <3>1, BeginType DEF Post, Dispose
  <2>2. CASE PostDelayed(h)
    BY <2>2, BeginType, QueueAssumption DEF PostDelayed
  <2> QED
    BY <1>1, <2>1, <2>2
<1>2. ASSUME NEW c \in calls, EndPost(c) PROVE TypeOK'
  BY <1>2, EndPostType
<1>3. ASSUME NEW h \in Handlers, Clear(h) PROVE TypeOK'
  BY <1>3, DropMessagesType DEF Clear, TypeOK
<1>4. ASSUME NEW h \in Handlers, DeleteHandler(h) PROVE TypeOK'
  BY <1>4, DeleteType DEF DeleteHandler
<1>5. CASE Quit \/ Restart
  BY <1>5 DEF Quit, Restart, TypeOK, queues
<1>6. ASSUME NEW peeking \in BOOLEAN, NEW wait \in Waits \cup {kForever}, Call(peeking, wait)
      PROVE  TypeOK'
  <2>1. \A g \in GetRecord : [g EXCEPT !.peeking = peeking, !.wait = wait, !.start = clock,
                                        !.cur = clock] \in GetRecord
    BY DEF TypeOK, GetRecord
  <2>2. Outside("out") \in GetRecord /\ Outside("read") \in GetRecord
    BY OutsideType DEF PCs
  <2>3. get' \in GetRecord
    BY <1>6, <2>1, <2>2 DEF Call
  <2> QED
    BY <1>6, <2>3 DEF Call, TypeOK, Message
<1>7. CASE MoveTriggered
  BY <1>7, TopIsFirst DEF MoveTriggered, TypeOK
<1>8. CASE FirstPull
  BY <1>8, FirstPullGet, PullType
<1>9. CASE NextPull
  BY <1>9, PullType DEF NextPull, TypeOK
<1>10. CASE DeleteDoomed
  BY <1>10, DeleteType DEF DeleteDoomed
<1>11. CASE CheckStop
  <2>1. get' \in GetRecord
    BY <1>11, CheckStopGet, OutsideType DEF PCs, GetRecord, TypeOK
  <2> QED
    BY <1>11, <2>1 DEF CheckStop, TypeOK, queues
<1>12. CASE EndWait
  <2>1. get' \in GetRecord
    BY <1>12, OutsideType DEF EndWait, TypeOK, PCs, GetRecord
  <2> QED
    BY <1>12, <2>1 DEF EndWait, TypeOK, queues
<1>13. CASE Tick
  BY <1>13 DEF Tick, TypeOK, queues
<1>14. CASE UNCHANGED vars
  BY <1>14 DEF vars, queues, TypeOK
<1>15. CASE ReceiveSends
  BY <1>15 DEF ReceiveSends, TypeOK, queues, GetRecord, PCs
<1> QED
  BY <1>1, <1>2, <1>3, <1>4, <1>5, <1>6, <1>7, <1>8, <1>9, <1>10, <1>11, <1>12, <1>13, <1>14,
     <1>15
     DEF Next, GetStep, CallGet, CallPeek

-----------------------------------------------------------------------------
(* No message is lost or handled twice *)

\* The entries of a queue have different messages.
Distinct(S) == \A e, f \in S : e.m.n = f.m.n => e = f

Peeked == {m.n : m \in peek}

\* ExactlyOnce with its places written out.
InOnePlace ==
  /\ Distinct(calls) /\ Distinct(msgq) /\ Distinct(dmsgq)
  /\ NumbersOf(calls) \cap NumbersOf(msgq) = {} /\ NumbersOf(calls) \cap NumbersOf(dmsgq) = {}
  /\ NumbersOf(calls) \cap Peeked = {} /\ NumbersOf(calls) \cap gone = {}
  /\ NumbersOf(msgq) \cap NumbersOf(dmsgq) = {} /\ NumbersOf(msgq) \cap Peeked = {}
  /\ NumbersOf(msgq) \cap gone = {} /\ NumbersOf(dmsgq) \cap Peeked = {}
  /\ NumbersOf(dmsgq) \cap gone = {} /\ Peeked \cap gone = {}
  /\ NumbersOf(calls) \cup NumbersOf(msgq) \cup NumbersOf(dmsgq) \cup Peeked \cup gone = 1 .. posted

LEMMA ExactlyOnceParts == ExactlyOnce <=> InOnePlace
<1> DEFINE C == NumbersOf(calls)
           M == NumbersOf(msgq)
           D == NumbersOf(dmsgq)
           places == <<C, M, D, Peeked, gone>>
<1>1. ExactlyOnce <=>
        /\ \A S \in {calls, msgq, dmsgq} : Distinct(S)
        /\ \A i, j \in 1 .. 5 : i # j => places[i] \cap places[j] = {}
        /\ UNION {places[i] : i \in 1 .. 5} = 1 .. posted
  BY DEF ExactlyOnce, Distinct, Peeked
<1> HIDE DEF C, M, D
<1>2. (\A S \in {calls, msgq, dmsgq} : Distinct(S)) <=> Distinct(calls) /\ Distinct(msgq) /\ Distinct(dmsgq)
  OBVIOUS
<1>3. 1 .. 5 = {1, 2, 3, 4, 5}
  OBVIOUS
<1>4. places[1] = C /\ places[2] = M /\ places[3] = D /\ places[4] = Peeked /\ places[5] = gone
  OBVIOUS
<1> HIDE DEF places
<1>5. UNION {places[i] : i \in 1 .. 5} = C \cup M \cup D \cup Peeked \cup gone
  BY <1>3, <1>4
<1>6. (\A i, j \in 1 .. 5 : i # j => places[i] \cap places[j] = {})
       <=> /\ C \cap M = {} /\ C \cap D = {} /\ C \cap Peeked = {} /\ C \cap gone = {}
           /\ M \cap D = {} /\ M \cap Peeked = {} /\ M \cap gone = {}
           /\ D \cap Peeked = {} /\ D \cap gone = {} /\ Peeked \cap gone = {}
  <2>1. (\A i, j \in 1 .. 5 : i # j => places[i] \cap places[j] = {})
         <=> /\ places[1] \cap places[2] = {} /\ places[1] \cap places[3] = {}
             /\ places[1] \cap places[4] = {} /\ places[1] \cap places[5] = {}
             /\ places[2] \cap places[3] = {} /\ places[2] \cap places[4] = {}
             /\ places[2] \cap places[5] = {} /\ places[3] \cap places[4] = {}
             /\ places[3] \cap places[5] = {} /\ places[4] \cap places[5] = {}
    BY <1>3
  <2> QED
    BY <2>1, <1>4
<1> QED
  BY <1>1, <1>2, <1>5, <1>6 DEF C, M, D, InOnePlace

LEMMA ExactlyOncePartsNext == ExactlyOnce' <=> InOnePlace'
BY ExactlyOnceParts, PTL

LEMMA AddEntry ==
  ASSUME NEW S, NEW e, Distinct(S), e.m.n \notin NumbersOf(S)
  PROVE  NumbersOf(S \cup {e}) = NumbersOf(S) \cup {e.m.n} /\ Distinct(S \cup {e})
BY DEF NumbersOf, Distinct

\* Clear moves the messages it removes to those that are done with.
LEMMA DropMessagesOnce ==
  ASSUME TypeOK, InOnePlace, PeekInv, NEW h, DropMessages(h), UNCHANGED <<calls, posted>>
  PROVE  InOnePlace'
<1> DEFINE QD == NumbersOf(Matching(msgq, h))
           DD == NumbersOf(Matching(dmsgq, h))
           PD == {m.n : m \in peek \ peek'}
<1>1. NumbersOf(msgq)' = NumbersOf(msgq) \ QD /\ QD \subseteq NumbersOf(msgq)
  BY DEF InOnePlace, DropMessages, Matching, NumbersOf, Distinct
<1>2. NumbersOf(dmsgq)' = NumbersOf(dmsgq) \ DD /\ DD \subseteq NumbersOf(dmsgq)
  BY DEF InOnePlace, DropMessages, Matching, NumbersOf, Distinct
<1>3. gone' = gone \cup QD \cup DD \cup PD
  BY DEF DropMessages, Matching, NumbersOf
<1>4. Peeked' = Peeked \ PD /\ PD \subseteq Peeked
  BY DEF DropMessages, Peeked, PeekInv
<1>5. Distinct(calls)' /\ Distinct(msgq)' /\ Distinct(dmsgq)' /\ NumbersOf(calls)' = NumbersOf(calls)
  BY DEF InOnePlace, DropMessages, Matching, Distinct, NumbersOf
<1> HIDE DEF QD, DD, PD
<1> QED
  BY <1>1, <1>2, <1>3, <1>4, <1>5 DEF InOnePlace

LEMMA BeginOnce ==
  ASSUME TypeOK, InOnePlace, NEW h, NEW dispose, NEW delayed, NEW delay,
         Begin(h, dispose, delayed, delay)
  PROVE  InOnePlace'
<1> DEFINE n == posted + 1
<1>1. n \notin 1 .. posted /\ (1 .. posted)' = 1 .. posted \cup {n}
  BY QueueAssumption DEF TypeOK, Begin
<1>2. \/ gone' = gone \cup {n} /\ NumbersOf(calls)' = NumbersOf(calls) /\ Distinct(calls)'
      \/ gone' = gone /\ NumbersOf(calls)' = NumbersOf(calls) \cup {n} /\ Distinct(calls)'
  <2> DEFINE c == [m |-> [n |-> n, h |-> h, dispose |-> dispose, due |-> clock + delay],
                   delayed |-> delayed]
  <2>1. c.m.n = n
    OBVIOUS
  <2>2. \/ gone' = gone \cup {n} /\ calls' = calls
        \/ gone' = gone /\ calls' = calls \cup {c}
    BY DEF Begin
  <2> HIDE DEF c
  <2>3. Distinct(calls) /\ n \notin NumbersOf(calls)
    BY <1>1 DEF InOnePlace
  <2>4. NumbersOf(calls \cup {c}) = NumbersOf(calls) \cup {n} /\ Distinct(calls \cup {c})
    BY <2>1, <2>3, AddEntry
  <2>5. CASE calls' = calls
    BY <2>2, <2>3, <2>4, <2>5 DEF NumbersOf, Distinct
  <2>6. CASE gone' = gone /\ calls' = calls \cup {c}
    BY <2>4, <2>6 DEF NumbersOf, Distinct
  <2> QED
    BY <2>2, <2>5, <2>6
<1>3. /\ NumbersOf(msgq)' = NumbersOf(msgq) /\ Distinct(msgq)'
      /\ NumbersOf(dmsgq)' = NumbersOf(dmsgq) /\ Distinct(dmsgq)' /\ Peeked' = Peeked
  BY DEF InOnePlace, Begin, NumbersOf, Distinct, Peeked
<1> HIDE DEF n
<1> QED
  BY <1>1, <1>2, <1>3 DEF InOnePlace

LEMMA EndPostOnce ==
  ASSUME TypeOK, InOnePlace, NEW c \in calls, EndPost(c)
  PROVE  InOnePlace'
<1> DEFINE n == c.m.n
<1>1. NumbersOf(calls)' = NumbersOf(calls) \ {n} /\ n \in NumbersOf(calls) /\ Distinct(calls)'
  BY DEF InOnePlace, EndPost, NumbersOf, Distinct
<1>2. n \notin NumbersOf(msgq) /\ n \notin NumbersOf(dmsgq)
  BY <1>1 DEF InOnePlace
<1>3. \/ /\ NumbersOf(msgq)' = NumbersOf(msgq) \cup {n} /\ Distinct(msgq)'
         /\ NumbersOf(dmsgq)' = NumbersOf(dmsgq) /\ Distinct(dmsgq)'
      \/ /\ NumbersOf(msgq)' = NumbersOf(msgq) /\ Distinct(msgq)'
         /\ NumbersOf(dmsgq)' = NumbersOf(dmsgq) \cup {n} /\ Distinct(dmsgq)'
  <2> DEFINE d == [trigger |-> Time(c.m.due), num |-> pushed, m |-> c.m]
             e == [pos |-> pushed, m |-> c.m]
  <2>1. d.m.n = n /\ e.m.n = n
    OBVIOUS
  <2>2. \/ dmsgq' = dmsgq \cup {d} /\ msgq' = msgq
        \/ msgq' = msgq \cup {e} /\ dmsgq' = dmsgq
    BY DEF EndPost, Push
  <2> HIDE DEF d, e
  <2>3. NumbersOf(dmsgq \cup {d}) = NumbersOf(dmsgq) \cup {n} /\ Distinct(dmsgq \cup {d})
    BY <1>2, <2>1, AddEntry DEF InOnePlace
  <2>4. NumbersOf(msgq \cup {e}) = NumbersOf(msgq) \cup {n} /\ Distinct(msgq \cup {e})
    BY <1>2, <2>1, AddEntry DEF InOnePlace
  <2> QED
    BY <2>2, <2>3, <2>4 DEF InOnePlace, NumbersOf, Distinct
<1>4. UNCHANGED <<Peeked, gone, posted>>
  BY DEF EndPost, Peeked
<1> HIDE DEF n
<1> QED
  BY <1>1, <1>2, <1>3, <1>4 DEF InOnePlace

LEMMA MoveTriggeredOnce ==
  ASSUME TypeOK, InOnePlace, MoveTriggered
  PROVE  InOnePlace'
<1> DEFINE n == Top.m.n
<1>1. Top \in dmsgq
  BY TopIsFirst DEF MoveTriggered
<1>2. NumbersOf(dmsgq)' = NumbersOf(dmsgq) \ {n} /\ n \in NumbersOf(dmsgq) /\ Distinct(dmsgq)'
  BY <1>1 DEF InOnePlace, MoveTriggered, NumbersOf, Distinct
<1>3. n \notin NumbersOf(msgq)
  BY <1>2 DEF InOnePlace
<1>4. NumbersOf(msgq)' = NumbersOf(msgq) \cup {n} /\ Distinct(msgq)'
  <2> DEFINE e == [pos |-> pushed, m |-> Top.m]
  <2>1. e.m.n = n /\ msgq' = msgq \cup {e}
    BY DEF MoveTriggered
  <2> HIDE DEF e
  <2>2. NumbersOf(msgq \cup {e}) = NumbersOf(msgq) \cup {n} /\ Distinct(msgq \cup {e})
    BY <1>3, <2>1, AddEntry DEF InOnePlace
  <2> QED
    BY <2>1, <2>2 DEF NumbersOf, Distinct
<1>5. UNCHANGED <<Peeked, gone, posted>> /\ NumbersOf(calls)' = NumbersOf(calls) /\ Distinct(calls)'
  BY DEF InOnePlace, MoveTriggered, Peeked, NumbersOf, Distinct
<1> HIDE DEF n
<1> QED
  BY <1>2, <1>3, <1>4, <1>5 DEF InOnePlace

LEMMA PullOnce ==
  ASSUME TypeOK, InOnePlace, peek = {}, NEW g, Pull(g)
  PROVE  InOnePlace'
<1>1. CASE msgq = {}
  BY <1>1 DEF Pull, InOnePlace, NumbersOf, Peeked, Distinct
<1>2. CASE msgq # {}
  <2> DEFINE n == Front.m.n
  <2>1. Front \in msgq
    BY <1>2, FrontIsFirst
  <2>2. NumbersOf(msgq)' = NumbersOf(msgq) \ {n} /\ n \in NumbersOf(msgq) /\ Distinct(msgq)'
    BY <1>2, <2>1 DEF InOnePlace, Pull, NumbersOf, Distinct
  <2>3. Peeked = {}
    BY DEF Peeked
  <2>4. \/ gone' = gone \cup {n} /\ Peeked' = {}
        \/ gone' = gone /\ Peeked' = {n}
    BY <1>2 DEF Pull, Peeked
  <2>5. /\ NumbersOf(calls)' = NumbersOf(calls) /\ Distinct(calls)' /\ posted' = posted
        /\ NumbersOf(dmsgq)' = NumbersOf(dmsgq) /\ Distinct(dmsgq)'
    BY DEF InOnePlace, Pull, NumbersOf, Distinct
  <2> HIDE DEF n
  <2> QED
    BY <2>2, <2>3, <2>4, <2>5 DEF InOnePlace
<1> QED
  BY <1>1, <1>2

LEMMA ExactlyOnceStep ==
  ASSUME Inv, [Next]_vars
  PROVE  ExactlyOnce'
<1> SUFFICES InOnePlace'
  BY ExactlyOncePartsNext
<1>0. TypeOK /\ InOnePlace /\ PeekInv
  BY ExactlyOnceParts DEF Inv
<1>1. ASSUME NEW h \in Handlers, Post(h) \/ PostDelayed(h) \/ Dispose(h) PROVE InOnePlace'
  BY <1>0, <1>1, BeginOnce DEF Post, PostDelayed, Dispose
<1>2. ASSUME NEW c \in calls, EndPost(c) PROVE InOnePlace'
  BY <1>0, <1>2, EndPostOnce
<1>3. ASSUME NEW h \in Handlers, Clear(h) \/ DeleteHandler(h) PROVE InOnePlace'
  BY <1>0, <1>3, DropMessagesOnce DEF Clear, DeleteHandler, Delete
<1>4. ASSUME NEW peeking, NEW wait, Call(peeking, wait) PROVE InOnePlace'
  <2>1. UNCHANGED <<calls, msgq, dmsgq, posted>>
    BY <1>4 DEF Call
  <2>2. \/ UNCHANGED <<Peeked, gone>>
        \/ Peeked' = {} /\ gone' = gone \cup Peeked
    BY <1>4 DEF Call, Peeked
  <2> QED
    BY <1>0, <2>1, <2>2 DEF InOnePlace, NumbersOf, Distinct
<1>5. CASE MoveTriggered
  BY <1>0, <1>5, MoveTriggeredOnce
<1>6. CASE FirstPull \/ NextPull
  <2>1. peek = {}
    BY <1>0, <1>6 DEF FirstPull, NextPull, PeekInv
  <2> QED
    BY <1>0, <1>6, <2>1, PullOnce DEF FirstPull, NextPull
<1>7. CASE DeleteDoomed
  BY <1>0, <1>7, DropMessagesOnce DEF DeleteDoomed, Delete
<1>8. CASE Quit \/ Restart \/ ReceiveSends \/ CheckStop \/ EndWait \/ Tick \/ UNCHANGED vars
  <2>1. UNCHANGED <<calls, msgq, dmsgq, peek, gone, posted>>
    BY <1>8 DEF Quit, Restart, ReceiveSends, CheckStop, EndWait, Tick, vars, queues
  <2> QED
    BY <1>0, <2>1 DEF InOnePlace, NumbersOf, Peeked, Distinct
<1> QED
  BY <1>1, <1>2, <1>3, <1>4, <1>5, <1>6, <1>7, <1>8 DEF Next, GetStep, CallGet, CallPeek

-----------------------------------------------------------------------------
(* Handlers *)

LEMMA PeekStep ==
  ASSUME Inv, [Next]_vars
  PROVE  PeekInv'
<1>0. PeekInv /\ TypeOK
  BY DEF Inv
<1>1. ASSUME NEW h \in Handlers, Clear(h) \/ DeleteHandler(h) PROVE PeekInv'
  BY <1>0, <1>1 DEF Clear, DeleteHandler, Delete, DropMessages, PeekInv
<1>2. ASSUME NEW peeking, NEW wait, Call(peeking, wait) PROVE PeekInv'
  BY <1>0, <1>2 DEF Call, PeekInv, Outside
<1>3. CASE FirstPull \/ NextPull
  <2>1. peek = {} /\ \E g : Pull(g)
    BY <1>0, <1>3 DEF FirstPull, NextPull, PeekInv
  <2> QED
    BY <2>1 DEF Pull, PeekInv, Outside
<1>4. CASE DeleteDoomed
  BY <1>0, <1>4 DEF DeleteDoomed, Delete, DropMessages, PeekInv
<1>5. CASE ReceiveSends \/ CheckStop \/ EndWait
  <2>1. peek' = {} /\ peek = {}
    BY <1>0, <1>5 DEF ReceiveSends, CheckStop, EndWait, PeekInv, queues
  <2> QED
    BY <2>1 DEF PeekInv
<1>6. ASSUME UNCHANGED <<peek, get>> PROVE PeekInv'
  BY <1>0, <1>6 DEF PeekInv
<1>7. ASSUME NEW h \in Handlers, Post(h) \/ PostDelayed(h) \/ Dispose(h) PROVE PeekInv'
  BY <1>6, <1>7 DEF Post, PostDelayed, Dispose, Begin
<1>8. ASSUME NEW c \in calls, EndPost(c) PROVE PeekInv'
  BY <1>6, <1>8 DEF EndPost
<1>9. CASE Quit \/ Restart \/ MoveTriggered \/ Tick \/ UNCHANGED vars
  BY <1>6, <1>9 DEF Quit, Restart, MoveTriggered, Tick, queues, vars
<1> QED
  BY <1>1, <1>2, <1>3, <1>4, <1>5, <1>7, <1>8, <1>9 DEF Next, GetStep, CallGet, CallPeek

LEMMA DisposedStep ==
  ASSUME Inv, [Next]_vars
  PROVE  DisposedOnce'
<1>0. TypeOK /\ PeekInv /\ DisposedOnce
  BY DEF Inv
<1>a. \A e \in msgq : e \notin calls
  <2>1. NumbersOf(calls) \cap NumbersOf(msgq) = {}
    BY ExactlyOnceParts DEF Inv, InOnePlace
  <2> QED
    BY <2>1 DEF NumbersOf
<1>1. ASSUME NEW h \in Handlers, NEW delay, Begin(h, FALSE, TRUE, delay) \/ Begin(h, FALSE, FALSE, delay)
      PROVE  DisposedOnce'
  BY <1>0, <1>1 DEF Begin, DisposedOnce, Delayed
<1>2. ASSUME NEW h \in Handlers, Dispose(h) PROVE DisposedOnce'
  <2> DEFINE c == [m |-> [n |-> posted + 1, h |-> h, dispose |-> TRUE, due |-> clock + 0],
                   delayed |-> FALSE]
  <2>1. c.m.h = h /\ ~c.delayed
    OBVIOUS
  <2>2. /\ calls' = calls \/ calls' = calls \cup {c}
        /\ UNCHANGED <<msgq, dmsgq, peek, doomed, get>>
        /\ h \notin doomed /\ \A e \in msgq \cup calls : ~(e.m.h = h /\ e.m.dispose)
    BY <1>2 DEF Dispose, Begin
  <2> HIDE DEF c
  <2> QED
    BY <1>0, <2>1, <2>2 DEF DisposedOnce, Delayed
<1>3. ASSUME NEW c \in calls, EndPost(c) PROVE DisposedOnce'
  <2> DEFINE d == [trigger |-> Time(c.m.due), num |-> pushed, m |-> c.m]
             e == [pos |-> pushed, m |-> c.m]
  <2>1. d.m = c.m /\ e.m = c.m
    OBVIOUS
  <2>2. UNCHANGED <<peek, doomed, get>> /\ calls' = calls \ {c}
    BY <1>3 DEF EndPost
  <2>3. \/ c.delayed /\ dmsgq' = dmsgq \cup {d} /\ msgq' = msgq
        \/ ~c.delayed /\ msgq' = msgq \cup {e} /\ dmsgq' = dmsgq
    BY <1>3 DEF EndPost, Push
  <2> HIDE DEF d, e
  <2>4. CASE c.delayed /\ dmsgq' = dmsgq \cup {d} /\ msgq' = msgq
    BY <1>0, <2>1, <2>2, <2>4 DEF DisposedOnce, Delayed
  <2>5. CASE ~c.delayed /\ msgq' = msgq \cup {e} /\ dmsgq' = dmsgq
    <3>1. \A f \in msgq' \cup calls' : f.m.dispose /\ c.m.dispose /\ f.m.h = c.m.h => f = e
      BY <1>0, <1>a, <2>1, <2>2, <2>5 DEF DisposedOnce
    <3> QED
      BY <1>0, <2>1, <2>2, <2>5, <3>1 DEF DisposedOnce, Delayed
  <2> QED
    BY <2>3, <2>4, <2>5
<1>4. ASSUME /\ msgq' \subseteq msgq /\ calls' \subseteq calls /\ dmsgq' \subseteq dmsgq
             /\ peek' \subseteq peek /\ doomed' \subseteq doomed
             /\ get'.pc # "pop" => get.pc # "pop" \/ doomed' = {}
      PROVE  DisposedOnce'
  BY <1>0, <1>4 DEF DisposedOnce, Delayed
<1>5. ASSUME NEW h \in Handlers, Clear(h) \/ DeleteHandler(h) PROVE DisposedOnce'
  BY <1>0, <1>4, <1>5, DropMessagesType DEF Clear, DeleteHandler, Delete
<1>6. CASE DeleteDoomed
  BY <1>0, <1>4, <1>6, DropMessagesType DEF DeleteDoomed, Delete
<1>7. ASSUME NEW peeking, NEW wait, Call(peeking, wait) PROVE DisposedOnce'
  BY <1>4, <1>7 DEF Call
<1>8. CASE MoveTriggered
  BY <1>0, <1>8, TopIsFirst DEF MoveTriggered, DisposedOnce, Delayed
<1>9. ASSUME NEW g \in GetRecord, Pull(g), doomed = {}, peek = {} PROVE DisposedOnce'
  <2>1. UNCHANGED <<calls, dmsgq>>
    BY <1>9 DEF Pull
  <2>2. CASE msgq = {}
    <3>1. UNCHANGED <<msgq, peek, doomed>>
      BY <1>9, <2>2 DEF Pull
    <3> QED
      BY <1>0, <1>9, <2>1, <3>1 DEF DisposedOnce, Delayed
  <2>3. CASE msgq # {} /\ Front.m.dispose
    <3>1. msgq' = msgq \ {Front} /\ doomed' = {Front.m.h} /\ peek' = peek /\ Front \in msgq
      BY <1>0, <1>9, <2>3, FrontIsFirst DEF Pull
    <3>2. get'.pc = "pop"
      BY <1>9, <2>3 DEF Pull, GetRecord
    <3>3. \A e \in msgq' \cup calls' : e.m.dispose => e.m.h # Front.m.h
      BY <1>0, <1>a, <2>1, <2>3, <3>1 DEF DisposedOnce
    <3> QED
      BY <1>0, <2>1, <3>1, <3>2, <3>3 DEF DisposedOnce, Delayed
  <2>4. CASE msgq # {} /\ ~Front.m.dispose
    <3>1. msgq' = msgq \ {Front} /\ doomed' = {} /\ peek' \subseteq {Front.m}
      BY <1>9, <2>4 DEF Pull
    <3> QED
      BY <1>0, <2>1, <2>4, <3>1 DEF DisposedOnce, Delayed
  <2> QED
    BY <2>2, <2>3, <2>4
<1>10. CASE FirstPull
  BY <1>0, <1>9, <1>10, FirstPullGet DEF FirstPull, PeekInv, DisposedOnce
<1>11. CASE NextPull
  BY <1>0, <1>9, <1>11 DEF NextPull, PeekInv, TypeOK
<1>12. CASE Quit \/ Restart \/ ReceiveSends \/ CheckStop \/ EndWait \/ Tick \/ UNCHANGED vars
  BY <1>4, <1>12 DEF Quit, Restart, ReceiveSends, CheckStop, EndWait, Tick, queues, vars
<1> QED
  BY <1>1, <1>2, <1>3, <1>5, <1>6, <1>7, <1>8, <1>10, <1>11, <1>12
     DEF Next, GetStep, CallGet, CallPeek, Post, PostDelayed

LEMMA HandlersStep ==
  ASSUME Inv, [Next]_vars
  PROVE  HandlersExist'
<1> USE DEF HandlersExist, NoMessageOfDeleted
<1>0. TypeOK /\ PeekInv /\ DisposedOnce /\ HandlersExist
  BY DEF Inv
<1>1. ASSUME NEW h \in Handlers, NEW dispose, NEW delayed, NEW delay, Begin(h, dispose, delayed, delay)
      PROVE  HandlersExist'
  BY <1>0, <1>1 DEF Begin
<1>2. ASSUME NEW c \in calls, EndPost(c) PROVE HandlersExist'
  BY <1>0, <1>2 DEF EndPost, Push
<1>3. ASSUME /\ msgq' \subseteq msgq /\ calls' \subseteq calls /\ dmsgq' \subseteq dmsgq
             /\ peek' \subseteq peek /\ alive' = alive
      PROVE  HandlersExist'
  BY <1>0, <1>3
<1>4. ASSUME NEW h \in Handlers, Clear(h) PROVE HandlersExist'
  BY <1>0, <1>3, <1>4, DropMessagesType DEF Clear
<1>5. ASSUME NEW h, Delete(h), \A e \in msgq : e.m.h = h => ~e.m.dispose PROVE HandlersExist'
  <2>1. /\ \A m \in peek' : m \in peek /\ m.h # h
        /\ \A e \in msgq' : e \in msgq /\ e.m.h # h
        /\ \A e \in dmsgq' : e \in dmsgq /\ e.m.h # h
        /\ \A c \in calls' : c \in calls /\ c.m.h # h
    BY <1>0, <1>5 DEF Delete, DropMessages, Matching, Match, DisposedOnce, Delayed
  <2>2. alive' = alive \ {h}
    BY <1>5 DEF Delete
  <2> QED
    BY <1>0, <2>1, <2>2
<1>6. ASSUME NEW h \in Handlers, DeleteHandler(h) PROVE HandlersExist'
  BY <1>5, <1>6 DEF DeleteHandler
<1>7. CASE DeleteDoomed
  BY <1>0, <1>5, <1>7 DEF DeleteDoomed, DisposedOnce
<1>8. ASSUME NEW peeking, NEW wait, Call(peeking, wait) PROVE HandlersExist'
  BY <1>3, <1>8 DEF Call
<1>9. CASE MoveTriggered
  BY <1>0, <1>9, TopIsFirst DEF MoveTriggered
<1>10. ASSUME NEW g, Pull(g) PROVE HandlersExist'
  BY <1>0, <1>10, FrontIsFirst DEF Pull
<1>11. CASE FirstPull \/ NextPull
  BY <1>10, <1>11 DEF FirstPull, NextPull
<1>12. CASE Quit \/ Restart \/ ReceiveSends \/ CheckStop \/ EndWait \/ Tick \/ UNCHANGED vars
  BY <1>3, <1>12 DEF Quit, Restart, ReceiveSends, CheckStop, EndWait, Tick, queues, vars
<1> QED
  BY <1>1, <1>2, <1>4, <1>6, <1>7, <1>8, <1>9, <1>11, <1>12
     DEF Next, GetStep, CallGet, CallPeek, Post, PostDelayed, Dispose

-----------------------------------------------------------------------------
(* Time *)

\* If the delays leave room, a message that is triggered is due.
LEMMA TriggeredIsDue ==
  ASSUME TypeOK, TimesInv, DelaysHaveRoom, get.pc = "scan", NEW d \in dmsgq
  PROVE  /\ TimeDiff(d.trigger, Time(get.cur)) = d.m.due - get.cur
         /\ ~TimeIsLater(Time(get.cur), d.trigger) => d.m.due <= get.cur
<1>1. d.m.due \in Int /\ get.cur \in Int
  BY DEF TypeOK, Message, GetRecord
<1>2. d.trigger = Time(d.m.due) /\ Near(get.cur, d)
  <2>1. PICK delay \in Delays : d.m.due <= clock + delay
    BY DEF TimesInv, Delayed
  <2>2. clock \in Int /\ get.cur <= clock /\ clock <= get.cur + MaxLate /\ Near(clock, d)
    BY DEF TypeOK, TimesInv, Delayed
  <2>3. 2 * (delay + MaxLate) < ClockModulus /\ delay \in Int /\ MaxLate \in Int
    BY QueueAssumption DEF DelaysHaveRoom
  <2>4. d.m.due - get.cur <= delay + MaxLate /\ get.cur - d.m.due <= clock - d.m.due
    BY <1>1, <2>1, <2>2, <2>3
  <2> QED
    BY <1>1, <2>2, <2>3, <2>4, QueueAssumption DEF Near, TimesInv
<1>3. TimeDiff(d.trigger, Time(get.cur)) = d.m.due - get.cur
  BY <1>1, <1>2, TimeDiffIsDifference DEF Near
<1> QED
  BY <1>1, <1>3 DEF TimeIsLater

LEMMA BeginTimes ==
  ASSUME TypeOK, TimesInv, NEW h, NEW dispose, NEW delayed \in BOOLEAN, NEW delay \in Int,
         delayed => delay \in Delays, ~delayed => delay = 0, Begin(h, dispose, delayed, delay)
  PROVE  TimesInv'
<1> DEFINE c == [m |-> [n |-> posted + 1, h |-> h, dispose |-> dispose, due |-> clock + delay],
                 delayed |-> delayed]
<1>1. c.m.due = clock + delay /\ c.delayed = delayed
  OBVIOUS
<1>2. UNCHANGED <<clock, get, dmsgq>> /\ (calls' = calls \/ calls' = calls \cup {c})
  BY DEF Begin
<1> HIDE DEF c
<1>3. clock \in Int /\ clock >= 0
  BY DEF TypeOK
<1>4. delayed => Near(clock, c) /\ c.m.due >= 0
  <2>1. PICK p \in Periods : p[1] <= clock
    BY DEF TimesInv
  <2>2. p[1] \in Int
    BY QueueAssumption
  <2> QED
    BY <1>1, <1>3, <2>1, <2>2, ClockAssumption, QueueAssumption DEF Near
<1>5. ~delayed => c.m.due <= clock
  BY <1>1, <1>3
<1>6. delayed => \E x \in Delays : c.m.due <= clock + x
  BY <1>1, <1>3
<1> QED
  BY <1>1, <1>2, <1>4, <1>5, <1>6 DEF TimesInv, Delayed, Near

LEMMA EndPostTimes ==
  ASSUME TypeOK, TimesInv, NEW c \in calls, EndPost(c)
  PROVE  TimesInv'
<1> DEFINE d == [trigger |-> Time(c.m.due), num |-> pushed, m |-> c.m]
<1>1. d.m = c.m /\ d.trigger = Time(c.m.due)
  OBVIOUS
<1>2. /\ get.pc # "scan" /\ UNCHANGED <<clock, get>> /\ calls' = calls \ {c}
      /\ dmsgq' = dmsgq \/ (c.delayed /\ dmsgq' = dmsgq \cup {d})
  BY DEF EndPost, Push, Locked
<1> HIDE DEF d
<1> QED
  BY <1>1, <1>2 DEF TimesInv, Delayed, Near

\* Time passes while a thread is not too late.
LEMMA TickTimes ==
  ASSUME TypeOK, TimesInv, Tick
  PROVE  TimesInv'
<1>1. clock' = clock + 1 /\ clock \in Nat /\ UNCHANGED <<get, dmsgq, calls>>
  BY DEF Tick, TypeOK, queues
<1>2. get.cur \in Nat
  BY DEF TypeOK, GetRecord
<1>3. \A d \in Delayed : d.m.due \in Int
  BY DEF TypeOK, Delayed, Message
<1>4. \A d \in Delayed : clock < d.m.due + MaxLate
  BY DEF Tick, Delayed
<1>5. \A d \in Delayed : Near(clock', d)
  BY <1>1, <1>3, <1>4, QueueAssumption, ClockAssumption DEF TimesInv, Near
<1>6. \A d \in Delayed : \E delay \in Delays : d.m.due <= clock' + delay
  <2> SUFFICES ASSUME NEW d \in Delayed PROVE \E delay \in Delays : d.m.due <= clock' + delay
    OBVIOUS
  <2>1. PICK delay \in Delays : d.m.due <= clock + delay
    BY DEF TimesInv
  <2>2. d.m.due <= clock' + delay
    BY <1>1, <1>3, <2>1, QueueAssumption
  <2> QED
    BY <2>2
<1>7. \A c \in calls : c.m.due \in Int
  BY DEF TypeOK, Message
<1>8. \A c \in calls : ~c.delayed => c.m.due <= clock'
  BY <1>1, <1>7 DEF TimesInv
<1>9. \E p \in Periods : p[1] <= clock'
  <2>1. PICK p \in Periods : p[1] <= clock
    BY DEF TimesInv
  <2>2. p[1] <= clock'
    BY <1>1, <2>1, QueueAssumption
  <2> QED
    BY <2>2
<1>10. get.cur <= clock'
  BY <1>1, <1>2 DEF TimesInv
<1>11. get.pc \in {"read", "scan"} => clock' <= get.cur + MaxLate
  BY <1>1, <1>2, QueueAssumption DEF Tick
<1> QED
  BY <1>1, <1>5, <1>6, <1>8, <1>9, <1>10, <1>11 DEF TimesInv, Delayed, Near

\* Steps that do not change the delayed messages, or remove some.
LEMMA OtherTimes ==
  ASSUME TypeOK, TimesInv, clock' = clock, calls' \subseteq calls, dmsgq' \subseteq dmsgq,
         get'.cur <= clock,
         get'.pc \in {"read", "scan"} =>
           get'.cur = clock \/ (get.pc \in {"read", "scan"} /\ get'.cur = get.cur)
  PROVE  TimesInv'
<1>1. clock \in Int /\ clock <= clock + MaxLate
  BY QueueAssumption DEF TypeOK
<1> QED
  BY <1>1 DEF TimesInv, Delayed, Near

LEMMA TimesStep ==
  ASSUME Inv, [Next]_vars
  PROVE  TimesInv'
<1>0. TypeOK /\ TimesInv
  BY DEF Inv
<1>a. clock \in Nat /\ get \in GetRecord /\ get.cur <= clock
  BY <1>0 DEF TypeOK, TimesInv
<1>b. \A pc : Outside(pc).pc = pc /\ Outside(pc).cur <= clock
  BY <1>a DEF Outside
<1>1. ASSUME NEW h \in Handlers, Post(h) \/ Dispose(h) PROVE TimesInv'
  <2>1. FALSE \in BOOLEAN /\ 0 \in Int
    OBVIOUS
  <2>2. \A dispose : Begin(h, dispose, FALSE, 0) => TimesInv'
    BY <1>0, <2>1, BeginTimes
  <2> QED
    BY <1>1, <2>2 DEF Post, Dispose
<1>2. ASSUME NEW h \in Handlers, PostDelayed(h) PROVE TimesInv'
  BY <1>0, <1>2, BeginTimes, QueueAssumption DEF PostDelayed
<1>3. ASSUME NEW c \in calls, EndPost(c) PROVE TimesInv'
  BY <1>0, <1>3, EndPostTimes
<1>4. ASSUME NEW h \in Handlers, Clear(h) \/ DeleteHandler(h) PROVE TimesInv'
  BY <1>0, <1>a, <1>4, DropMessagesType, OtherTimes DEF Clear, DeleteHandler, Delete
<1>5. CASE DeleteDoomed
  BY <1>0, <1>a, <1>5, DropMessagesType, OtherTimes DEF DeleteDoomed, Delete
<1>6. ASSUME NEW peeking, NEW wait, Call(peeking, wait) PROVE TimesInv'
  <2>1. get' = Outside("out") \/ get'.cur = clock
    BY <1>6 DEF Call, Outside
  <2> QED
    BY <1>0, <1>a, <1>b, <1>6, <2>1, OtherTimes DEF Call
<1>7. CASE MoveTriggered
  BY <1>0, <1>a, <1>7, OtherTimes DEF MoveTriggered
<1>8. ASSUME NEW g \in GetRecord, Pull(g), g.cur <= clock PROVE TimesInv'
  <2>1. get'.cur <= clock /\ get'.pc \notin {"read", "scan"}
    BY <1>b, <1>8 DEF Pull, GetRecord
  <2> QED
    BY <1>0, <1>8, <2>1, OtherTimes DEF Pull
<1>9. CASE FirstPull
  BY <1>0, <1>a, <1>8, <1>9, FirstPullGet
<1>10. CASE NextPull
  BY <1>a, <1>8, <1>10 DEF NextPull
<1>11. CASE CheckStop
  <2>1. get'.cur <= clock /\ get'.pc \notin {"read", "scan"}
    BY <1>0, <1>a, <1>b, <1>11, CheckStopGet
  <2> QED
    BY <1>0, <1>11, <2>1, OtherTimes DEF CheckStop, queues
<1>12. CASE EndWait
  <2>1. get' = Outside("out") \/ get'.cur = clock
    BY <1>a, <1>12 DEF EndWait, GetRecord
  <2> QED
    BY <1>0, <1>a, <1>b, <1>12, <2>1, OtherTimes DEF EndWait, queues
<1>13. CASE Tick
  BY <1>0, <1>13, TickTimes
<1>14. CASE Quit \/ Restart \/ UNCHANGED vars
  BY <1>0, <1>a, <1>14, OtherTimes DEF Quit, Restart, vars, queues
<1>15. CASE ReceiveSends
  <2>1. get'.cur = get.cur /\ get.pc = "read"
    BY <1>a, <1>15 DEF ReceiveSends, GetRecord
  <2> QED
    BY <1>0, <1>a, <1>15, <2>1, OtherTimes DEF ReceiveSends, queues
<1> QED
  BY <1>1, <1>2, <1>3, <1>4, <1>5, <1>6, <1>7, <1>9, <1>10, <1>11, <1>12, <1>13, <1>14, <1>15
     DEF Next, GetStep, CallGet, CallPeek

LEMMA NeverEarlyStep ==
  ASSUME Inv, [Next]_vars
  PROVE  NeverEarly'
<1> SUFFICES ASSUME DelaysHaveRoom PROVE NoneEarly'
  BY DEF NeverEarly, DelaysHaveRoom
<1>0. TypeOK /\ TimesInv /\ NoneEarly
  BY DEF Inv, NeverEarly
<1>a. clock \in Nat /\ get.cur \in Nat /\ \A e \in msgq \cup dmsgq \cup calls : e.m.due \in Int
  BY <1>0 DEF TypeOK, Message, GetRecord
<1>1. ASSUME msgq' \subseteq msgq, clock' = clock PROVE NoneEarly'
  BY <1>0, <1>1 DEF NoneEarly
<1>2. ASSUME NEW h \in Handlers, Post(h) \/ PostDelayed(h) \/ Dispose(h) PROVE NoneEarly'
  BY <1>1, <1>2 DEF Post, PostDelayed, Dispose, Begin
<1>3. ASSUME NEW c \in calls, EndPost(c) PROVE NoneEarly'
  BY <1>0, <1>3 DEF EndPost, Push, NoneEarly, TimesInv
<1>4. ASSUME NEW h \in Handlers, Clear(h) \/ DeleteHandler(h) PROVE NoneEarly'
  BY <1>0, <1>1, <1>4, DropMessagesType DEF Clear, DeleteHandler, Delete
<1>5. CASE DeleteDoomed
  BY <1>0, <1>1, <1>5, DropMessagesType DEF DeleteDoomed, Delete
<1>6. ASSUME NEW peeking, NEW wait, Call(peeking, wait) PROVE NoneEarly'
  BY <1>1, <1>6 DEF Call
<1>7. CASE MoveTriggered
  <2>1. Top \in dmsgq /\ get.pc = "scan" /\ ~TimeIsLater(Time(get.cur), Top.trigger)
    BY <1>0, <1>7, TopIsFirst DEF MoveTriggered
  <2>2. Top.m.due <= get.cur
    BY <1>0, <2>1, TriggeredIsDue
  <2>3. Top.m.due <= clock
    BY <1>0, <1>a, <2>1, <2>2 DEF TimesInv
  <2> QED
    BY <1>0, <1>7, <2>3 DEF MoveTriggered, NoneEarly
<1>8. CASE FirstPull \/ NextPull
  BY <1>1, <1>8 DEF FirstPull, NextPull, Pull
<1>9. CASE Tick
  BY <1>0, <1>a, <1>9 DEF Tick, NoneEarly, queues
<1>10. CASE Quit \/ Restart \/ ReceiveSends \/ CheckStop \/ EndWait \/ UNCHANGED vars
  BY <1>1, <1>10 DEF Quit, Restart, ReceiveSends, CheckStop, EndWait, vars, queues
<1> QED
  BY <1>2, <1>3, <1>4, <1>5, <1>6, <1>7, <1>8, <1>9, <1>10 DEF Next, GetStep, CallGet, CallPeek

-----------------------------------------------------------------------------
(* Sleeping *)

\* Before the clock wraps, the first of the delayed messages is the one due first.
LEMMA TopIsDueFirst ==
  ASSUME TypeOK, TimesInv, BeforeWrap, NEW d \in dmsgq
  PROVE  Top \in dmsgq /\ Top.m.due <= d.m.due /\ Top.m.due < ClockModulus
<1>1. Top \in dmsgq /\ Before(Top, d)
  BY TopIsFirst
<1>2. ASSUME NEW e \in dmsgq PROVE Round(e.m.due) = 0 /\ e.m.due \in Int /\ e.trigger = Time(e.m.due)
  <2>1. e.m.due \in Int /\ e.m.due >= 0 /\ e.trigger = Time(e.m.due)
    BY DEF TypeOK, Message, TimesInv, Delayed
  <2>2. PICK delay \in Delays : e.m.due <= clock + delay
    BY DEF TimesInv, Delayed
  <2>3. clock + delay \in Int /\ clock + delay < ClockModulus
    BY RoundZero, QueueAssumption DEF BeforeWrap, TypeOK
  <2>4. e.m.due < ClockModulus
    BY <2>1, <2>2, <2>3, QueueAssumption
  <2> QED
    BY <2>1, <2>4, RoundZero
<1>3. Time(Top.m.due) - Time(d.m.due) = Top.m.due - d.m.due
  BY <1>1, <1>2, SameRound
<1>4. Top.trigger <= d.trigger
  BY <1>1, QueueAssumption DEF Before, TypeOK
<1>5. /\ Top.m.due \in Int /\ Top.trigger = Time(Top.m.due) /\ Time(Top.m.due) \in Int
      /\ d.m.due \in Int /\ d.trigger = Time(d.m.due) /\ Time(d.m.due) \in Int
  BY <1>1, <1>2, TimeType
<1>6. Top.m.due < ClockModulus
  BY <1>1, <1>2, RoundZero
<1> QED
  BY <1>1, <1>3, <1>4, <1>5, <1>6

LEMMA BeforeWrapEarlier ==
  ASSUME TypeOK, TimesInv, Tick, BeforeWrap'
  PROVE  BeforeWrap
<1> SUFFICES ASSUME NEW delay \in Delays PROVE Round(clock + delay) = 0
  BY DEF BeforeWrap
<1>1. clock' = clock + 1 /\ clock \in Nat /\ delay \in Int
  BY QueueAssumption DEF Tick, TypeOK
<1>2. clock' + delay < ClockModulus
  BY <1>1, RoundZero DEF BeforeWrap
<1>3. PICK p \in Periods : p[1] <= clock
  BY DEF TimesInv
<1>4. clock + delay >= 0
  BY <1>1, <1>3, QueueAssumption, ClockAssumption
<1>5. clock + delay \in Int /\ clock + delay < ClockModulus
  BY <1>1, <1>2, QueueAssumption
<1> QED
  BY <1>4, <1>5, RoundZero

LEMMA SleepStep ==
  ASSUME Inv, [Next]_vars
  PROVE  SleepInv'
<1>0. TypeOK /\ TimesInv /\ SleepInv
  BY DEF Inv
<1>a. get \in GetRecord /\ get.next \in Int /\ get.cur \in Nat
  BY <1>0 DEF TypeOK, GetRecord
<1>b. \A pc : Outside(pc).pc = pc
  BY DEF Outside
<1>1. ASSUME UNCHANGED <<clock, get, woken>>, msgq' \subseteq msgq, dmsgq' \subseteq dmsgq,
             fStop' => fStop
      PROVE  SleepInv'
  BY <1>0, <1>1 DEF SleepInv, BeforeWrap
<1>2. ASSUME get'.pc \in {"out", "stopped", "read", "scan"} \/ woken' PROVE SleepInv'
  BY <1>2 DEF SleepInv
<1>3. ASSUME NEW h \in Handlers, Post(h) \/ PostDelayed(h) \/ Dispose(h) PROVE SleepInv'
  BY <1>1, <1>3 DEF Post, PostDelayed, Dispose, Begin
<1>4. ASSUME NEW c \in calls, EndPost(c) PROVE SleepInv'
  BY <1>2, <1>4 DEF EndPost, Push
<1>5. ASSUME NEW h \in Handlers, Clear(h) \/ DeleteHandler(h) PROVE SleepInv'
  BY <1>0, <1>1, <1>5, DropMessagesType DEF Clear, DeleteHandler, Delete
<1>6. CASE DeleteDoomed
  BY <1>0, <1>1, <1>6, DropMessagesType DEF DeleteDoomed, Delete
<1>7. ASSUME NEW peeking, NEW wait, Call(peeking, wait) PROVE SleepInv'
  <2>1. CASE peek # {}
    BY <1>2, <1>7, <1>b, <2>1 DEF Call
  <2>2. CASE peek = {}
    <3>1. get' = [Outside("read") EXCEPT !.peeking = peeking, !.wait = wait, !.start = clock,
                                          !.cur = clock]
      BY <1>7, <2>2 DEF Call
    <3>2. get'.pc = "read"
      BY <3>1 DEF Outside
    <3> QED
      BY <1>2, <3>2
  <2> QED
    BY <2>1, <2>2
<1>8. CASE MoveTriggered
  BY <1>2, <1>8 DEF MoveTriggered
<1>9. ASSUME NEW g \in GetRecord, Pull(g), g.cur = get.cur,
             ~woken /\ BeforeWrap => \A d \in dmsgq : g.next >= 0 /\ g.next <= d.m.due - g.cur
      PROVE  SleepInv'
  <2>1. UNCHANGED <<clock, dmsgq, woken, fStop>>
    BY <1>9 DEF Pull
  <2>2. \/ get' = Outside("out")
        \/ get'.pc = "pop" /\ get'.next = g.next /\ get'.cur = g.cur
        \/ get'.pc = "empty" /\ get'.next = g.next /\ get'.cur = g.cur /\ msgq' = {}
    BY <1>9 DEF Pull, GetRecord
  <2> QED
    BY <1>2, <1>9, <1>b, <2>1, <2>2 DEF SleepInv, BeforeWrap
<1>10. CASE FirstPull
  <2>1. PICK g \in GetRecord : /\ Pull(g) /\ g.cur = get.cur
                               /\ dmsgq # {} => g.next = TimeDiff(Top.trigger, Time(get.cur))
    BY <1>0, <1>10, FirstPullGet
  <2>2. ASSUME BeforeWrap, NEW d \in dmsgq PROVE g.next >= 0 /\ g.next <= d.m.due - g.cur
    <3>1. Top \in dmsgq /\ Top.m.due <= d.m.due /\ Top.m.due < ClockModulus
      BY <1>0, <2>2, TopIsDueFirst
    <3>2. get.pc = "scan" /\ TimeIsLater(Time(get.cur), Top.trigger)
      BY <1>10, <2>2 DEF FirstPull
    <3>4. g.next > 0
      BY <2>1, <3>1, <3>2 DEF TimeIsLater
    <3>5. Top.m.due \in Int /\ d.m.due \in Int
      BY <1>0, <3>1 DEF TypeOK, Message
    <3>6. /\ Top.trigger = Time(Top.m.due) /\ clock \in Int /\ get.cur <= clock
          /\ 2 * (clock - Top.m.due) < ClockModulus
      BY <1>0, <3>1 DEF TimesInv, Delayed, Near, TypeOK
    <3>7. Top.m.due - get.cur < ClockModulus /\ 2 * (get.cur - Top.m.due) < ClockModulus
      BY <1>a, <3>1, <3>5, <3>6, QueueAssumption
    <3>3. g.next = Top.m.due - get.cur
      BY <1>a, <2>1, <3>1, <3>4, <3>5, <3>6, <3>7, LaterIsDifference
    <3> QED
      BY <1>a, <2>1, <3>1, <3>3, <3>4, <3>5
  <2> QED
    BY <1>9, <2>1, <2>2
<1>11. CASE NextPull
  <2>1. ~woken /\ BeforeWrap => \A d \in dmsgq : get.next >= 0 /\ get.next <= d.m.due - get.cur
    BY <1>0, <1>11 DEF NextPull, SleepInv
  <2> QED
    BY <1>9, <1>11, <1>a, <2>1 DEF NextPull
<1>12. CASE CheckStop
  <2>1. UNCHANGED <<clock, msgq, dmsgq, woken, fStop>> /\ get.pc = "empty"
    BY <1>12 DEF CheckStop, queues
  <2>2. CASE get' = Outside("stopped")
    BY <1>2, <1>b, <2>2
  <2>3. CASE /\ ~fStop /\ get'.pc = "wait" /\ get'.cur = get.cur /\ get' \in GetRecord
             /\ get.next >= 0 => get'.next >= 0 /\ get'.next <= get.next
    <3>1. get'.next \in Int
      BY <2>3 DEF GetRecord
    <3>2. \A d \in dmsgq : d.m.due \in Int
      BY <1>0 DEF TypeOK, Message
    <3>3. ~woken => msgq' = {} /\ ~fStop'
      BY <1>0, <2>1, <2>3 DEF SleepInv
    <3>4. ~woken /\ BeforeWrap' => \A d \in dmsgq' : get'.next >= 0 /\ get'.next <= d.m.due - get'.cur
      BY <1>0, <1>a, <2>1, <2>3, <3>1, <3>2 DEF SleepInv, BeforeWrap
    <3> QED
      BY <2>1, <3>3, <3>4 DEF SleepInv
  <2> QED
    BY <1>0, <1>12, <2>2, <2>3, CheckStopGet
<1>13. CASE EndWait
  <2>1. get'.pc \in {"out", "read"}
    BY <1>13, <1>a DEF EndWait, Outside, GetRecord
  <2> QED
    BY <1>2, <2>1
<1>14. CASE Tick
  BY <1>0, <1>14, BeforeWrapEarlier DEF Tick, SleepInv, queues
<1>15. CASE Quit
  BY <1>2, <1>15 DEF Quit
<1>16. CASE Restart \/ UNCHANGED vars
  BY <1>1, <1>16 DEF Restart, vars, queues
<1>17. CASE ReceiveSends
  <2>1. get'.pc = "scan"
    BY <1>17, <1>a DEF ReceiveSends, GetRecord
  <2> QED
    BY <1>2, <2>1
<1> QED
  BY <1>3, <1>4, <1>5, <1>6, <1>7, <1>8, <1>10, <1>11, <1>12, <1>13, <1>14, <1>15, <1>16, <1>17
     DEF Next, GetStep, CallGet, CallPeek

-----------------------------------------------------------------------------
(* Theorems *)

\* The inductive invariant: no step of a poster, of the thread of the queue or of the
\* clock leaves it.
THEOREM Invariance == Spec => []Inv
<1>1. Init => Inv
  <2> SUFFICES ASSUME Init PROVE Inv
    OBVIOUS
  <2>1. ExactlyOnce
    <3>1. InOnePlace
      BY DEF Init, InOnePlace, Distinct, NumbersOf, Peeked
    <3> QED
      BY <3>1, ExactlyOnceParts
  <2>2. PeekInv /\ DisposedOnce /\ HandlersExist /\ NeverEarly
    BY DEF Init, PeekInv, DisposedOnce, Delayed, HandlersExist, NoMessageOfDeleted, NeverEarly,
           NoneEarly, Outside
  <2>3. TimesInv
    <3>1. \E p \in Periods : p[1] = clock
      BY DEF Init
    <3> QED
      BY <3>1, TypeInit, QueueAssumption DEF Init, TimesInv, Delayed, Outside, TypeOK
  <2>4. SleepInv
    BY DEF Init, SleepInv, Outside
  <2> QED
    BY <2>1, <2>2, <2>3, <2>4, TypeInit DEF Inv
<1>2. Inv /\ [Next]_vars => Inv'
  BY TypeStep, ExactlyOnceStep, PeekStep, DisposedStep, HandlersStep, TimesStep, NeverEarlyStep,
     SleepStep DEF Inv
<1> QED
  BY <1>1, <1>2, PTL DEF Spec

\* Post, Get, Peek, Clear and the deletion of handlers lose no message and handle none
\* twice, however they interleave.
THEOREM NothingLostOrTwice == Spec => []ExactlyOnce
<1>1. Inv => ExactlyOnce
  BY DEF Inv
<1> QED
  BY <1>1, Invariance, PTL

\* No message is left for a handler that was deleted: what ~MessageHandler relies on.
THEOREM DeletedHandlersHaveNoMessage == Spec => []NoMessageOfDeleted
<1>1. Inv => NoMessageOfDeleted
  BY DEF Inv, HandlersExist
<1> QED
  BY <1>1, Invariance, PTL

\* The signed comparison of clock values never makes a delayed message ready early,
\* whatever the width of the clock, wherever it wraps and however late Get takes crit_
\* after it has read the time, if every delay leaves that much room below half the
\* range of the clock.  The checked run at the limit shows that it needs the room.
THEOREM DelayedNeverEarly == Spec => []NeverEarly
<1>1. Inv => NeverEarly
  BY DEF Inv
<1> QED
  BY <1>1, Invariance, PTL

\* Get never sleeps on a message or past a stop.
THEOREM GetNeverOversleeps == Spec => []NeverOversleeps
<1>1. Inv => NeverOversleeps
  BY DEF Inv, SleepInv, NeverOversleeps, kForever
<1> QED
  BY <1>1, Invariance, PTL

\* While the clock does not wrap between two delayed messages, they become ready in the
\* order of their times, and in the order of the posts if these are the same.
THEOREM TriggeredInOrder == Spec => TriggerOrderInRound
<1> DEFINE InOrder == OneRound(dmsgq) =>
             \A d \in dmsgq \ dmsgq' : d.m.n \in NumbersOf(msgq') => DueFirst(d)
<1>1. ASSUME Inv, [Next]_vars PROVE InOrder
  <2> SUFFICES ASSUME OneRound(dmsgq), NEW d \in dmsgq \ dmsgq', d.m.n \in NumbersOf(msgq')
               PROVE  DueFirst(d)
    OBVIOUS
  <2>0. TypeOK /\ TimesInv /\ NumbersOf(msgq) \cap NumbersOf(dmsgq) = {}
    BY <1>1, ExactlyOnceParts DEF Inv, InOnePlace
  <2>1. d.m.n \in NumbersOf(dmsgq) /\ d.m.n \notin NumbersOf(msgq)
    BY <2>0 DEF NumbersOf
  <2>2. ~(msgq' \subseteq msgq)
    BY <2>1 DEF NumbersOf
  <2>3. ASSUME MoveTriggered PROVE DueFirst(d)
    <3>1. d = Top /\ \A e \in dmsgq : Before(d, e)
      BY <2>0, <2>3, TopIsFirst DEF MoveTriggered
    <3>2. ASSUME NEW e \in dmsgq PROVE d.m.due < e.m.due \/ (d.m.due = e.m.due /\ d.num <= e.num)
      <4>1. /\ d.m.due \in Int /\ e.m.due \in Int /\ Time(d.m.due) \in Int /\ Time(e.m.due) \in Int
            /\ d.trigger = Time(d.m.due) /\ e.trigger = Time(e.m.due)
        BY <2>0, TimeType DEF TypeOK, Message, TimesInv
      <4>2. Time(d.m.due) - Time(e.m.due) = d.m.due - e.m.due
        BY <4>1, SameRound DEF OneRound
      <4> QED
        BY <3>1, <4>1, <4>2 DEF Before
    <3> QED
      BY <3>2 DEF DueFirst
  <2>4. ASSUME NEW h \in Handlers, Clear(h) \/ DeleteHandler(h) PROVE FALSE
    BY <2>0, <2>2, <2>4, DropMessagesType DEF Clear, DeleteHandler, Delete
  <2>5. CASE DeleteDoomed
    BY <2>0, <2>2, <2>5, DropMessagesType DEF DeleteDoomed, Delete
  <2>6. ASSUME NEW c \in calls, EndPost(c) PROVE FALSE
    BY <2>6 DEF EndPost, Push
  <2>7. ASSUME NEW h \in Handlers, Post(h) \/ PostDelayed(h) \/ Dispose(h) PROVE FALSE
    BY <2>7 DEF Post, PostDelayed, Dispose, Begin
  <2>8. ASSUME NEW peeking, NEW wait, Call(peeking, wait) PROVE FALSE
    BY <2>8 DEF Call
  <2>9. CASE \/ ReceiveSends \/ FirstPull \/ NextPull \/ Quit \/ Restart \/ CheckStop \/ EndWait
            \/ Tick \/ UNCHANGED vars
    BY <2>9 DEF ReceiveSends, FirstPull, NextPull, Pull, Quit, Restart, CheckStop, EndWait, Tick, vars, queues
  <2> QED
    BY <1>1, <2>3, <2>4, <2>5, <2>6, <2>7, <2>8, <2>9 DEF Next, GetStep, CallGet, CallPeek
<1>2. Inv /\ [Next]_vars => [InOrder]_vars
  BY <1>1
<1>3. Spec => [][InOrder]_vars
  BY <1>2, Invariance, PTL DEF Spec
<1> QED
  BY <1>3 DEF TriggerOrderInRound
=============================================================================
