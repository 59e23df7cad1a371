--------------------------- MODULE PseudoTcpProofs ---------------------------
(***************************************************************************)
(* Proofs about PseudoTcp, for all lengths of data, buffers, windows and   *)
(* segments, any number of packets under way, lost and duplicated, and any *)
(* options, when connect messages come first.                              *)
(*                                                                         *)
(* A method is followed on the record of one connection; what it may rely  *)
(* on about the rest is collected in a view.                               *)
(***************************************************************************)
EXTENDS PseudoTcp, FiniteSetTheorems, SequenceTheorems, WellFoundedInduction, TLAPS

-----------------------------------------------------------------------------
(* The sending side of a connection *)

\* The byte at a position of the stream: the connect message, then the data.
Byte(x) == IF x < ConnectLen THEN 0 ELSE x - ConnectLen + 1

End(c) == c.snd_una + Len(c.sbuf.data)
Start(c, i) == IF i = Len(c.slist) + 1 THEN End(c) ELSE c.slist[i].seq

\* The segments follow each other from snd_una to the end of the buffer ...
Tiled(c) ==
  /\ Start(c, 1) = c.snd_una
  /\ \A i \in 1 .. Len(c.slist) : Start(c, i + 1) = c.slist[i].seq + c.slist[i].len

\* ... those before snd_nxt were sent, the others were not, ...
SentFirst(c) ==
  /\ c.snd_una <= c.snd_nxt /\ c.snd_nxt <= End(c) /\ c.recover <= c.snd_nxt
  /\ c.rto <=> c.snd_nxt > c.snd_una
  /\ \A i \in 1 .. Len(c.slist) :
       IF c.slist[i].xmit > 0 THEN c.slist[i].seq + c.slist[i].len <= c.snd_nxt
       ELSE c.slist[i].seq >= c.snd_nxt

\* ... and the connect message is one segment, which the first windows allow to send.
ConnectWhole(c) ==
  /\ \A i \in 1 .. Len(c.slist) :
       IF c.slist[i].bCtrl THEN c.slist[i].seq = 0 /\ c.slist[i].len = ConnectLen
       ELSE c.slist[i].seq >= ConnectLen
  /\ c.snd_nxt = 0 => c.cwnd >= ConnectLen /\ c.snd_wnd > 0
  /\ c.snd_nxt = 0 /\ c.slist # << >> => c.snd_wnd >= ConnectLen

RightSent(c) ==
  /\ Len(c.sbuf.data) <= SndBufLen
  /\ \A i \in 1 .. Len(c.sbuf.data) : c.sbuf.data[i] = Byte(c.snd_una + i - 1)

Sender(c) == Tiled(c) /\ SentFirst(c) /\ ConnectWhole(c) /\ RightSent(c)

\* The stream up to its end was written by the application.
Queued(c, w) ==
  IF c.state \in {"LISTEN", "DESTROYED"} THEN End(c) = 0 ELSE End(c) = ConnectLen + w

\* A position up to which the other side may have received the stream: acknowledged,
\* or between two segments that were sent.
Cut(c, x) ==
  /\ x <= c.snd_nxt
  /\ \/ x <= c.snd_una \/ x = c.snd_nxt
     \/ \E i \in 1 .. Len(c.slist) : c.slist[i].xmit > 0 /\ c.slist[i].seq = x

-----------------------------------------------------------------------------
(* The receiving side *)

\* The last byte the other side may send.
Edge(c) == c.rcv_nxt + c.rcv_wnd

\* How many bytes of data came in order.
Taken(c) == IF c.rcv_nxt = 0 THEN 0 ELSE c.rcv_nxt - ConnectLen

\* What was read and what can be read is the stream, ...
RightReceived(c, rd) ==
  /\ \A i \in 1 .. Len(rd) : rd[i] = i
  /\ \A i \in 1 .. Len(c.rbuf.data) : c.rbuf.data[i] = Len(rd) + i
  /\ c.state # "DESTROYED" => Len(rd) + Len(c.rbuf.data) <= Taken(c)
  /\ c.state # "DESTROYED" /\ c.shutdown = "NONE" => Len(rd) + Len(c.rbuf.data) = Taken(c)

\* ... and so is what came out of order and was written ahead.
RightAhead(c) ==
  c.shutdown = "NONE" =>
    \A i \in 1 .. Len(c.rlist) : \A x \in c.rlist[i].seq .. c.rlist[i].seq + c.rlist[i].len - 1 :
      x >= c.rcv_nxt => c.rbuf.ahead[x - c.rcv_nxt] = Byte(x)

\* The window is free space.  The connect message comes first and takes none.
Window(c) ==
  /\ Len(c.rbuf.data) + c.rcv_wnd <= RcvBufLen
  /\ IF c.rcv_nxt = 0 THEN c.rbuf.data = << >> /\ c.rcv_wnd = RcvBufLen /\ c.rlist = << >>
     ELSE c.rcv_nxt >= ConnectLen
  /\ \A i \in 1 .. Len(c.rlist) : /\ c.rlist[i].seq >= ConnectLen
                                  /\ c.rlist[i].seq + c.rlist[i].len <= Edge(c)

\* Nothing came that was not written.
Bounded(c, rd, W) ==
  /\ Len(rd) <= W
  /\ c.rcv_nxt <= ConnectLen + W
  /\ \A i \in 1 .. Len(c.rlist) : c.rlist[i].seq + c.rlist[i].len <= ConnectLen + W

Receiver(c, rd, W) == RightReceived(c, rd) /\ RightAhead(c) /\ Window(c) /\ Bounded(c, rd, W)

\* The connect message of the other side is what takes a connection out of its first states.
Phase(c) ==
  /\ c.state \in {"LISTEN", "SYN_SENT"} => c.rcv_nxt = 0
  /\ c.state \in {"SYN_RECEIVED", "ESTABLISHED"} => c.rcv_nxt # 0

-----------------------------------------------------------------------------
(* Packets *)

After(k) == k.seq + Len(k.data)

\* A packet carries a part of the stream, the connect message as a whole.
RightPacket(k) ==
  /\ IF k.ctl THEN k.seq = 0 /\ Len(k.data) = ConnectLen
     ELSE k.data # << >> => k.seq >= ConnectLen
  /\ \A i \in 1 .. Len(k.data) : k.data[i] = Byte(k.seq + i - 1)
  /\ k.ack = 0 => k.wnd >= ConnectLen

Written(k, w) == k.data # << >> => After(k) <= ConnectLen + w

\* What a packet says about the connection c that sent it ...
FromSender(c, k) ==
  /\ k.ack <= c.rcv_nxt /\ k.ack + k.wnd <= Edge(c)
  /\ k.data # << >> => Cut(c, k.seq) /\ Cut(c, After(k))

\* ... and about the one that gets it.
ForReceiver(c, k) == Cut(c, k.ack) /\ (k.data # << >> => After(k) <= Edge(c))

-----------------------------------------------------------------------------
(* What sending does: the rest of the connection stays, snd_nxt grows up to the   *)
(* window, and packets of the stream go out, the connect message before any other. *)

SameRest(c, e) ==
  /\ e.state = c.state /\ e.shutdown = c.shutdown
  /\ e.sbuf = c.sbuf /\ e.snd_una = c.snd_una /\ e.snd_wnd = c.snd_wnd
  /\ e.rbuf = c.rbuf /\ e.rlist = c.rlist /\ e.rcv_nxt = c.rcv_nxt /\ e.rcv_wnd = c.rcv_wnd
  /\ e.bReadEnable = c.bReadEnable /\ e.bWriteEnable = c.bWriteEnable

SameSender(c, e) ==
  /\ e.sbuf = c.sbuf /\ e.snd_una = c.snd_una /\ e.snd_nxt = c.snd_nxt
  /\ e.snd_wnd = c.snd_wnd /\ e.recover = c.recover /\ e.rto = c.rto /\ e.cwnd = c.cwnd

\* The segment at index i was sent, for the first time or again.
Marks(c, e, i) ==
  /\ e.sbuf = c.sbuf /\ e.snd_una = c.snd_una /\ e.snd_wnd = c.snd_wnd
  /\ e.recover = c.recover /\ e.cwnd = c.cwnd /\ e.rto
  /\ e.snd_nxt = IF c.slist[i].xmit = 0 THEN c.snd_nxt + c.slist[i].len ELSE c.snd_nxt
  /\ Len(e.slist) = Len(c.slist) /\ e.slist[i].xmit > 0
  /\ \A j \in 1 .. Len(c.slist) : /\ e.slist[j].seq = c.slist[j].seq /\ e.slist[j].len = c.slist[j].len
                                  /\ e.slist[j].bCtrl = c.slist[j].bCtrl
                                  /\ j # i => e.slist[j].xmit = c.slist[j].xmit

KeepsCuts(c, e) == \A x \in Nat : Cut(c, x) => Cut(e, x)

SentBy(c, k) ==
  /\ k.ack = c.rcv_nxt /\ k.wnd = c.rcv_wnd /\ RightPacket(k)
  /\ k.data # << >> => Cut(c, k.seq) /\ Cut(c, After(k))

Ready(c) ==
  c \in Tcbs /\ Sender(c) /\ (c.rcv_nxt = 0 => c.rcv_wnd >= ConnectLen)

Sends(c, e) ==
  /\ Ready(e) /\ SameRest(c, e) /\ KeepsCuts(c, e)
  /\ c.snd_nxt <= e.snd_nxt /\ (e.snd_nxt = c.snd_nxt \/ e.snd_nxt <= c.snd_una + c.snd_wnd)
  /\ c.out \subseteq e.out /\ \A k \in e.out \ c.out : SentBy(e, k)
  /\ c.snd_nxt = 0 /\ e.snd_nxt > 0 => \E k \in e.out : k.ctl

\* Only what paces the sender changes.
Paces(c, e) ==
  /\ e \in Tcbs /\ SameRest(c, e) /\ e.slist = c.slist /\ e.snd_nxt = c.snd_nxt /\ e.rto = c.rto
  /\ e.out = c.out

Tunes(c, e) ==
  /\ Paces(c, e) /\ e.recover <= c.snd_nxt /\ (c.snd_nxt = 0 => e.cwnd >= ConnectLen)

\* The part of a connection that queueing leaves alone.
SameButQueue(c, e) ==
  /\ e.state = c.state /\ e.shutdown = c.shutdown /\ e.out = c.out /\ e.room = c.room
  /\ e.snd_una = c.snd_una /\ e.snd_wnd = c.snd_wnd /\ e.snd_nxt = c.snd_nxt
  /\ e.rbuf = c.rbuf /\ e.rlist = c.rlist /\ e.rcv_nxt = c.rcv_nxt /\ e.rcv_wnd = c.rcv_wnd
  /\ e.recover = c.recover /\ e.cwnd = c.cwnd /\ e.rto = c.rto
  /\ e.bReadEnable = c.bReadEnable /\ e.bWriteEnable = c.bWriteEnable

-----------------------------------------------------------------------------
(* What a connection may rely on.  A view holds w, the number of bytes its        *)
(* application wrote, rd, the bytes it read, W, the number the other one wrote,   *)
(* and about the other connection, as long as there is one: cuts, the positions   *)
(* up to which it may have been received, acked, those it may have acknowledged,  *)
(* and edge, those up to which it allows to send.                                 *)

View(v) ==
  /\ v.w \in Nat /\ v.rd \in Seq(Int) /\ v.W \in Nat
  /\ v.cuts \subseteq Nat /\ v.acked \subseteq Nat /\ v.edge \subseteq Nat
  /\ ConnectLen \in v.edge /\ \A x \in v.edge : \A y \in Nat : y <= x => y \in v.edge

RightOut(c, v) == \A k \in c.out : RightPacket(k) /\ FromSender(c, k) /\ k.ack \in v.cuts

Joined(c, v) ==
  /\ c.rcv_nxt \in v.cuts
  /\ \A i \in 1 .. Len(c.rlist) : c.rlist[i].seq + c.rlist[i].len \in v.cuts
  /\ c.snd_una \in v.acked /\ c.snd_una + c.snd_wnd \in v.edge /\ c.snd_nxt \in v.edge

Sound(c, v) ==
  /\ c \in Tcbs /\ Sender(c) /\ Queued(c, v.w) /\ Receiver(c, v.rd, v.W)
  /\ Joined(c, v) /\ RightOut(c, v)

\* What the other side, and the packets under way, know of a connection stays true.
Grows(c, e) ==
  /\ KeepsCuts(c, e) /\ c.rcv_nxt <= e.rcv_nxt /\ Edge(c) <= Edge(e)
  /\ c.snd_nxt <= e.snd_nxt /\ c.out \subseteq e.out
  /\ c.snd_nxt = 0 /\ e.snd_nxt > 0 => \E k \in e.out : k.ctl
  /\ e.shutdown = c.shutdown /\ (c.state # "DESTROYED" => e.state # "DESTROYED")

SameReceiver(c, e) ==
  /\ e.rbuf = c.rbuf /\ e.rlist = c.rlist /\ e.rcv_nxt = c.rcv_nxt /\ e.rcv_wnd = c.rcv_wnd
  /\ e.shutdown = c.shutdown

\* Only pacing, callbacks, or the state of a connection that sent its connect message change.
SameCore(c, e) ==
  /\ SameSender(c, e) /\ e.slist = c.slist /\ SameReceiver(c, e) /\ e.out = c.out
  /\ e.state = c.state \/ {c.state, e.state} \cap {"LISTEN", "DESTROYED"} = {}

\* A connection went from c to e, in line with what it may rely on.
Does(c, e, v) == Sound(e, v) /\ Grows(c, e)

\* The segments before the one at index i are acknowledged and dropped.
Drops(c, e, i) ==
  /\ e.slist = SubSeq(c.slist, i, Len(c.slist)) /\ e.snd_una = Start(c, i)
  /\ e.snd_nxt = c.snd_nxt /\ e.recover = c.recover /\ e.cwnd = c.cwnd
  /\ e.rto <=> Start(c, i) # c.snd_nxt
  /\ Len(e.sbuf.data) = Len(c.sbuf.data) - (Start(c, i) - c.snd_una)
  /\ \A j \in 1 .. Len(e.sbuf.data) : e.sbuf.data[j] = c.sbuf.data[Start(c, i) - c.snd_una + j]

\* A packet that arrives at c, as far as the view v goes.
Arrives(c, k, v) ==
  /\ k \in Packets /\ RightPacket(k) /\ Cut(c, k.ack) /\ k.ack \in v.acked /\ k.ack + k.wnd \in v.edge
  /\ k.data # << >> => After(k) <= Edge(c) /\ After(k) <= ConnectLen + v.W /\ After(k) \in v.cuts

\* The result r of a part of process that may close the connection.
Answers(c, r, v) ==
  /\ r.ok \in BOOLEAN /\ Does(c, r.c, v) /\ r.c.rcv_nxt = c.rcv_nxt
  /\ r.c.state = IF r.ok THEN c.state ELSE "CLOSED"

\* Data that is new to c: what Trimmed leaves of a packet.
Fresh(c, s, v) ==
  /\ s \in Packets /\ s.seq \in Nat /\ s.seq >= c.rcv_nxt /\ Len(s.data) > 0
  /\ \A i \in 1 .. Len(s.data) : s.data[i] = Byte(s.seq + i - 1)
  /\ After(s) <= Edge(c) /\ After(s) <= ConnectLen + v.W /\ After(s) \in v.cuts
  /\ IF s.ctl THEN c.rcv_nxt = 0 /\ s.seq = 0 /\ Len(s.data) = ConnectLen
     ELSE c.rcv_nxt # 0 /\ s.seq >= ConnectLen

\* Only the receiving side changes.
Receives(c, e) ==
  /\ e \in Tcbs /\ SameSender(c, e) /\ e.slist = c.slist /\ e.out = c.out
  /\ e.state = c.state /\ e.shutdown = c.shutdown

\* The first n bytes ahead in b become readable, where b is the buffer of c with
\* some of them written.
Advances(c, b, e, n) ==
  /\ b \in Fifos(RcvBufLen) /\ b.data = c.rbuf.data
  /\ \A x \in c.rcv_nxt .. c.rcv_nxt + n - 1 : b.ahead[x - c.rcv_nxt] = Byte(x)
  /\ \A j \in n .. RcvBufLen - 1 : b.ahead[j] = c.rbuf.ahead[j]
  /\ e.rbuf = ConsumeWriteBuffer(b, n) /\ e.rcv_nxt = c.rcv_nxt + n /\ e.rcv_wnd = c.rcv_wnd - n
  /\ \A i \in 1 .. Len(e.rlist) : \E j \in 1 .. Len(c.rlist) : e.rlist[i] = c.rlist[j]

-----------------------------------------------------------------------------
(* Numbers *)

LEMMA MinimumExists ==
  ASSUME NEW T \in SUBSET Nat, T # {}
  PROVE  \E x \in T : \A y \in T : x <= y
<1> DEFINE L == OpToRel(<, Nat)
<1>1. \A x, y \in Nat : <<y, x>> \notin L => x <= y
  BY DEF OpToRel
<1>2. IsWellFoundedOn(L, Nat)
  BY NatLessThanWellFounded
<1> HIDE DEF L
<1>3. \E x \in T : \A y \in T : ~(<<y, x>> \in L)
  BY <1>2, WFMin
<1> QED
  BY <1>1, <1>3

LEMMA MinOfSet ==
  ASSUME NEW T \in SUBSET Nat, T # {}
  PROVE  Min(T) \in T /\ \A y \in T : Min(T) <= y
<1>1. \E x \in T : \A y \in T : x <= y
  BY MinimumExists
<1> QED
  BY <1>1 DEF Min

LEMMA MaxOfSet ==
  ASSUME NEW m \in Nat, NEW T \in SUBSET (0 .. m), T # {}
  PROVE  Max(T) \in T /\ \A y \in T : y <= Max(T)
<1> DEFINE F == {m - x : x \in T}
<1>1. F \in SUBSET Nat /\ F # {}
  <2>1. \A x \in T : m - x \in Nat
    OBVIOUS
  <2>2. PICK x : x \in T
    OBVIOUS
  <2>3. m - x \in F
    BY <2>2
  <2> QED
    BY <2>1, <2>3
<1>2. \E f \in F : \A g \in F : f <= g
  <2> HIDE DEF F
  <2> QED
    BY <1>1, MinimumExists
<1>3. \E x \in T : \A y \in T : y <= x
  <2>1. PICK x \in T : \A g \in F : m - x <= g
    BY <1>2
  <2>2. \A y \in T : m - x <= m - y
    BY <2>1
  <2>3. \A y \in T : y <= x
    BY <2>2
  <2> QED
    BY <2>3
<1>4. \E x \in T : \A y \in T : x >= y
  BY <1>3
<1>5. Max(T) \in T /\ \A y \in T : Max(T) >= y
  BY <1>4 DEF Max
<1> QED
  BY <1>5

LEMMA MinTwo ==
  ASSUME NEW a \in Int, NEW b \in Int
  PROVE  Min({a, b}) = IF a <= b THEN a ELSE b
<1>1. \E x \in {a, b} : \A y \in {a, b} : x <= y
  OBVIOUS
<1>2. Min({a, b}) \in {a, b} /\ \A y \in {a, b} : Min({a, b}) <= y
  BY <1>1 DEF Min
<1> QED
  BY <1>2

LEMMA MaxTwo ==
  ASSUME NEW a \in Int, NEW b \in Int
  PROVE  Max({a, b}) = IF a >= b THEN a ELSE b
<1>1. \E x \in {a, b} : \A y \in {a, b} : x >= y
  OBVIOUS
<1>2. Max({a, b}) \in {a, b} /\ \A y \in {a, b} : Max({a, b}) >= y
  BY <1>1 DEF Max
<1> QED
  BY <1>2

LEMMA MinThree ==
  ASSUME NEW a \in Int, NEW b \in Int, NEW d \in Int
  PROVE  /\ Min({a, b, d}) \in {a, b, d}
         /\ Min({a, b, d}) <= a /\ Min({a, b, d}) <= b /\ Min({a, b, d}) <= d
<1>1. \E x \in {a, b, d} : \A y \in {a, b, d} : x <= y
  OBVIOUS
<1>2. Min({a, b, d}) \in {a, b, d} /\ \A y \in {a, b, d} : Min({a, b, d}) <= y
  BY <1>1 DEF Min
<1> QED
  BY <1>2

\* Induction up to m, for the set of the numbers for which something holds.
LEMMA UpTo ==
  ASSUME NEW m \in Nat, NEW T, 0 \in T, \A n \in 0 .. m - 1 : n \in T => n + 1 \in T
  PROVE  0 .. m \subseteq T
<1> DEFINE F == {n \in 0 .. m : n \notin T}
<1> SUFFICES ASSUME F # {} PROVE FALSE
  OBVIOUS
<1>1. F \in SUBSET Nat
  OBVIOUS
<1>2. PICK x \in F : \A y \in F : x <= y
  <2> HIDE DEF F
  <2> QED
    BY <1>1, MinimumExists
<1>3. x # 0 /\ x - 1 \in 0 .. m - 1 /\ (x - 1) + 1 = x
  BY <1>2
<1>4. x - 1 \in F
  BY <1>2, <1>3
<1> QED
  BY <1>2, <1>3, <1>4

\* A function defined by recursion up to m exists: step[n] takes one value to the next.
Steps(step, m, S) == \A n \in 1 .. m : \A t \in S : step[n][t] \in S

Follows(f, step, a, m, S) ==
  f \in [0 .. m -> S] /\ f[0] = a /\ \A n \in 1 .. m : f[n] = step[n][f[n - 1]]

LEMMA Recursion ==
  ASSUME NEW m \in Nat, NEW S, NEW a \in S, NEW step, Steps(step, m, S)
  PROVE  \E f : Follows(f, step, a, m, S)
<1> DEFINE Fits(k, f) == f[0] = a /\ \A n \in 1 .. k : f[n] = step[n][f[n - 1]]
           T == {k \in 0 .. m : \E f \in [0 .. k -> S] : Fits(k, f)}
<1>1. 0 \in T
  <2> DEFINE g == [n \in 0 .. 0 |-> a]
  <2>1. g \in [0 .. 0 -> S] /\ Fits(0, g)
    OBVIOUS
  <2> HIDE DEF Fits, g
  <2> QED
    BY <2>1
<1>2. ASSUME NEW k \in 0 .. m - 1, k \in T PROVE k + 1 \in T
  <2>1. PICK f \in [0 .. k -> S] : Fits(k, f)
    BY <1>2
  <2> DEFINE g == [n \in 0 .. k + 1 |-> IF n = k + 1 THEN step[k + 1][f[k]] ELSE f[n]]
  <2>2. k + 1 \in 1 .. m /\ step[k + 1][f[k]] \in S
    <3>1. k + 1 \in 1 .. m /\ f[k] \in S
      OBVIOUS
    <3> QED
      BY <3>1 DEF Steps
  <2>3. g \in [0 .. k + 1 -> S]
    BY <2>2
  <2>4. g[0] = a
    BY <2>1
  <2>5. ASSUME NEW n \in 1 .. k + 1 PROVE g[n] = step[n][g[n - 1]]
    <3>1. n - 1 \in 0 .. k /\ g[n - 1] = f[n - 1]
      OBVIOUS
    <3>2. CASE n = k + 1
      BY <3>1, <3>2
    <3>3. CASE n # k + 1
      <4>1. n \in 1 .. k /\ g[n] = f[n]
        BY <3>3
      <4> QED
        BY <2>1, <3>1, <4>1
    <3> QED
      BY <3>2, <3>3
  <2>6. Fits(k + 1, g)
    BY <2>4, <2>5
  <2> HIDE DEF Fits, g
  <2> QED
    BY <2>2, <2>3, <2>6
<1>3. m \in T
  <2> HIDE DEF T
  <2>1. 0 .. m \subseteq T
    BY <1>1, <1>2, UpTo
  <2> QED
    BY <2>1
<1>4. PICK f \in [0 .. m -> S] : Fits(m, f)
  BY <1>3
<1>5. Follows(f, step, a, m, S)
  BY <1>4 DEF Follows
<1> QED
  BY <1>5

-----------------------------------------------------------------------------
(* Sequences and buffers *)

LEMMA SubSeqIs ==
  ASSUME NEW S, NEW s \in Seq(S), NEW m \in 1 .. Len(s) + 1, NEW n \in m - 1 .. Len(s)
  PROVE  /\ SubSeq(s, m, n) \in Seq(S)
         /\ Len(SubSeq(s, m, n)) = n - m + 1
         /\ \A j \in 1 .. n - m + 1 : SubSeq(s, m, n)[j] = s[m + j - 1]
<1>1. m .. n \subseteq 1 .. Len(s)
  OBVIOUS
<1>2. \A j \in m .. n : s[j] \in S
  BY <1>1
<1>3. n - m + 1 \in Nat
  OBVIOUS
<1> QED
  BY <1>1, <1>2, <1>3, SubSeqProperties

LEMMA ConcatIs ==
  ASSUME NEW S, NEW s \in Seq(S), NEW t \in Seq(S)
  PROVE  /\ s \o t \in Seq(S)
         /\ Len(s \o t) = Len(s) + Len(t)
         /\ \A i \in 1 .. Len(s) : (s \o t)[i] = s[i]
         /\ \A i \in 1 .. Len(t) : (s \o t)[Len(s) + i] = t[i]
<1>1. /\ s \o t \in Seq(S) /\ Len(s \o t) = Len(s) + Len(t)
      /\ \A i \in 1 .. Len(s) + Len(t) : (s \o t)[i] = IF i <= Len(s) THEN s[i] ELSE t[i - Len(s)]
  BY ConcatProperties
<1>2. Len(s) \in Nat /\ Len(t) \in Nat
  OBVIOUS
<1>3. \A i \in 1 .. Len(t) : Len(s) + i \in 1 .. Len(s) + Len(t) /\ ~(Len(s) + i <= Len(s)) /\ (Len(s) + i) - Len(s) = i
  BY <1>2
<1>4. \A i \in 1 .. Len(s) : i \in 1 .. Len(s) + Len(t) /\ i <= Len(s)
  BY <1>2
<1> QED
  BY <1>1, <1>3, <1>4

LEMMA InsertedAt ==
  ASSUME NEW S, NEW s \in Seq(S), NEW e \in S, NEW i \in 1 .. Len(s) + 1
  PROVE  /\ InsertAt(s, i, e) \in Seq(S)
         /\ Len(InsertAt(s, i, e)) = Len(s) + 1
         /\ \A j \in 1 .. Len(s) + 1 :
              InsertAt(s, i, e)[j] = IF j < i THEN s[j] ELSE IF j = i THEN e ELSE s[j - 1]
<1> DEFINE a == SubSeq(s, 1, i - 1)
           b == SubSeq(s, i, Len(s))
           f == <<e>>
           h == a \o f
<1>1. a \in Seq(S) /\ Len(a) = i - 1 /\ \A j \in 1 .. i - 1 : a[j] = s[j]
  BY SubSeqIs
<1>2. b \in Seq(S) /\ Len(b) = Len(s) - i + 1 /\ \A j \in 1 .. Len(s) - i + 1 : b[j] = s[i + j - 1]
  BY SubSeqIs
<1>3. f \in Seq(S) /\ Len(f) = 1 /\ f[1] = e
  OBVIOUS
<1> HIDE DEF a, b, f
<1>4. h \in Seq(S) /\ Len(h) = i /\ \A j \in 1 .. i : h[j] = IF j < i THEN s[j] ELSE e
  <2>1. /\ h \in Seq(S) /\ Len(h) = Len(a) + Len(f)
        /\ \A j \in 1 .. Len(a) : h[j] = a[j]
        /\ \A j \in 1 .. Len(f) : h[Len(a) + j] = f[j]
    <3>1. a \in Seq(S) /\ f \in Seq(S)
      BY <1>1, <1>3
    <3> QED
      BY <3>1, ConcatIs
  <2> HIDE DEF h
  <2>2. 1 \in 1 .. Len(f) /\ Len(a) + 1 = i
    BY <1>1, <1>3
  <2>3. h[i] = e
    BY <1>3, <2>1, <2>2
  <2>4. \A j \in 1 .. i : j < i => j \in 1 .. Len(a) /\ j \in 1 .. i - 1
    BY <1>1
  <2>5. Len(h) = i
    BY <1>1, <1>3, <2>1
  <2>6. \A j \in 1 .. i : ~(j < i) => j = i
    OBVIOUS
  <2>7. ASSUME NEW j \in 1 .. i PROVE h[j] = IF j < i THEN s[j] ELSE e
    BY <1>1, <2>1, <2>3, <2>4, <2>6
  <2> QED
    BY <2>1, <2>5, <2>7
<1> HIDE DEF h
<1>5. /\ h \o b \in Seq(S) /\ Len(h \o b) = Len(s) + 1
      /\ \A j \in 1 .. i : (h \o b)[j] = h[j]
      /\ \A j \in 1 .. Len(s) - i + 1 : (h \o b)[i + j] = b[j]
  <2> DEFINE g == h \o b
  <2>1. /\ g \in Seq(S) /\ Len(g) = Len(h) + Len(b)
        /\ \A j \in 1 .. Len(h) : g[j] = h[j]
        /\ \A j \in 1 .. Len(b) : g[Len(h) + j] = b[j]
    BY <1>2, <1>4, ConcatIs
  <2> HIDE DEF g
  <2>2. Len(g) = Len(s) + 1
    BY <1>2, <1>4, <2>1
  <2>3. /\ \A j \in 1 .. i : g[j] = h[j]
        /\ \A j \in 1 .. Len(s) - i + 1 : g[i + j] = b[j]
    BY <1>2, <1>4, <2>1
  <2> QED
    BY <2>1, <2>2, <2>3 DEF g
<1> DEFINE g == h \o b
<1> HIDE DEF g
<1>6. ASSUME NEW j \in 1 .. Len(s) + 1
      PROVE  g[j] = IF j < i THEN s[j] ELSE IF j = i THEN e ELSE s[j - 1]
  <2>1. CASE j <= i
    <3>1. j \in 1 .. i /\ g[j] = h[j] /\ (~(j < i) => j = i)
      BY <1>5, <2>1 DEF g
    <3> QED
      BY <1>4, <3>1
  <2>2. CASE j > i
    <3>1. j - i \in 1 .. Len(s) - i + 1 /\ i + (j - i) - 1 = j - 1 /\ i + (j - i) = j
      BY <2>2
    <3>2. g[j] = b[j - i]
      BY <1>5, <3>1 DEF g
    <3>3. b[j - i] = s[j - 1]
      BY <1>2, <3>1
    <3> QED
      BY <3>2, <3>3, <2>2
  <2> QED
    BY <2>1, <2>2
<1>7. InsertAt(s, i, e) = g
  BY DEF InsertAt, a, b, f, h, g
<1>8. g \in Seq(S) /\ Len(g) = Len(s) + 1
  BY <1>5 DEF g
<1> QED
  BY <1>6, <1>7, <1>8

\* t is s with e inserted before the element at index i.
Inserted(S, s, i, e, t) ==
  /\ t \in Seq(S) /\ Len(t) = Len(s) + 1
  /\ \A j \in 1 .. Len(s) + 1 : t[j] = IF j < i THEN s[j] ELSE IF j = i THEN e ELSE s[j - 1]

LEMMA Inserting ==
  ASSUME NEW S, NEW s \in Seq(S), NEW e \in S, NEW i \in 1 .. Len(s) + 1, NEW t, t = InsertAt(s, i, e)
  PROVE  Inserted(S, s, i, e, t)
BY InsertedAt DEF Inserted

LEMMA CapacityIs ==
  ASSUME NEW m \in Nat, NEW b \in Fifos(m)
  PROVE  Capacity(b) = m /\ GetWriteRemaining(b) = m - Len(b.data) /\ GetBuffered(b) = Len(b.data)
<1>1. DOMAIN b.ahead = 0 .. m - 1
  BY DEF Fifos
<1>2. Cardinality(0 .. m - 1) = m
  BY FS_Interval
<1> QED
  BY <1>1, <1>2 DEF Capacity, GetWriteRemaining, GetBuffered

LEMMA ReadOffsetIs ==
  ASSUME NEW m \in Nat, NEW b \in Fifos(m), NEW n \in Nat, NEW o \in Nat, o + n <= Len(b.data)
  PROVE  /\ ReadOffset(b, n, o) \in Seq(Int) /\ Len(ReadOffset(b, n, o)) = n
         /\ \A i \in 1 .. n : ReadOffset(b, n, o)[i] = b.data[o + i]
<1>1. b.data \in Seq(Int)
  BY DEF Fifos
<1>2. ReadOffset(b, n, o) = SubSeq(b.data, o + 1, o + n)
  <2>1. Min({o + n, Len(b.data)}) = o + n
    <3>1. o + n \in Int /\ Len(b.data) \in Int
      BY <1>1
    <3> QED
      BY <3>1, MinTwo
  <2> QED
    BY <2>1 DEF ReadOffset
<1>3. o + 1 \in 1 .. Len(b.data) + 1 /\ o + n \in (o + 1) - 1 .. Len(b.data)
  BY <1>1
<1>4. (o + n) - (o + 1) + 1 = n /\ \A i \in 1 .. n : (o + 1) + i - 1 = o + i
  OBVIOUS
<1> QED
  BY <1>1, <1>2, <1>3, <1>4, SubSeqIs

LEMMA ConsumeReadIs ==
  ASSUME NEW m \in Nat, NEW b \in Fifos(m), NEW n \in 0 .. Len(b.data)
  PROVE  LET e == ConsumeReadData(b, n) IN
         /\ e \in Fifos(m) /\ e.ahead = b.ahead /\ Len(e.data) = Len(b.data) - n
         /\ \A i \in 1 .. Len(e.data) : e.data[i] = b.data[n + i]
<1> DEFINE e == ConsumeReadData(b, n)
<1>0. e = ConsumeReadData(b, n)
  OBVIOUS
<1> HIDE DEF e
<1>1. b.data \in Seq(Int) /\ b = [data |-> b.data, ahead |-> b.ahead] /\ b.ahead \in [0 .. m - 1 -> Int]
  BY DEF Fifos
<1> DEFINE s == SubSeq(b.data, n + 1, Len(b.data))
<1>2. s \in Seq(Int) /\ Len(s) = Len(b.data) - n /\ \A i \in 1 .. Len(s) : s[i] = b.data[n + i]
  <2>1. n + 1 \in 1 .. Len(b.data) + 1 /\ Len(b.data) \in (n + 1) - 1 .. Len(b.data)
    BY <1>1
  <2>2. Len(b.data) - (n + 1) + 1 = Len(b.data) - n
        /\ \A i \in 1 .. Len(b.data) - n : (n + 1) + i - 1 = n + i
    BY <1>1
  <2> QED
    <3>1. b.data \in Seq(Int) /\ n + 1 \in 1 .. Len(b.data) + 1 /\ Len(b.data) \in (n + 1) - 1 .. Len(b.data)
      BY <1>1, <2>1
    <3>2. /\ s \in Seq(Int) /\ Len(s) = Len(b.data) - (n + 1) + 1
          /\ \A i \in 1 .. Len(b.data) - (n + 1) + 1 : s[i] = b.data[(n + 1) + i - 1]
      BY ONLY <3>1, SubSeqIs
    <3> HIDE DEF s
    <3> QED
      BY <2>2, <3>2
<1>3. e = [data |-> s, ahead |-> b.ahead]
  BY <1>0, <1>1 DEF ConsumeReadData
<1> HIDE DEF s
<1> QED
  BY <1>1, <1>2, <1>3 DEF Fifos, e

LEMMA WriteOffsetIs ==
  ASSUME NEW m \in Nat, NEW b \in Fifos(m), NEW s \in Seq(Int), NEW o \in Nat,
         Len(b.data) + o + Len(s) <= m
  PROVE  LET e == WriteOffset(b, s, o) IN
         /\ e \in Fifos(m) /\ e.data = b.data
         /\ \A j \in 0 .. m - 1 :
              e.ahead[j] = IF j \in o .. o + Len(s) - 1 THEN s[j - o + 1] ELSE b.ahead[j]
<1> DEFINE e == WriteOffset(b, s, o)
<1>0. e = WriteOffset(b, s, o)
  OBVIOUS
<1> HIDE DEF e
<1>1. /\ b.data \in Seq(Int) /\ b = [data |-> b.data, ahead |-> b.ahead]
      /\ b.ahead \in [0 .. m - 1 -> Int] /\ Len(b.data) \in Nat /\ Len(s) \in Nat
  BY DEF Fifos
<1>2. Min({Len(s), GetWriteRemaining(b) - o}) = Len(s)
  <2>1. GetWriteRemaining(b) = m - Len(b.data)
    BY CapacityIs
  <2>2. Len(s) \in Int /\ GetWriteRemaining(b) - o \in Int /\ Len(s) <= GetWriteRemaining(b) - o
    BY <1>1, <2>1
  <2> QED
    BY <2>2, MinTwo
<1> DEFINE g == [j \in 0 .. m - 1 |-> IF j \in o .. o + Len(s) - 1 THEN s[j - o + 1] ELSE b.ahead[j]]
<1>3. e = [data |-> b.data, ahead |-> g]
  BY <1>0, <1>1, <1>2 DEF WriteOffset
<1>4. g \in [0 .. m - 1 -> Int]
  <2>1. \A j \in o .. o + Len(s) - 1 : s[j - o + 1] \in Int
    BY <1>1
  <2> QED
    BY <1>1, <2>1
<1>5. \A j \in 0 .. m - 1 : g[j] = IF j \in o .. o + Len(s) - 1 THEN s[j - o + 1] ELSE b.ahead[j]
  OBVIOUS
<1> HIDE DEF g
<1> QED
  BY <1>1, <1>3, <1>4, <1>5 DEF Fifos, e

LEMMA ConsumeWriteIs ==
  ASSUME NEW m \in Nat, NEW b \in Fifos(m), NEW n \in Nat, Len(b.data) + n <= m
  PROVE  LET e == ConsumeWriteBuffer(b, n) IN
         /\ e \in Fifos(m) /\ Len(e.data) = Len(b.data) + n
         /\ \A i \in 1 .. Len(b.data) : e.data[i] = b.data[i]
         /\ \A i \in 1 .. n : e.data[Len(b.data) + i] = b.ahead[i - 1]
         /\ \A j \in 0 .. m - 1 - n : e.ahead[j] = b.ahead[j + n]
<1> DEFINE e == ConsumeWriteBuffer(b, n)
<1>1. b.data \in Seq(Int) /\ b.ahead \in [0 .. m - 1 -> Int] /\ Len(b.data) \in Nat
  BY DEF Fifos
<1> DEFINE s == [i \in 1 .. n |-> b.ahead[i - 1]]
           g == [o \in 0 .. m - 1 |-> IF o + n \in 0 .. m - 1 THEN b.ahead[o + n] ELSE Junk]
<1>2. s \in Seq(Int) /\ Len(s) = n /\ \A i \in 1 .. n : s[i] = b.ahead[i - 1]
  <2>1. \A i \in 1 .. n : i - 1 \in 0 .. m - 1 /\ b.ahead[i - 1] \in Int
    BY <1>1
  <2>2. s \in [1 .. n -> Int]
    BY <2>1
  <2> QED
    BY <2>2
<1>3. g \in [0 .. m - 1 -> Int]
  BY <1>1 DEF Junk
<1>4. \A j \in 0 .. m - 1 - n : g[j] = b.ahead[j + n]
  OBVIOUS
<1>5. e = [data |-> b.data \o s, ahead |-> g]
  BY <1>1 DEF ConsumeWriteBuffer
<1> HIDE DEF s, g
<1>6. /\ b.data \o s \in Seq(Int) /\ Len(b.data \o s) = Len(b.data) + n
      /\ \A i \in 1 .. Len(b.data) : (b.data \o s)[i] = b.data[i]
      /\ \A i \in 1 .. n : (b.data \o s)[Len(b.data) + i] = s[i]
  <2>1. /\ b.data \o s \in Seq(Int) /\ Len(b.data \o s) = Len(b.data) + Len(s)
        /\ \A i \in 1 .. Len(b.data) : (b.data \o s)[i] = b.data[i]
        /\ \A i \in 1 .. Len(s) : (b.data \o s)[Len(b.data) + i] = s[i]
    <3>1. b.data \in Seq(Int) /\ s \in Seq(Int)
      BY <1>1, <1>2
    <3> QED
      BY <3>1, ConcatIs
  <2> QED
    BY <1>2, <2>1
<1> QED
  BY <1>2, <1>3, <1>4, <1>5, <1>6 DEF Fifos

LEMMA WriteIs ==
  ASSUME NEW m \in Nat, NEW b \in Fifos(m), NEW s \in Seq(Int), Len(b.data) + Len(s) <= m
  PROVE  LET e == Write(b, s) IN
         /\ e \in Fifos(m) /\ Len(e.data) = Len(b.data) + Len(s)
         /\ \A i \in 1 .. Len(b.data) : e.data[i] = b.data[i]
         /\ \A i \in 1 .. Len(s) : e.data[Len(b.data) + i] = s[i]
<1> DEFINE e == Write(b, s)
<1>1. Len(b.data) \in Nat /\ Len(s) \in Nat
  BY DEF Fifos
<1> DEFINE d == WriteOffset(b, s, 0)
<1>2. /\ d \in Fifos(m) /\ d.data = b.data
      /\ \A j \in 0 .. m - 1 : d.ahead[j] = IF j \in 0 .. Len(s) - 1 THEN s[j + 1] ELSE b.ahead[j]
  <2>1. \A j \in 0 .. m - 1 : j - 0 + 1 = j + 1
    OBVIOUS
  <2>2. Len(b.data) + 0 + Len(s) <= m /\ 0 \in Nat /\ 0 + Len(s) - 1 = Len(s) - 1
    BY <1>1
  <2>3. /\ d \in Fifos(m) /\ d.data = b.data
        /\ \A j \in 0 .. m - 1 : d.ahead[j] = IF j \in 0 .. 0 + Len(s) - 1 THEN s[j - 0 + 1] ELSE b.ahead[j]
    BY <2>2, WriteOffsetIs
  <2> QED
    BY <2>1, <2>2, <2>3
<1>3. Min({Len(s), GetWriteRemaining(b)}) = Len(s)
  <2>1. GetWriteRemaining(b) = m - Len(b.data)
    BY CapacityIs
  <2>2. Len(s) \in Int /\ GetWriteRemaining(b) \in Int /\ Len(s) <= GetWriteRemaining(b)
    BY <1>1, <2>1
  <2> QED
    BY <2>2, MinTwo
<1>4. e = ConsumeWriteBuffer(d, Len(s))
  BY <1>3 DEF Write
<1> HIDE DEF d
<1>5. /\ e \in Fifos(m) /\ Len(e.data) = Len(b.data) + Len(s)
      /\ \A i \in 1 .. Len(b.data) : e.data[i] = b.data[i]
      /\ \A i \in 1 .. Len(s) : e.data[Len(b.data) + i] = d.ahead[i - 1]
  <2>1. Len(d.data) = Len(b.data)
    BY <1>2
  <2>2. /\ e \in Fifos(m) /\ Len(e.data) = Len(d.data) + Len(s)
        /\ \A i \in 1 .. Len(d.data) : e.data[i] = d.data[i]
        /\ \A i \in 1 .. Len(s) : e.data[Len(d.data) + i] = d.ahead[i - 1]
    <3>1. d \in Fifos(m) /\ Len(s) \in Nat /\ Len(d.data) + Len(s) <= m
      BY <1>1, <1>2, <2>1
    <3> QED
      BY <1>4, <3>1, ConsumeWriteIs
  <2> QED
    BY <1>2, <2>1, <2>2
<1>6. \A i \in 1 .. Len(s) : i - 1 \in 0 .. m - 1 /\ i - 1 \in 0 .. Len(s) - 1 /\ (i - 1) + 1 = i
  BY <1>1
<1>7. \A i \in 1 .. Len(s) : d.ahead[i - 1] = s[i]
  BY <1>2, <1>6
<1> QED
  BY <1>5, <1>7

-----------------------------------------------------------------------------
(* The list of segments *)

LEMMA Constants ==
  /\ ConnectLen \in Nat /\ ConnectLen > 0 /\ RcvBufLen \in Nat /\ SndBufLen \in Nat
  /\ PathMss \in Nat /\ PathMss > 0 /\ MaxXmit \in Nat /\ MaxXmitConnect \in Nat
  /\ MaxCwnd \in Nat /\ MaxCwnd > 0
  /\ ConnectLen <= RcvBufLen /\ ConnectLen <= SndBufLen /\ ConnectLen <= MaxCwnd
BY PseudoTcpAssumption

LEMMA Levels ==
  /\ Len(MssLevels) \in Nat /\ Len(MssLevels) > 0
  /\ \A l \in 1 .. Len(MssLevels) : MssLevels[l] \in Nat /\ MssLevels[l] > 0 /\ MssLevels[l] >= ConnectLen
  /\ MssLevels[Len(MssLevels)] <= PathMss
<1>1. MssLevels \in Seq(Nat \ {0}) /\ MssLevels # << >>
  BY PseudoTcpAssumption
<1>2. Len(MssLevels) \in Nat /\ Len(MssLevels) > 0
  BY <1>1
<1>3. \A l \in 1 .. Len(MssLevels) : MssLevels[l] \in Nat /\ MssLevels[l] > 0
  BY <1>1
<1>4. \A l \in 1 .. Len(MssLevels) : ConnectLen <= MssLevels[l]
  BY PseudoTcpAssumption
<1>5. MssLevels[Len(MssLevels)] <= PathMss
  BY PseudoTcpAssumption DEF Last
<1> QED
  BY <1>2, <1>3, <1>4, <1>5, Constants

LEMMA TcbTypes ==
  ASSUME NEW c \in Tcbs
  PROVE  /\ c.slist \in Seq(SSegments) /\ c.rlist \in Seq(RSegments)
         /\ c.sbuf \in Fifos(SndBufLen) /\ c.rbuf \in Fifos(RcvBufLen)
         /\ c.snd_una \in Nat /\ c.snd_nxt \in Nat /\ c.snd_wnd \in Nat
         /\ c.rcv_nxt \in Nat /\ c.rcv_wnd \in Nat /\ c.cwnd \in Nat /\ c.cwnd > 0
         /\ c.ssthresh \in Nat /\ c.ssthresh > 0
         /\ c.recover \in Nat /\ c.dup_acks \in 0 .. 4 /\ c.room \in Nat
         /\ c.rto \in BOOLEAN /\ c.t_ack \in BOOLEAN /\ c.out \subseteq Packets
         /\ c.level \in 1 .. Len(MssLevels)
BY DEF Tcbs

LEMMA SegmentTypes ==
  ASSUME NEW c \in Tcbs
  PROVE  /\ Len(c.slist) \in Nat /\ Len(c.sbuf.data) \in Nat /\ End(c) \in Nat
         /\ \A i \in 1 .. Len(c.slist) :
              /\ c.slist[i] \in SSegments /\ c.slist[i].seq \in Nat /\ c.slist[i].xmit \in Nat
              /\ c.slist[i].len \in Nat /\ c.slist[i].len > 0 /\ c.slist[i].bCtrl \in BOOLEAN
         /\ \A i \in 1 .. Len(c.slist) + 1 : Start(c, i) \in Nat
<1>1. c.slist \in Seq(SSegments) /\ Len(c.slist) \in Nat
  BY TcbTypes
<1>2. c.sbuf \in Fifos(SndBufLen) /\ c.snd_una \in Nat
  BY TcbTypes
<1>3. Len(c.sbuf.data) \in Nat
  BY <1>2 DEF Fifos
<1>4. End(c) \in Nat
  BY <1>2, <1>3 DEF End
<1>5. \A i \in 1 .. Len(c.slist) : c.slist[i] \in SSegments
  BY <1>1
<1>6. \A s \in SSegments : s.seq \in Nat /\ s.xmit \in Nat /\ s.len \in Nat /\ s.len > 0 /\ s.bCtrl \in BOOLEAN
  BY DEF SSegments
<1>7. \A i \in 1 .. Len(c.slist) + 1 : i = Len(c.slist) + 1 \/ i \in 1 .. Len(c.slist)
  BY <1>1
<1>8. \A i \in 1 .. Len(c.slist) + 1 : Start(c, i) \in Nat
  BY <1>4, <1>5, <1>6, <1>7 DEF Start
<1> QED
  BY <1>1, <1>3, <1>4, <1>5, <1>6, <1>8

\* Segments follow each other, so a later one starts after an earlier one ends.
LEMMA Ordered ==
  ASSUME NEW c \in Tcbs, Tiled(c)
  PROVE  /\ \A i \in 1 .. Len(c.slist), j \in 1 .. Len(c.slist) + 1 :
              i < j => c.slist[i].seq + c.slist[i].len <= Start(c, j)
         /\ \A j \in 1 .. Len(c.slist) + 1 : c.snd_una <= Start(c, j) /\ Start(c, j) <= End(c)
<1>1. ASSUME NEW i \in 1 .. Len(c.slist)
      PROVE  \A j \in 1 .. Len(c.slist) + 1 : i < j => c.slist[i].seq + c.slist[i].len <= Start(c, j)
  <2> DEFINE m == Len(c.slist) - i
             T == {n \in 0 .. m : c.slist[i].seq + c.slist[i].len <= Start(c, i + 1 + n)}
  <2>1. m \in Nat /\ i \in Nat /\ Len(c.slist) \in Nat
    BY SegmentTypes
  <2>2. 0 \in T
    <3>1. Start(c, i + 1) = c.slist[i].seq + c.slist[i].len /\ i + 1 + 0 = i + 1
      BY <2>1 DEF Tiled
    <3>2. c.slist[i].seq + c.slist[i].len \in Nat
      BY SegmentTypes
    <3> QED
      BY <2>1, <3>1, <3>2
  <2>3. ASSUME NEW n \in 0 .. m - 1, n \in T PROVE n + 1 \in T
    <3> DEFINE j == i + 1 + n
    <3>1. j \in 1 .. Len(c.slist) /\ j # Len(c.slist) + 1 /\ i + 1 + (n + 1) = j + 1 /\ n + 1 \in 0 .. m
      BY <2>1
    <3>2. Start(c, j) = c.slist[j].seq /\ Start(c, j + 1) = c.slist[j].seq + c.slist[j].len
      BY <3>1 DEF Start, Tiled
    <3>4. c.slist[i].seq + c.slist[i].len <= Start(c, j)
      BY <2>3
    <3> HIDE DEF j
    <3>3. c.slist[j].seq \in Nat /\ c.slist[j].len \in Nat /\ c.slist[i].seq \in Nat /\ c.slist[i].len \in Nat
      BY <3>1, SegmentTypes
    <3>5. Start(c, j) <= Start(c, j + 1) /\ Start(c, j) \in Nat /\ Start(c, j + 1) \in Nat
      <4>1. \A a, b \in Nat : a <= a + b /\ a + b \in Nat
        OBVIOUS
      <4>2. c.slist[j].seq <= c.slist[j].seq + c.slist[j].len /\ c.slist[j].seq + c.slist[j].len \in Nat
        BY <3>3, <4>1
      <4> QED
        BY ONLY <3>2, <3>3, <4>2
    <3>6. c.slist[i].seq + c.slist[i].len <= Start(c, j + 1)
      BY <3>3, <3>4, <3>5
    <3> QED
      BY <3>1, <3>6
  <2>4. 0 .. m \subseteq T
    <3> HIDE DEF T, m
    <3> QED
      BY <2>1, <2>2, <2>3, UpTo
  <2>5. ASSUME NEW j \in 1 .. Len(c.slist) + 1, i < j
        PROVE  c.slist[i].seq + c.slist[i].len <= Start(c, j)
    <3>1. j - i - 1 \in 0 .. m /\ i + 1 + (j - i - 1) = j
      BY <2>1, <2>5
    <3>2. j - i - 1 \in T
      BY <2>4, <3>1
    <3> QED
      BY <3>1, <3>2
  <2> QED
    BY <2>5
<1>2. ASSUME NEW j \in 1 .. Len(c.slist) + 1 PROVE c.snd_una <= Start(c, j) /\ Start(c, j) <= End(c)
  <2>1. Len(c.slist) \in Nat /\ Start(c, j) \in Nat /\ c.snd_una \in Nat /\ End(c) \in Nat /\ Start(c, 1) = c.snd_una
    BY SegmentTypes, TcbTypes DEF Tiled
  <2>2. c.snd_una <= Start(c, j)
    <3>1. CASE j = 1
      BY <2>1, <3>1
    <3>2. CASE j # 1
      <4>1. 1 \in 1 .. Len(c.slist) /\ 1 < j /\ 1 # Len(c.slist) + 1
        BY <2>1, <3>2
      <4>2. c.slist[1].seq + c.slist[1].len <= Start(c, j)
        BY <1>1, <4>1
      <4>3. c.slist[1].seq = c.snd_una /\ c.slist[1].len \in Nat
        BY <2>1, <4>1, SegmentTypes DEF Start
      <4> QED
        BY <2>1, <4>2, <4>3
    <3> QED
      BY <3>1, <3>2
  <2>3. Start(c, j) <= End(c)
    <3>1. CASE j = Len(c.slist) + 1
      BY <2>1, <3>1 DEF Start
    <3>2. CASE j # Len(c.slist) + 1
      <4>1. j \in 1 .. Len(c.slist) /\ j < Len(c.slist) + 1 /\ Len(c.slist) + 1 \in 1 .. Len(c.slist) + 1
        BY <2>1, <3>2
      <4>2. c.slist[j].seq + c.slist[j].len <= Start(c, Len(c.slist) + 1)
        BY <1>1, <4>1
      <4>3. Start(c, Len(c.slist) + 1) = End(c) /\ Start(c, j) = c.slist[j].seq
        BY <3>2 DEF Start
      <4>4. c.slist[j].len \in Nat
        BY <4>1, SegmentTypes
      <4> QED
        BY <2>1, <4>2, <4>3, <4>4
    <3> QED
      BY <3>1, <3>2
  <2> QED
    BY <2>2, <2>3
<1> QED
  BY <1>1, <1>2

\* The part of Ordered about two segments, and about one and the ends.
LEMMA InOrderSegments ==
  ASSUME NEW c \in Tcbs, Tiled(c), NEW i \in 1 .. Len(c.slist)
  PROVE  /\ c.snd_una <= c.slist[i].seq /\ c.slist[i].seq + c.slist[i].len <= End(c)
         /\ \A j \in 1 .. Len(c.slist) : i < j => c.slist[i].seq + c.slist[i].len <= c.slist[j].seq
<1>1. Len(c.slist) \in Nat /\ Start(c, i) = c.slist[i].seq
  BY SegmentTypes DEF Start
<1>2. c.snd_una <= c.slist[i].seq
  <2>1. i \in 1 .. Len(c.slist) + 1
    BY <1>1
  <2> QED
    BY <1>1, <2>1, Ordered
<1>3. c.slist[i].seq + c.slist[i].len <= End(c)
  <2>1. Len(c.slist) + 1 \in 1 .. Len(c.slist) + 1 /\ i < Len(c.slist) + 1
    BY <1>1
  <2>2. c.slist[i].seq + c.slist[i].len <= Start(c, Len(c.slist) + 1)
    BY <2>1, Ordered
  <2> QED
    BY <2>2 DEF Start
<1>4. ASSUME NEW j \in 1 .. Len(c.slist), i < j PROVE c.slist[i].seq + c.slist[i].len <= c.slist[j].seq
  <2>1. j \in 1 .. Len(c.slist) + 1 /\ Start(c, j) = c.slist[j].seq
    BY <1>1 DEF Start
  <2> QED
    BY <1>4, <2>1, Ordered
<1> QED
  BY <1>2, <1>3, <1>4

\* The first segment that was not sent starts at snd_nxt.
LEMMA FirstUnsent ==
  ASSUME NEW c \in Tcbs, Tiled(c), SentFirst(c), NEW i \in 1 .. Len(c.slist), c.slist[i].xmit = 0,
         \A j \in 1 .. i - 1 : c.slist[j].xmit > 0
  PROVE  c.slist[i].seq = c.snd_nxt
<1>1. /\ c.slist[i].seq >= c.snd_nxt /\ c.snd_una <= c.snd_nxt
      /\ c.slist[i].seq \in Nat /\ c.snd_nxt \in Nat /\ c.snd_una \in Nat /\ Len(c.slist) \in Nat
  BY SegmentTypes, TcbTypes DEF SentFirst
<1>2. Start(c, i) = c.slist[i].seq
  BY <1>1 DEF Start
<1>3. CASE i = 1
  BY <1>1, <1>2, <1>3 DEF Tiled
<1>4. CASE i # 1
  <2> DEFINE j == i - 1
  <2>1. j \in 1 .. Len(c.slist) /\ j + 1 = i /\ j \in 1 .. i - 1
    BY <1>1, <1>4
  <2> HIDE DEF j
  <2>2. Start(c, j + 1) = c.slist[j].seq + c.slist[j].len /\ c.slist[j].xmit > 0
    BY <2>1 DEF Tiled
  <2>3. c.slist[j].seq + c.slist[j].len <= c.snd_nxt
    BY <2>1, <2>2 DEF SentFirst
  <2> QED
    BY <1>1, <1>2, <2>1, <2>2, <2>3
<1> QED
  BY <1>3, <1>4

\* If the buffer reaches past snd_nxt, the last segment was not sent.
LEMMA LastUnsent ==
  ASSUME NEW c \in Tcbs, Tiled(c), SentFirst(c), c.snd_nxt < End(c)
  PROVE  Len(c.slist) \in 1 .. Len(c.slist) /\ c.slist[Len(c.slist)].xmit = 0
<1> DEFINE m == Len(c.slist)
<1>1. m \in Nat /\ Start(c, m + 1) = End(c) /\ c.snd_nxt \in Nat /\ c.snd_una \in Nat /\ End(c) \in Nat
  BY SegmentTypes, TcbTypes DEF Start
<1>2. m # 0
  <2>1. m = 0 => Start(c, 1) = End(c)
    BY <1>1
  <2>2. Start(c, 1) = c.snd_una /\ c.snd_una <= c.snd_nxt
    BY DEF Tiled, SentFirst
  <2> QED
    BY <1>1, <2>1, <2>2
<1>3. m \in 1 .. m
  BY <1>1, <1>2
<1>4. c.slist[m].seq + c.slist[m].len = End(c)
  BY <1>1, <1>3 DEF Tiled
<1>5. c.slist[m].xmit \in Nat /\ (c.slist[m].xmit > 0 => c.slist[m].seq + c.slist[m].len <= c.snd_nxt)
  BY <1>3, SegmentTypes DEF SentFirst
<1> QED
  BY <1>1, <1>3, <1>4, <1>5

-----------------------------------------------------------------------------
(* Cutting a segment in two, and marking one as sent *)

LEMMA SplitIs ==
  ASSUME NEW s \in Seq(SSegments), NEW i \in 1 .. Len(s), NEW n \in Nat, 0 < n, n < s[i].len
  PROVE  LET t == SplitAt(s, i, n) IN
         /\ t \in Seq(SSegments) /\ Len(t) = Len(s) + 1
         /\ \A j \in 1 .. i - 1 : t[j] = s[j]
         /\ \A j \in i + 2 .. Len(s) + 1 : t[j] = s[j - 1]
         /\ t[i].seq = s[i].seq /\ t[i].len = n /\ t[i].xmit = s[i].xmit /\ t[i].bCtrl = s[i].bCtrl
         /\ t[i + 1].seq = s[i].seq + n /\ t[i + 1].len = s[i].len - n
         /\ t[i + 1].xmit = s[i].xmit /\ t[i + 1].bCtrl = s[i].bCtrl
<1> DEFINE t == SplitAt(s, i, n)
<1> DEFINE r == s[i]
           a == [r EXCEPT !.len = n]
           b == [r EXCEPT !.seq = @ + n, !.len = @ - n]
           u == [s EXCEPT ![i].len = n]
<1>0. r \in SSegments /\ Len(s) \in Nat /\ r = s[i] /\ n < r.len
  OBVIOUS
<1>4. u = [s EXCEPT ![i] = a]
  OBVIOUS
<1>6. t = InsertAt(u, i + 1, b)
  <2>1. ~(n >= s[i].len)
    BY <1>0 DEF SSegments
  <2> QED
    BY <2>1 DEF SplitAt
<1> HIDE DEF r, u, t
<1>1. s[i] \in SSegments /\ Len(s) \in Nat /\ s[i].seq \in Nat /\ s[i].len \in Nat
  BY <1>0 DEF SSegments
<1>2. /\ a \in SSegments /\ a.seq = s[i].seq /\ a.len = n /\ a.xmit = s[i].xmit /\ a.bCtrl = s[i].bCtrl
      /\ b \in SSegments /\ b.seq = s[i].seq + n /\ b.len = s[i].len - n
      /\ b.xmit = s[i].xmit /\ b.bCtrl = s[i].bCtrl
  <2>1. r.seq + n \in Nat /\ r.len - n \in Nat \ {0} /\ n \in Nat \ {0}
    BY <1>0, <1>1
  <2>2. /\ a \in SSegments /\ a.seq = r.seq /\ a.len = n /\ a.xmit = r.xmit /\ a.bCtrl = r.bCtrl
        /\ b \in SSegments /\ b.seq = r.seq + n /\ b.len = r.len - n
        /\ b.xmit = r.xmit /\ b.bCtrl = r.bCtrl
    BY <1>0, <2>1 DEF SSegments
  <2> QED
    BY <1>0, <2>2
<1> HIDE DEF a, b
<1>3. b \in SSegments
  BY <1>2
<1>5. u \in Seq(SSegments) /\ Len(u) = Len(s) /\ u[i] = a /\ \A j \in 1 .. Len(s) : j # i => u[j] = s[j]
  BY <1>2, <1>4
<1>7. i + 1 \in 1 .. Len(u) + 1
  BY <1>1, <1>5
<1>8. /\ t \in Seq(SSegments) /\ Len(t) = Len(u) + 1
      /\ \A j \in 1 .. Len(u) + 1 : t[j] = IF j < i + 1 THEN u[j] ELSE IF j = i + 1 THEN b ELSE u[j - 1]
  <2>1. u \in Seq(SSegments) /\ b \in SSegments
    BY <1>3, <1>5
  <2> DEFINE k == i + 1
  <2>2. k \in 1 .. Len(u) + 1 /\ t = InsertAt(u, k, b)
    BY <1>6, <1>7
  <2> HIDE DEF k
  <2>3. Inserted(SSegments, u, k, b, t)
    BY <2>1, <2>2, Inserting
  <2> QED
    BY <2>3 DEF Inserted, k
<1>9. \A j \in 1 .. i - 1 : j \in 1 .. Len(u) + 1 /\ j < i + 1 /\ j # i /\ j \in 1 .. Len(s)
  BY <1>1, <1>5
<1>10. \A j \in i + 2 .. Len(s) + 1 : /\ j \in 1 .. Len(u) + 1 /\ ~(j < i + 1) /\ j # i + 1
                                      /\ j - 1 # i /\ j - 1 \in 1 .. Len(s)
  BY <1>1, <1>5
<1>11. t[i] = a /\ t[i + 1] = b
  BY <1>1, <1>5, <1>7, <1>8
<1>12. \A j \in 1 .. i - 1 : t[j] = s[j]
  BY <1>5, <1>8, <1>9
<1>13. \A j \in i + 2 .. Len(s) + 1 : t[j] = s[j - 1]
  BY <1>5, <1>8, <1>10
<1> QED
  BY <1>2, <1>3, <1>5, <1>8, <1>11, <1>12, <1>13 DEF t

LEMMA SameSenderKeeps ==
  ASSUME NEW c \in Tcbs, NEW e \in Tcbs, SameSender(c, e), e.slist = c.slist
  PROVE  (Sender(c) => Sender(e)) /\ KeepsCuts(c, e)
<1>1. /\ e.sbuf = c.sbuf /\ e.snd_una = c.snd_una /\ e.snd_nxt = c.snd_nxt
      /\ e.snd_wnd = c.snd_wnd /\ e.recover = c.recover /\ e.rto = c.rto /\ e.cwnd = c.cwnd
  BY DEF SameSender
<1>2. End(e) = End(c) /\ \A i : Start(e, i) = Start(c, i)
  BY <1>1 DEF End, Start
<1>3. KeepsCuts(c, e)
  BY <1>1 DEF KeepsCuts, Cut
<1>4. Tiled(c) => Tiled(e)
  BY <1>1, <1>2 DEF Tiled
<1>5. SentFirst(c) => SentFirst(e)
  BY <1>1, <1>2 DEF SentFirst
<1>6. ConnectWhole(c) => ConnectWhole(e)
  BY <1>1 DEF ConnectWhole
<1>7. RightSent(c) => RightSent(e)
  BY <1>1 DEF RightSent
<1> QED
  BY <1>3, <1>4, <1>5, <1>6, <1>7 DEF Sender

\* A segment may be cut anywhere, except the connect message.
LEMMA Splitting ==
  ASSUME NEW c \in Tcbs, Sender(c), NEW i \in 1 .. Len(c.slist), NEW n \in Nat, 0 < n,
         c.slist[i].bCtrl => n >= c.slist[i].len,
         NEW e \in Tcbs, SameSender(c, e), e.slist = SplitAt(c.slist, i, n)
  PROVE  /\ Sender(e) /\ KeepsCuts(c, e) /\ i \in 1 .. Len(e.slist)
         /\ \A j \in 1 .. i - 1 : e.slist[j] = c.slist[j]
         /\ e.slist[i].seq = c.slist[i].seq /\ e.slist[i].xmit = c.slist[i].xmit
         /\ e.slist[i].bCtrl = c.slist[i].bCtrl
         /\ e.slist[i].len = IF n < c.slist[i].len THEN n ELSE c.slist[i].len
<1> DEFINE m == Len(c.slist)
           t == SplitAt(c.slist, i, n)
<1>1. /\ m \in Nat /\ i \in Nat /\ c.slist \in Seq(SSegments) /\ c.slist[i].len \in Nat /\ c.slist[i].seq \in Nat
      /\ c.slist[i].xmit \in Nat /\ c.snd_nxt \in Nat /\ i \in 1 .. m
  BY SegmentTypes, TcbTypes
<1>2. CASE n >= c.slist[i].len
  <2>1. e.slist = c.slist
    BY <1>2 DEF SplitAt
  <2>2. c.slist[i].len = IF n < c.slist[i].len THEN n ELSE c.slist[i].len
    BY <1>1, <1>2
  <2>3. Sender(e) /\ KeepsCuts(c, e)
    BY <2>1, SameSenderKeeps
  <2> QED
    BY <2>1, <2>2, <2>3
<1>3. CASE n < c.slist[i].len
  <2>1. /\ t \in Seq(SSegments) /\ Len(t) = m + 1
        /\ \A j \in 1 .. i - 1 : t[j] = c.slist[j]
        /\ \A j \in i + 2 .. m + 1 : t[j] = c.slist[j - 1]
        /\ t[i].seq = c.slist[i].seq /\ t[i].len = n /\ t[i].xmit = c.slist[i].xmit /\ t[i].bCtrl = c.slist[i].bCtrl
        /\ t[i + 1].seq = c.slist[i].seq + n /\ t[i + 1].len = c.slist[i].len - n
        /\ t[i + 1].xmit = c.slist[i].xmit /\ t[i + 1].bCtrl = c.slist[i].bCtrl
    <3>1. c.slist \in Seq(SSegments) /\ n < c.slist[i].len
      BY <1>1, <1>3
    <3> QED
      BY <3>1, SplitIs
  <2> HIDE DEF t
  <2>3. /\ e \in Tcbs /\ e.slist = t /\ e.sbuf = c.sbuf /\ e.snd_una = c.snd_una /\ e.snd_nxt = c.snd_nxt
        /\ e.snd_wnd = c.snd_wnd /\ e.recover = c.recover /\ e.rto = c.rto /\ e.cwnd = c.cwnd
    BY DEF SameSender, t
  <2> HIDE DEF m
  <2>4. End(e) = End(c)
    BY <2>3 DEF End
  <2>5. \A j \in 1 .. i : Start(e, j) = Start(c, j) /\ Start(c, j) = c.slist[j].seq
    <3> SUFFICES ASSUME NEW j \in 1 .. i PROVE Start(e, j) = Start(c, j) /\ Start(c, j) = c.slist[j].seq
      OBVIOUS
    <3>1. j # m + 1 /\ j # (m + 1) + 1 /\ (j # i => j \in 1 .. i - 1) /\ i \in 1 .. m
      BY <1>1 DEF m
    <3>2. t[j].seq = c.slist[j].seq
      BY <2>1, <3>1
    <3>3. Start(e, j) = t[j].seq
      BY <2>1, <2>3, <3>1 DEF Start
    <3>4. Start(c, j) = c.slist[j].seq
      BY <3>1 DEF Start, m
    <3> QED
      BY <3>2, <3>3, <3>4
  <2>6. Start(e, i + 1) = c.slist[i].seq + n
    <3>1. i + 1 # (m + 1) + 1
      BY <1>1 DEF m
    <3> QED
      BY <2>1, <2>3, <3>1 DEF Start
  <2>7. \A j \in i + 2 .. m + 2 : Start(e, j) = Start(c, j - 1)
    <3> SUFFICES ASSUME NEW j \in i + 2 .. m + 2 PROVE Start(e, j) = Start(c, j - 1)
      OBVIOUS
    <3>1. CASE j = m + 2
      <4>1. Start(e, j) = End(e)
        <5>1. Len(e.slist) + 1 = j
          <6>1. Len(e.slist) = m + 1 /\ m \in Nat
            BY <1>1, <2>1, <2>3
          <6> QED
            BY <3>1, <6>1
        <5> QED
          BY <5>1 DEF Start
      <4>2. Start(c, j - 1) = End(c)
        BY <1>1, <3>1 DEF Start, m
      <4> QED
        BY <2>4, <4>1, <4>2
    <3>2. CASE j # m + 2
      <4>1. j \in i + 2 .. m + 1 /\ j - 1 # m + 1 /\ j # (m + 1) + 1
        BY <1>1, <3>2 DEF m
      <4>2. Start(e, j) = t[j].seq
        BY <2>1, <2>3, <4>1 DEF Start
      <4>3. Start(c, j - 1) = c.slist[j - 1].seq
        BY <4>1 DEF Start, m
      <4> QED
        BY <2>1, <4>1, <4>2, <4>3
    <3> QED
      BY <3>1, <3>2
  <2>8. Tiled(e)
    <3>1. Start(e, 1) = e.snd_una
      <4>1. 1 \in 1 .. i
        BY <1>1
      <4> QED
        BY <2>3, <2>5, <4>1 DEF Sender, Tiled
    <3>2. ASSUME NEW j \in 1 .. m + 1 PROVE Start(e, j + 1) = t[j].seq + t[j].len
      <4>1. CASE j < i
        <5>1. j \in 1 .. i - 1 /\ j + 1 \in 1 .. i /\ j \in 1 .. m
          BY <1>1, <4>1 DEF m
        <5>2. Start(c, j + 1) = c.slist[j].seq + c.slist[j].len
          BY <5>1 DEF Sender, Tiled, m
        <5> QED
          BY <2>1, <2>5, <5>1, <5>2
      <4>2. CASE j = i
        BY <2>1, <2>6, <4>2
      <4>3. CASE j = i + 1
        <5>1. (i + 1) + 1 \in i + 2 .. m + 2 /\ ((i + 1) + 1) - 1 = i + 1 /\ i \in 1 .. m
          BY <1>1 DEF m
        <5>2. Start(e, (i + 1) + 1) = Start(c, i + 1)
          BY <2>7, <5>1
        <5>3. Start(c, i + 1) = c.slist[i].seq + c.slist[i].len
          BY DEF Sender, Tiled
        <5> QED
          BY <1>1, <2>1, <4>3, <5>2, <5>3
      <4>4. CASE j > i + 1
        <5>1. j \in i + 2 .. m + 1 /\ j - 1 \in 1 .. m /\ j + 1 \in i + 2 .. m + 2 /\ (j + 1) - 1 = j /\ (j - 1) + 1 = j
          BY <1>1, <4>4 DEF m
        <5>2. Start(e, j + 1) = Start(c, j)
          BY <2>7, <5>1
        <5>3. Start(c, (j - 1) + 1) = c.slist[j - 1].seq + c.slist[j - 1].len
          BY <5>1 DEF Sender, Tiled, m
        <5> QED
          BY <2>1, <5>1, <5>2, <5>3
      <4> QED
        BY <1>1, <4>1, <4>2, <4>3, <4>4
    <3> QED
      BY <2>1, <2>3, <3>1, <3>2 DEF Tiled
  \* Every segment of e is a segment of c or one of the two parts.
  <2>9. ASSUME NEW j \in 1 .. m + 1
        PROVE  j \in {i, i + 1} \/ \E h \in 1 .. m : t[j] = c.slist[h]
    <3>1. CASE j < i
      <4>1. j \in 1 .. i - 1 /\ j \in 1 .. m
        BY <1>1, <3>1 DEF m
      <4> QED
        BY <2>1, <4>1
    <3>2. CASE j > i + 1
      <4>1. j \in i + 2 .. m + 1 /\ j - 1 \in 1 .. m
        BY <1>1, <3>2 DEF m
      <4> QED
        BY <2>1, <4>1
    <3> QED
      BY <1>1, <3>1, <3>2
  <2>10. SentFirst(e)
    <3>1. ASSUME NEW j \in 1 .. m + 1
          PROVE  IF t[j].xmit > 0 THEN t[j].seq + t[j].len <= c.snd_nxt ELSE t[j].seq >= c.snd_nxt
      <4>1. \A h \in 1 .. m : IF c.slist[h].xmit > 0 THEN c.slist[h].seq + c.slist[h].len <= c.snd_nxt
                              ELSE c.slist[h].seq >= c.snd_nxt
        BY DEF Sender, SentFirst, m
      <4>2. CASE j = i
        <5>1. /\ t[j].seq = c.slist[i].seq /\ t[j].len < c.slist[i].len /\ t[j].len \in Nat
              /\ t[j].xmit = c.slist[i].xmit
          BY <1>3, <2>1, <4>2
        <5> QED
          BY <1>1, <4>1, <5>1
      <4>3. CASE j = i + 1
        <5>1. /\ t[j].seq = c.slist[i].seq + n /\ t[j].len = c.slist[i].len - n
              /\ t[j].xmit = c.slist[i].xmit
          BY <2>1, <4>3
        <5>2. t[j].seq >= c.slist[i].seq /\ t[j].seq + t[j].len = c.slist[i].seq + c.slist[i].len /\ t[j].seq \in Nat
          <6>1. \A a, b \in Nat : a + n >= a /\ (a + n) + (b - n) = a + b /\ a + n \in Nat
            OBVIOUS
          <6> QED
            BY <1>1, <5>1, <6>1
        <5>3. c.slist[i].xmit > 0 => c.slist[i].seq + c.slist[i].len <= c.snd_nxt
          BY <1>1, <4>1
        <5>4. ~(c.slist[i].xmit > 0) => c.slist[i].seq >= c.snd_nxt
          BY <1>1, <4>1
        <5> QED
          BY <1>1, <5>1, <5>2, <5>3, <5>4
      <4> QED
        BY <2>9, <4>1, <4>2, <4>3
    <3> QED
      BY <2>1, <2>3, <2>4, <3>1 DEF Sender, SentFirst
  <2>11. ConnectWhole(e)
    <3>1. ~c.slist[i].bCtrl /\ c.slist[i].seq >= ConnectLen
      BY <1>1, <1>3 DEF Sender, ConnectWhole
    <3>2. ASSUME NEW j \in 1 .. m + 1
          PROVE  IF t[j].bCtrl THEN t[j].seq = 0 /\ t[j].len = ConnectLen ELSE t[j].seq >= ConnectLen
      <4>1. \A h \in 1 .. m : IF c.slist[h].bCtrl THEN c.slist[h].seq = 0 /\ c.slist[h].len = ConnectLen
                              ELSE c.slist[h].seq >= ConnectLen
        BY DEF Sender, ConnectWhole, m
      <4>2. CASE j = i
        BY <2>1, <3>1, <4>2
      <4>3. CASE j = i + 1
        <5>1. t[j].seq = c.slist[i].seq + n /\ ~t[j].bCtrl
          BY <2>1, <3>1, <4>3
        <5> QED
          BY <1>1, <3>1, <5>1, Constants
      <4> QED
        BY <2>9, <4>1, <4>2, <4>3
    <3>3. c.slist # << >>
      BY <1>1
    <3> QED
      BY <2>1, <2>3, <3>2, <3>3 DEF Sender, ConnectWhole
  <2>12. RightSent(e)
    BY <2>3 DEF Sender, RightSent
  <2>13. KeepsCuts(c, e)
    <3> SUFFICES ASSUME NEW x \in Nat, NEW h \in 1 .. m, c.slist[h].xmit > 0, c.slist[h].seq = x
                 PROVE  \E j \in 1 .. m + 1 : t[j].xmit > 0 /\ t[j].seq = x
      <4>1. Len(e.slist) = m + 1 /\ e.slist = t /\ e.snd_una = c.snd_una /\ e.snd_nxt = c.snd_nxt /\ Len(c.slist) = m
        BY <2>1, <2>3 DEF m
      <4> QED
        BY <4>1 DEF KeepsCuts, Cut
    <3>1. CASE h < i
      <4>1. h \in 1 .. i - 1 /\ h \in 1 .. m + 1
        BY <1>1, <3>1
      <4> QED
        BY <2>1, <4>1
    <3>2. CASE h = i
      <4>1. i \in 1 .. m + 1
        BY <1>1 DEF m
      <4> QED
        BY <2>1, <3>2, <4>1
    <3>3. CASE h > i
      <4>1. h + 1 \in i + 2 .. m + 1 /\ h + 1 \in 1 .. m + 1 /\ (h + 1) - 1 = h
        BY <1>1, <3>3 DEF m
      <4> QED
        BY <2>1, <4>1
    <3> QED
      BY <1>1, <3>1, <3>2, <3>3
  <2>14. i \in 1 .. Len(e.slist)
    BY <1>1, <2>1, <2>3 DEF m
  <2> QED
    BY <1>3, <2>1, <2>3, <2>8, <2>10, <2>11, <2>12, <2>13, <2>14 DEF Sender
<1> QED
  BY <1>1, <1>2, <1>3

LEMMA Marking ==
  ASSUME NEW c \in Tcbs, Sender(c), NEW i \in 1 .. Len(c.slist),
         c.slist[i].xmit = 0 => c.slist[i].seq = c.snd_nxt,
         NEW e \in Tcbs, Marks(c, e, i)
  PROVE  /\ Sender(e) /\ KeepsCuts(c, e) /\ c.snd_nxt <= e.snd_nxt /\ e.snd_nxt > 0
         /\ Cut(e, c.slist[i].seq) /\ Cut(e, c.slist[i].seq + c.slist[i].len)
         /\ c.snd_nxt = 0 => c.slist[i].bCtrl
<1> DEFINE m == Len(c.slist)
           s == c.slist[i]
<1>1. /\ m \in Nat /\ i \in 1 .. m /\ s.len \in Nat /\ s.len > 0 /\ s.seq \in Nat /\ s.xmit \in Nat
      /\ c.snd_nxt \in Nat /\ c.snd_una \in Nat /\ End(c) \in Nat
  BY SegmentTypes, TcbTypes
<1>2. /\ e.sbuf = c.sbuf /\ e.snd_una = c.snd_una /\ e.snd_wnd = c.snd_wnd
      /\ e.recover = c.recover /\ e.cwnd = c.cwnd /\ e.rto
      /\ e.snd_nxt = IF s.xmit = 0 THEN c.snd_nxt + s.len ELSE c.snd_nxt
      /\ Len(e.slist) = m /\ e.slist[i].xmit > 0
  BY DEF Marks
<1>3. \A j \in 1 .. m : /\ e.slist[j].seq = c.slist[j].seq /\ e.slist[j].len = c.slist[j].len
                        /\ e.slist[j].bCtrl = c.slist[j].bCtrl
                        /\ j # i => e.slist[j].xmit = c.slist[j].xmit
  BY DEF Marks
<1>4. Tiled(c) /\ SentFirst(c) /\ ConnectWhole(c) /\ RightSent(c)
  BY DEF Sender
<1>5. c.snd_una <= s.seq /\ s.seq + s.len <= End(c)
  BY <1>4, InOrderSegments
<1>6. /\ c.snd_una <= c.snd_nxt /\ c.snd_nxt <= End(c) /\ c.recover <= c.snd_nxt
      /\ s.xmit > 0 => s.seq + s.len <= c.snd_nxt
  BY <1>4 DEF SentFirst
<1> HIDE DEF s
<1>7. /\ e.snd_nxt \in Nat /\ c.snd_nxt <= e.snd_nxt /\ e.snd_nxt <= End(c) /\ e.snd_nxt > c.snd_una
      /\ s.seq + s.len <= e.snd_nxt
  BY <1>1, <1>2, <1>5, <1>6 DEF s
<1>8. End(e) = End(c) /\ \A j \in 1 .. m + 1 : Start(e, j) = Start(c, j)
  <2>1. End(e) = End(c)
    BY <1>2 DEF End
  <2>2. \A j \in 1 .. m + 1 : j = m + 1 \/ j \in 1 .. m
    BY <1>1
  <2> QED
    BY <1>2, <1>3, <2>1, <2>2 DEF Start
<1>9. Tiled(e)
  <2>1. Start(e, 1) = e.snd_una
    <3>1. 1 \in 1 .. m + 1
      BY <1>1
    <3> QED
      BY <1>2, <1>4, <1>8, <3>1 DEF Tiled
  <2>2. ASSUME NEW j \in 1 .. m PROVE Start(e, j + 1) = e.slist[j].seq + e.slist[j].len
    <3>1. j + 1 \in 1 .. m + 1
      BY <1>1
    <3>2. Start(c, j + 1) = c.slist[j].seq + c.slist[j].len
      BY <1>4 DEF Tiled
    <3> QED
      BY <1>3, <1>8, <3>1, <3>2
  <2> QED
    BY <1>2, <2>1, <2>2 DEF Tiled
<1>10. ASSUME NEW j \in 1 .. m
       PROVE  IF e.slist[j].xmit > 0 THEN e.slist[j].seq + e.slist[j].len <= e.snd_nxt
              ELSE e.slist[j].seq >= e.snd_nxt
  <2>1. CASE j = i
    <3>1. e.slist[j].seq + e.slist[j].len = s.seq + s.len
      BY <1>3, <2>1 DEF s
    <3> QED
      BY <1>2, <1>7, <2>1, <3>1
  <2>2. CASE j # i
    <3>1. /\ e.slist[j].seq = c.slist[j].seq /\ e.slist[j].len = c.slist[j].len
          /\ e.slist[j].xmit = c.slist[j].xmit
      BY <1>3, <2>2
    <3>2. /\ c.slist[j].seq \in Nat /\ c.slist[j].len \in Nat /\ c.slist[j].len > 0 /\ c.slist[j].xmit \in Nat
      BY SegmentTypes
    <3>3. IF c.slist[j].xmit > 0 THEN c.slist[j].seq + c.slist[j].len <= c.snd_nxt
          ELSE c.slist[j].seq >= c.snd_nxt
      BY <1>4 DEF SentFirst
    <3>4. CASE c.slist[j].xmit > 0
      <4>1. c.slist[j].seq + c.slist[j].len <= c.snd_nxt
        BY <3>3, <3>4
      <4>2. c.slist[j].seq + c.slist[j].len <= e.snd_nxt
        BY <1>1, <1>7, <3>2, <4>1
      <4> QED
        BY <3>1, <3>4, <4>2
    <3>5. CASE ~(c.slist[j].xmit > 0)
      <4>1. c.slist[j].seq >= c.snd_nxt
        BY <3>3, <3>5
      <4>2. CASE s.xmit > 0
        BY <1>1, <1>2, <3>1, <3>5, <4>1, <4>2
      <4>3. CASE s.xmit = 0
        <5>1. s.seq = c.snd_nxt /\ e.snd_nxt = s.seq + s.len
          BY <1>2, <4>3 DEF s
        <5>2. CASE i < j
          <6>1. s.seq + s.len <= c.slist[j].seq
            BY <1>4, <5>2, InOrderSegments DEF s
          <6> QED
            BY <1>1, <3>1, <3>2, <3>5, <5>1, <6>1
        <5>3. CASE j < i
          <6>1. c.slist[j].seq + c.slist[j].len <= s.seq
            BY <1>4, <5>3, InOrderSegments DEF s
          <6> QED
            BY <1>1, <3>2, <4>1, <5>1, <6>1
        <5> QED
          BY <1>1, <2>2, <5>2, <5>3
      <4> QED
        BY <1>1, <4>2, <4>3
    <3> QED
      BY <3>4, <3>5
  <2> QED
    BY <2>1, <2>2
<1>11. SentFirst(e)
  <2>1. e.recover \in Nat
    BY TcbTypes
  <2>2. e.recover <= e.snd_nxt
    BY <1>1, <1>2, <1>6, <1>7, <2>1
  <2>3. e.rto <=> e.snd_nxt > e.snd_una
    BY <1>2, <1>7
  <2>4. e.snd_una <= e.snd_nxt /\ e.snd_nxt <= End(e)
    BY <1>1, <1>2, <1>7, <1>8
  <2> QED
    BY <1>2, <1>10, <2>2, <2>3, <2>4 DEF SentFirst
<1>12. ConnectWhole(e)
  <2>1. e.snd_nxt # 0
    BY <1>1, <1>7
  <2>2. \A j \in 1 .. m : IF c.slist[j].bCtrl THEN c.slist[j].seq = 0 /\ c.slist[j].len = ConnectLen
                          ELSE c.slist[j].seq >= ConnectLen
    BY <1>4 DEF ConnectWhole
  <2>3. \A j \in 1 .. m : IF e.slist[j].bCtrl THEN e.slist[j].seq = 0 /\ e.slist[j].len = ConnectLen
                          ELSE e.slist[j].seq >= ConnectLen
    BY <1>3, <2>2
  <2> QED
    BY <1>2, <2>1, <2>3 DEF ConnectWhole
<1>13. RightSent(e)
  BY <1>2, <1>4 DEF RightSent
<1>14. Cut(e, s.seq)
  <2>1. e.slist[i].xmit > 0 /\ e.slist[i].seq = s.seq /\ i \in 1 .. Len(e.slist)
    BY <1>1, <1>2, <1>3 DEF s
  <2>2. s.seq <= e.snd_nxt
    BY <1>1, <1>7
  <2> QED
    BY <2>1, <2>2 DEF Cut
<1>15. Cut(e, s.seq + s.len)
  <2>1. Start(e, i + 1) = s.seq + s.len
    <3>1. Start(c, i + 1) = s.seq + s.len
      BY <1>4 DEF Tiled, s
    <3>2. i + 1 \in 1 .. m + 1
      BY <1>1
    <3> QED
      BY <1>8, <3>1, <3>2
  <2>2. CASE i = m
    <3>1. s.seq + s.len = End(e)
      BY <1>2, <2>1, <2>2 DEF Start
    <3>2. s.seq + s.len = e.snd_nxt
      BY <1>1, <1>7, <1>8, <3>1
    <3> QED
      BY <1>7, <3>2 DEF Cut
  <2>3. CASE i # m
    <3> DEFINE j == i + 1
    <3>1. j \in 1 .. m /\ j # m + 1
      BY <1>1, <2>3
    <3>2. e.slist[j].seq = s.seq + s.len
      BY <1>2, <2>1, <3>1 DEF Start
    <3>3. e.slist[j].xmit > 0 \/ e.slist[j].seq >= e.snd_nxt
      BY <1>10, <3>1
    <3> HIDE DEF j
    <3>4. CASE e.slist[j].xmit > 0
      BY <1>2, <1>7, <3>1, <3>2, <3>4 DEF Cut
    <3>5. CASE e.slist[j].seq >= e.snd_nxt
      <4>1. s.seq + s.len = e.snd_nxt
        BY <1>1, <1>7, <3>2, <3>5
      <4> QED
        BY <1>7, <4>1 DEF Cut
    <3> QED
      BY <3>3, <3>4, <3>5
  <2> QED
    BY <2>2, <2>3
<1>16. KeepsCuts(c, e)
  <2> SUFFICES ASSUME NEW x \in Nat, Cut(c, x) PROVE Cut(e, x)
    BY DEF KeepsCuts
  <2>1. x <= c.snd_nxt /\ x <= e.snd_nxt
    BY <1>1, <1>7 DEF Cut
  <2>2. CASE x <= c.snd_una
    BY <1>2, <2>1, <2>2 DEF Cut
  <2>3. CASE x = c.snd_nxt
    <3>1. CASE s.xmit = 0
      BY <1>14, <2>3, <3>1 DEF s
    <3>2. CASE s.xmit # 0
      BY <1>2, <2>1, <2>3, <3>2 DEF Cut
    <3> QED
      BY <3>1, <3>2
  <2>4. ASSUME NEW j \in 1 .. m, c.slist[j].xmit > 0, c.slist[j].seq = x PROVE Cut(e, x)
    <3>1. e.slist[j].xmit > 0 /\ e.slist[j].seq = x
      BY <1>2, <1>3, <2>4
    <3> QED
      BY <1>2, <2>1, <3>1 DEF Cut
  <2> QED
    BY <2>2, <2>3, <2>4 DEF Cut
<1>17. c.snd_nxt = 0 => s.bCtrl
  <2> SUFFICES ASSUME c.snd_nxt = 0, ~s.bCtrl PROVE FALSE
    OBVIOUS
  <2>1. s.seq >= ConnectLen
    BY <1>4 DEF ConnectWhole, s
  <2>2. s.seq = 0
    <3>1. CASE s.xmit = 0
      BY <3>1 DEF s
    <3>2. CASE s.xmit # 0
      BY <1>1, <1>6, <3>2
    <3> QED
      BY <3>1, <3>2
  <2> QED
    BY <2>1, <2>2, Constants
<1> QED
  BY <1>1, <1>7, <1>9, <1>11, <1>12, <1>13, <1>14, <1>15, <1>16, <1>17 DEF Sender, s

-----------------------------------------------------------------------------
(* Packets of the sender *)

LEMMA PacketTypes ==
  ASSUME NEW k \in Packets
  PROVE  /\ k.seq \in Int /\ k.ack \in Nat /\ k.wnd \in Nat /\ k.ctl \in BOOLEAN
         /\ k.data \in Seq(Int) /\ Len(k.data) \in Nat /\ After(k) \in Int
         /\ (k.data # << >> <=> Len(k.data) > 0)
<1>1. /\ k.seq \in Int /\ k.ack \in Nat /\ k.wnd \in Nat /\ k.ctl \in BOOLEAN /\ k.data \in Seq(Int)
  BY DEF Packets
<1>2. Len(k.data) \in Nat /\ (k.data # << >> <=> Len(k.data) > 0)
  BY <1>1
<1> QED
  BY <1>1, <1>2 DEF After

LEMMA RightPosition ==
  ASSUME NEW k \in Packets, RightPacket(k), k.data # << >>
  PROVE  k.seq \in Nat /\ After(k) \in Nat /\ After(k) > k.seq
<1>1. k.seq = 0 \/ k.seq >= ConnectLen
  BY DEF RightPacket
<1>2. k.seq \in Int /\ Len(k.data) \in Nat /\ Len(k.data) > 0
  BY PacketTypes
<1> QED
  BY <1>1, <1>2, Constants DEF After

LEMMA SentByKept ==
  ASSUME NEW c, NEW e, SameRest(c, e), KeepsCuts(c, e), NEW k \in Packets, SentBy(c, k)
  PROVE  SentBy(e, k)
<1>1. k.ack = e.rcv_nxt /\ k.wnd = e.rcv_wnd /\ RightPacket(k)
  BY DEF SentBy, SameRest
<1>2. ASSUME k.data # << >> PROVE Cut(e, k.seq) /\ Cut(e, After(k))
  <2>1. k.seq \in Nat /\ After(k) \in Nat
    BY <1>1, <1>2, RightPosition
  <2>2. Cut(c, k.seq) /\ Cut(c, After(k))
    BY <1>2 DEF SentBy
  <2> QED
    BY <2>1, <2>2 DEF KeepsCuts
<1> QED
  BY <1>1, <1>2 DEF SentBy

LEMMA SendsTypes ==
  ASSUME NEW c \in Tcbs, NEW e, Sends(c, e)
  PROVE  /\ e \in Tcbs /\ Ready(e) /\ SameRest(c, e) /\ KeepsCuts(c, e) /\ Sender(e)
         /\ c.snd_nxt \in Nat /\ e.snd_nxt \in Nat /\ c.snd_nxt <= e.snd_nxt
         /\ c.snd_una \in Nat /\ c.snd_wnd \in Nat
<1>1. e \in Tcbs /\ Ready(e) /\ SameRest(c, e) /\ KeepsCuts(c, e) /\ Sender(e) /\ c.snd_nxt <= e.snd_nxt
  BY DEF Sends, Ready
<1> QED
  BY <1>1, TcbTypes

LEMMA SendsSelf ==
  ASSUME NEW c, Ready(c)
  PROVE  Sends(c, c)
<1>1. c \in Tcbs /\ c.snd_nxt \in Nat
  BY TcbTypes DEF Ready
<1> QED
  BY <1>1 DEF Sends, SameRest, KeepsCuts

LEMMA SendsTrans ==
  ASSUME NEW c \in Tcbs, NEW d, NEW e, Sends(c, d), Sends(d, e)
  PROVE  Sends(c, e)
<1>1. /\ d \in Tcbs /\ SameRest(c, d) /\ KeepsCuts(c, d) /\ c.snd_nxt <= d.snd_nxt
      /\ c.snd_nxt \in Nat /\ d.snd_nxt \in Nat /\ c.snd_una \in Nat /\ c.snd_wnd \in Nat
  BY SendsTypes
<1>2. /\ e \in Tcbs /\ Ready(e) /\ SameRest(d, e) /\ KeepsCuts(d, e) /\ d.snd_nxt <= e.snd_nxt
      /\ e.snd_nxt \in Nat
  BY <1>1, SendsTypes
<1>3. SameRest(c, e) /\ d.snd_una = c.snd_una /\ d.snd_wnd = c.snd_wnd
  BY <1>1, <1>2 DEF SameRest
<1>4. KeepsCuts(c, e)
  BY <1>1, <1>2 DEF KeepsCuts
<1>5. c.snd_nxt <= e.snd_nxt
  BY <1>1, <1>2
<1>6. e.snd_nxt = c.snd_nxt \/ e.snd_nxt <= c.snd_una + c.snd_wnd
  <2>1. d.snd_nxt = c.snd_nxt \/ d.snd_nxt <= c.snd_una + c.snd_wnd
    BY DEF Sends
  <2>2. e.snd_nxt = d.snd_nxt \/ e.snd_nxt <= c.snd_una + c.snd_wnd
    BY <1>3 DEF Sends
  <2> QED
    BY <2>1, <2>2
<1>7. c.out \subseteq d.out /\ d.out \subseteq e.out /\ e.out \subseteq Packets
  BY <1>2, TcbTypes DEF Sends
<1>8. ASSUME NEW k \in e.out \ c.out PROVE SentBy(e, k)
  <2>1. CASE k \in d.out
    <3>1. SentBy(d, k) /\ k \in Packets
      BY <1>7, <2>1 DEF Sends
    <3> QED
      BY <1>2, <3>1, SentByKept
  <2>2. CASE k \notin d.out
    BY <2>2 DEF Sends
  <2> QED
    BY <2>1, <2>2
<1>9. ASSUME c.snd_nxt = 0, e.snd_nxt > 0 PROVE \E k \in e.out : k.ctl
  <2>1. CASE d.snd_nxt = 0
    BY <1>9, <2>1 DEF Sends
  <2>2. CASE d.snd_nxt > 0
    <3>1. \E k \in d.out : k.ctl
      BY <1>9, <2>2 DEF Sends
    <3> QED
      BY <1>7, <3>1
  <2> QED
    BY <1>1, <2>1, <2>2
<1> QED
  BY <1>2, <1>3, <1>4, <1>5, <1>6, <1>7, <1>8, <1>9 DEF Sends

LEMMA Tuning ==
  ASSUME NEW c, Ready(c), NEW e, Tunes(c, e)
  PROVE  Sends(c, e)
<1>1. c \in Tcbs /\ Sender(c) /\ (c.rcv_nxt = 0 => c.rcv_wnd >= ConnectLen)
  BY DEF Ready
<1>2. /\ e \in Tcbs /\ SameRest(c, e) /\ e.slist = c.slist /\ e.snd_nxt = c.snd_nxt /\ e.rto = c.rto
      /\ e.out = c.out /\ e.recover <= c.snd_nxt /\ (c.snd_nxt = 0 => e.cwnd >= ConnectLen)
  BY DEF Tunes, Paces
<1>3. /\ e.sbuf = c.sbuf /\ e.snd_una = c.snd_una /\ e.snd_wnd = c.snd_wnd
      /\ e.rcv_nxt = c.rcv_nxt /\ e.rcv_wnd = c.rcv_wnd
  BY <1>2 DEF SameRest
<1>4. End(e) = End(c) /\ \A i : Start(e, i) = Start(c, i)
  BY <1>2, <1>3 DEF End, Start
<1>5. KeepsCuts(c, e)
  BY <1>2, <1>3 DEF KeepsCuts, Cut
<1>6. Tiled(e)
  BY <1>1, <1>2, <1>3, <1>4 DEF Tiled, Sender
<1>7. SentFirst(e)
  BY <1>1, <1>2, <1>3, <1>4 DEF SentFirst, Sender
<1>8. ConnectWhole(e)
  BY <1>1, <1>2, <1>3 DEF ConnectWhole, Sender
<1>9. RightSent(e)
  BY <1>1, <1>3 DEF RightSent, Sender
<1>10. Ready(e)
  BY <1>1, <1>2, <1>3, <1>6, <1>7, <1>8, <1>9 DEF Ready, Sender
<1>11. c.snd_nxt <= e.snd_nxt
  BY <1>1, <1>2, TcbTypes
<1> QED
  BY <1>2, <1>5, <1>10, <1>11, TcbTypes DEF Sends

PacketOf(c, seq, ctl, data) ==
  [seq |-> seq, ack |-> c.rcv_nxt, ctl |-> ctl, wnd |-> c.rcv_wnd, data |-> data]

LEMMA PacketOfIs ==
  ASSUME NEW c \in Tcbs, NEW seq \in Int, NEW ctl \in BOOLEAN, NEW data \in Seq(Int)
  PROVE  LET k == PacketOf(c, seq, ctl, data) IN
         /\ k \in Packets /\ k.seq = seq /\ k.ack = c.rcv_nxt /\ k.ctl = ctl
         /\ k.wnd = c.rcv_wnd /\ k.data = data
<1>1. c.rcv_nxt \in Nat /\ c.rcv_wnd \in Nat
  BY TcbTypes
<1> QED
  BY <1>1 DEF Packets, PacketOf

LEMMA PacketIs ==
  ASSUME NEW c \in Tcbs, NEW seq \in Int, NEW ctl \in BOOLEAN, NEW data \in Seq(Int)
  PROVE  LET e == packet(c, seq, ctl, data) IN
         /\ e \in Tcbs /\ SameRest(c, e) /\ SameSender(c, e) /\ e.slist = c.slist
         /\ e.out = IF c.room = 0 THEN c.out ELSE c.out \cup {PacketOf(c, seq, ctl, data)}
<1> DEFINE o == c.out \cup {PacketOf(c, seq, ctl, data)}
           r == c.room - 1
<1>1. c.room \in Nat /\ c.out \subseteq Packets
  BY TcbTypes
<1>2. o \in SUBSET Packets /\ (c.room # 0 => r \in Nat)
  BY <1>1, PacketOfIs
<1>3. CASE c.room = 0
  <2> DEFINE e == [c EXCEPT !.t_ack = FALSE]
  <2>1. packet(c, seq, ctl, data) = e
    BY <1>3 DEF packet
  <2>2. /\ e \in Tcbs /\ SameRest(c, e) /\ SameSender(c, e) /\ e.slist = c.slist /\ e.out = c.out
    BY DEF Tcbs, SameRest, SameSender
  <2> QED
    BY <1>3, <2>1, <2>2
<1>4. CASE c.room # 0
  <2> DEFINE e == [c EXCEPT !.out = o, !.room = r, !.t_ack = FALSE]
  <2>1. packet(c, seq, ctl, data) = e
    BY <1>4 DEF packet, PacketOf
  <2> HIDE DEF o, r
  <2>2. /\ e \in Tcbs /\ SameRest(c, e) /\ SameSender(c, e) /\ e.slist = c.slist /\ e.out = o
    BY <1>2, <1>4 DEF Tcbs, SameRest, SameSender
  <2> QED
    BY <1>4, <2>1, <2>2 DEF o
<1> QED
  BY <1>3, <1>4

\* A packet without data: an acknowledgement, a probe.
LEMMA AckPacket ==
  ASSUME NEW c, Ready(c), NEW seq \in Int
  PROVE  Sends(c, packet(c, seq, FALSE, << >>))
<1> DEFINE e == packet(c, seq, FALSE, << >>)
           k == PacketOf(c, seq, FALSE, << >>)
<1>1. c \in Tcbs /\ Sender(c) /\ (c.rcv_nxt = 0 => c.rcv_wnd >= ConnectLen)
  BY DEF Ready
<1>2. << >> \in Seq(Int) /\ FALSE \in BOOLEAN /\ c.snd_nxt \in Nat
  BY <1>1, TcbTypes
<1>3. /\ k.seq = seq /\ k.ack = c.rcv_nxt /\ k.ctl = FALSE /\ k.wnd = c.rcv_wnd /\ k.data = << >>
  BY DEF PacketOf
<1>4. /\ e \in Tcbs /\ SameRest(c, e) /\ SameSender(c, e) /\ e.slist = c.slist
      /\ e.out = IF c.room = 0 THEN c.out ELSE c.out \cup {k}
  BY <1>1, <1>2, PacketIs
<1> HIDE DEF e, k
<1>6. c.out \subseteq e.out /\ e.out \ c.out \subseteq {k}
  BY <1>4
<1>7. Sender(e) /\ KeepsCuts(c, e)
  BY <1>1, <1>4, SameSenderKeeps
<1>8. e.rcv_nxt = c.rcv_nxt /\ e.rcv_wnd = c.rcv_wnd /\ e.snd_nxt = c.snd_nxt
  BY <1>4 DEF SameRest, SameSender
<1>9. SentBy(e, k)
  BY <1>1, <1>3, <1>8 DEF SentBy, RightPacket
<1>10. Ready(e)
  BY <1>1, <1>4, <1>7, <1>8 DEF Ready
<1>11. \A j \in e.out \ c.out : SentBy(e, j)
  BY <1>6, <1>9
<1>12. Sends(c, e)
  BY <1>2, <1>4, <1>6, <1>7, <1>8, <1>10, <1>11 DEF Sends
<1> QED
  BY <1>12 DEF e

-----------------------------------------------------------------------------
(* Sending segments *)

\* The bytes of a segment, as read from the buffer, are the stream at its position.
LEMMA SegmentData ==
  ASSUME NEW c \in Tcbs, Sender(c), NEW i \in 1 .. Len(c.slist), NEW n \in Nat, n <= c.slist[i].len
  PROVE  LET data == ReadOffset(c.sbuf, n, c.slist[i].seq - c.snd_una) IN
         /\ data \in Seq(Int) /\ Len(data) = n
         /\ \A j \in 1 .. n : data[j] = Byte(c.slist[i].seq + j - 1)
<1> DEFINE o == c.slist[i].seq - c.snd_una
           data == ReadOffset(c.sbuf, n, o)
<1>0. c.sbuf \in Fifos(SndBufLen) /\ SndBufLen \in Nat
  BY TcbTypes, Constants
<1>1. /\ c.slist[i].seq \in Nat /\ c.slist[i].len \in Nat /\ c.snd_una \in Nat /\ Len(c.sbuf.data) \in Nat
  BY TcbTypes, SegmentTypes
<1>2. c.snd_una <= c.slist[i].seq /\ c.slist[i].seq + c.slist[i].len <= c.snd_una + Len(c.sbuf.data)
  BY InOrderSegments DEF Sender, End
<1>3. o \in Nat /\ o + n <= Len(c.sbuf.data)
  <2>1. \A q, l, y, z \in Nat : y <= q /\ q + l <= y + z /\ n <= l => q - y \in Nat /\ (q - y) + n <= z
    OBVIOUS
  <2> QED
    BY <1>1, <1>2, <2>1
<1>4. ASSUME NEW j \in 1 .. n
      PROVE  o + j \in 1 .. Len(c.sbuf.data) /\ c.snd_una + (o + j) - 1 = c.slist[i].seq + j - 1
  <2>1. \A q, y, z \in Nat : (q - y) \in Nat /\ (q - y) + n <= z =>
          (q - y) + j \in 1 .. z /\ y + ((q - y) + j) - 1 = q + j - 1
    OBVIOUS
  <2> QED
    BY <1>1, <1>3, <2>1
<1>5. \A h \in 1 .. Len(c.sbuf.data) : c.sbuf.data[h] = Byte(c.snd_una + h - 1)
  BY DEF Sender, RightSent
<1> HIDE DEF o
<1>6. /\ data \in Seq(Int) /\ Len(data) = n
      /\ \A j \in 1 .. n : data[j] = c.sbuf.data[o + j]
  BY <1>0, <1>3, ReadOffsetIs
<1> HIDE DEF data
<1>7. \A j \in 1 .. n : data[j] = Byte(c.slist[i].seq + j - 1)
  BY <1>4, <1>5, <1>6
<1> QED
  BY <1>6, <1>7 DEF data, o

\* What transmitting gives: a result and the connection after it.
SendsOr(c, r) == r.ok \in BOOLEAN /\ Sends(c, r.c) /\ (~r.ok => r.c.out = c.out)

LEMMA SendingSegment ==
  ASSUME NEW c, Ready(c), NEW i \in 1 .. Len(c.slist), NEW n \in Nat, 0 < n, n <= c.slist[i].len,
         c.slist[i].bCtrl => n >= c.slist[i].len,
         c.slist[i].xmit = 0 => c.slist[i].seq = c.snd_nxt /\ c.snd_nxt + n <= c.snd_una + c.snd_wnd
  PROVE  SendsOr(c, SendSegment(c, i, n))
<1> DEFINE s == c.slist[i]
           data == ReadOffset(c.sbuf, n, s.seq - c.snd_una)
           sent == packet(c, s.seq, s.bCtrl, data)
           k == PacketOf(c, s.seq, s.bCtrl, data)
           t == SplitAt(c.slist, i, n)
           u == [t EXCEPT ![i].xmit = @ + 1]
           x == IF s.xmit = 0 THEN c.snd_nxt + n ELSE c.snd_nxt
           d == [c EXCEPT !.slist = t]
           e == [sent EXCEPT !.slist = u, !.snd_nxt = x, !.rto = TRUE]
<1>1. c \in Tcbs /\ Sender(c) /\ (c.rcv_nxt = 0 => c.rcv_wnd >= ConnectLen)
  BY DEF Ready
<1>2. /\ c.room \in Nat /\ c.slist \in Seq(SSegments) /\ c.snd_nxt \in Nat /\ c.snd_una \in Nat /\ c.snd_wnd \in Nat
  BY <1>1, TcbTypes
<1>3. /\ s.seq \in Nat /\ s.len \in Nat /\ s.xmit \in Nat /\ s.bCtrl \in BOOLEAN
      /\ Len(c.slist) \in Nat
  BY <1>1, SegmentTypes
<1>4. SendSegment(c, i, n) = IF c.room = 0 THEN [ok |-> FALSE, c |-> c] ELSE [ok |-> TRUE, c |-> e]
  BY DEF SendSegment
<1>5. CASE c.room = 0
  BY <1>4, <1>5, SendsSelf DEF SendsOr
<1>6. CASE c.room # 0
  <2>1. /\ data \in Seq(Int) /\ Len(data) = n
        /\ \A j \in 1 .. n : data[j] = Byte(s.seq + j - 1)
    BY <1>1, SegmentData
  <2> HIDE DEF data
  <2>2. /\ k \in Packets /\ k.seq = s.seq /\ k.ack = c.rcv_nxt /\ k.ctl = s.bCtrl
        /\ k.wnd = c.rcv_wnd /\ k.data = data
    <3>1. s.seq \in Int
      BY <1>3
    <3> QED
      BY <1>1, <1>3, <2>1, <3>1, PacketOfIs
  <2>3. /\ sent \in Tcbs /\ SameRest(c, sent) /\ SameSender(c, sent) /\ sent.out = c.out \cup {k}
        /\ sent.slist = c.slist
    <3>1. s.seq \in Int
      BY <1>3
    <3> QED
      BY <1>1, <1>3, <1>6, <2>1, <3>1, PacketIs
  <2>0. t = SplitAt(c.slist, i, n) /\ x = IF s.xmit = 0 THEN c.snd_nxt + n ELSE c.snd_nxt
    OBVIOUS
  <2> HIDE DEF k, sent
  <2> HIDE DEF t, x, e
  <2>4. t \in Seq(SSegments) /\ Len(t) >= Len(c.slist) /\ Len(t) \in Nat
    <3>1. CASE n >= s.len
      BY <1>2, <1>3, <2>0, <3>1 DEF SplitAt
    <3>2. CASE n < s.len
      <4>1. t \in Seq(SSegments) /\ Len(t) = Len(c.slist) + 1
        BY <1>2, <2>0, <3>2, SplitIs
      <4> QED
        BY <1>3, <4>1
    <3> QED
      BY <1>3, <3>1, <3>2
  <2>5. d \in Tcbs /\ SameSender(c, d) /\ d.slist = t
    BY <1>1, <2>4 DEF Tcbs, SameSender
  <2> HIDE DEF d
  <2>6. /\ Sender(d) /\ KeepsCuts(c, d) /\ i \in 1 .. Len(d.slist)
        /\ d.slist[i].seq = s.seq /\ d.slist[i].xmit = s.xmit /\ d.slist[i].bCtrl = s.bCtrl
        /\ d.slist[i].len = IF n < s.len THEN n ELSE s.len
    BY <1>1, <2>0, <2>5, Splitting
  <2>7. d.slist[i].len = n
    BY <1>3, <2>6
  <2>8. /\ u \in Seq(SSegments) /\ Len(u) = Len(t) /\ u[i].xmit = t[i].xmit + 1
        /\ \A j \in 1 .. Len(t) : /\ u[j].seq = t[j].seq /\ u[j].len = t[j].len /\ u[j].bCtrl = t[j].bCtrl
                                  /\ j # i => u[j].xmit = t[j].xmit
    <3> DEFINE r == t[i]
               a == [r EXCEPT !.xmit = @ + 1]
    <3>1. r \in SSegments /\ i \in 1 .. Len(t)
      BY <2>4, <2>5, <2>6
    <3>2. u = [t EXCEPT ![i] = a] /\ r = t[i]
      OBVIOUS
    <3> HIDE DEF r
    <3>3. a \in SSegments /\ a.seq = r.seq /\ a.len = r.len /\ a.bCtrl = r.bCtrl /\ a.xmit = r.xmit + 1
      BY <3>1 DEF SSegments
    <3> HIDE DEF a, u
    <3>4. u \in Seq(SSegments) /\ Len(u) = Len(t) /\ u[i] = a /\ \A j \in 1 .. Len(t) : j # i => u[j] = t[j]
      BY <2>4, <3>1, <3>2, <3>3
    <3> QED
      BY <3>2, <3>3, <3>4
  <2> HIDE DEF u
  <2>9. x \in Nat
    BY <1>2, <2>0
  <2>10. /\ e \in Tcbs /\ e.slist = u /\ e.snd_nxt = x /\ e.rto = TRUE /\ e.out = sent.out
         /\ SameRest(sent, e) /\ e.recover = sent.recover /\ e.cwnd = sent.cwnd
    BY <2>3, <2>8, <2>9 DEF Tcbs, SameRest, e
  <2>11. SameRest(c, e)
    BY <2>3, <2>10 DEF SameRest
  <2>12. Marks(d, e, i)
    <3>1. e.recover = d.recover /\ e.cwnd = d.cwnd /\ d.snd_nxt = c.snd_nxt
      BY <2>3, <2>5, <2>10 DEF SameSender
    <3>2. e.sbuf = d.sbuf /\ e.snd_una = d.snd_una /\ e.snd_wnd = d.snd_wnd
      BY <2>5, <2>11 DEF SameSender, SameRest
    <3>3. e.snd_nxt = IF d.slist[i].xmit = 0 THEN d.snd_nxt + d.slist[i].len ELSE d.snd_nxt
      BY <2>6, <2>7, <2>0, <2>10, <3>1
    <3>4. e.slist[i].xmit > 0
      BY <1>3, <2>5, <2>6, <2>8, <2>10
    <3> QED
      BY <2>5, <2>8, <2>10, <3>1, <3>2, <3>3, <3>4 DEF Marks
  <2>13. d.slist[i].xmit = 0 => d.slist[i].seq = d.snd_nxt
    BY <2>5, <2>6 DEF SameSender
  <2>14. /\ Sender(e) /\ KeepsCuts(d, e) /\ d.snd_nxt <= e.snd_nxt /\ e.snd_nxt > 0
         /\ Cut(e, s.seq) /\ Cut(e, s.seq + n) /\ (d.snd_nxt = 0 => s.bCtrl)
    BY <2>5, <2>6, <2>7, <2>10, <2>12, <2>13, Marking
  <2>15. KeepsCuts(c, e) /\ d.snd_nxt = c.snd_nxt
    BY <2>5, <2>6, <2>14 DEF KeepsCuts, SameSender
  <2>16. RightPacket(k)
    <3>1. IF s.bCtrl THEN s.seq = 0 /\ s.len = ConnectLen ELSE s.seq >= ConnectLen
      BY <1>1 DEF Sender, ConnectWhole
    <3>2. s.bCtrl => n = ConnectLen
      BY <1>3, <3>1
    <3> QED
      BY <1>1, <2>1, <2>2, <3>1, <3>2 DEF RightPacket
  <2>17. SentBy(e, k)
    <3>1. After(k) = s.seq + n
      BY <2>1, <2>2 DEF After
    <3>2. e.rcv_nxt = c.rcv_nxt /\ e.rcv_wnd = c.rcv_wnd
      BY <2>11 DEF SameRest
    <3> QED
      BY <2>2, <2>14, <2>16, <3>1, <3>2 DEF SentBy
  <2>18. Ready(e)
    BY <1>1, <2>10, <2>11, <2>14 DEF Ready, SameRest
  <2>19. e.snd_nxt = c.snd_nxt \/ e.snd_nxt <= c.snd_una + c.snd_wnd
    BY <2>0, <2>10
  <2>20. c.snd_nxt = 0 => k.ctl
    BY <2>2, <2>14, <2>15
  <2>21. e.out = c.out \cup {k}
    BY <2>3, <2>10
  <2>22. Sends(c, e)
    BY <2>11, <2>14, <2>15, <2>17, <2>18, <2>19, <2>20, <2>21 DEF Sends
  <2> QED
    BY <1>4, <1>6, <2>22 DEF SendsOr
<1> QED
  BY <1>5, <1>6

LEMMA WithCwndIs ==
  ASSUME NEW c \in Tcbs, NEW w \in Nat, w > 0
  PROVE  LET e == WithCwnd(c, w) IN
         /\ Paces(c, e) /\ e.recover = c.recover /\ (w >= ConnectLen => e.cwnd >= ConnectLen)
         /\ e.level = c.level /\ e.room = c.room /\ e.t_ack = c.t_ack /\ e.dup_acks = c.dup_acks
         /\ e.ssthresh = c.ssthresh
<1> DEFINE v == Min({w, MaxCwnd})
           e == [c EXCEPT !.cwnd = v]
<1>1. v = IF w <= MaxCwnd THEN w ELSE MaxCwnd
  <2>1. w \in Int /\ MaxCwnd \in Int
    BY Constants
  <2> QED
    BY <2>1, MinTwo
<1>2. v \in Nat \ {0} /\ (w >= ConnectLen => v >= ConnectLen)
  BY <1>1, Constants
<1>3. WithCwnd(c, w) = e
  BY DEF WithCwnd
<1> HIDE DEF v
<1>4. e \in Tcbs /\ e.cwnd = v /\ e.recover = c.recover /\ e.slist = c.slist /\ e.snd_nxt = c.snd_nxt
      /\ e.rto = c.rto /\ e.out = c.out /\ e.level = c.level /\ e.room = c.room /\ e.t_ack = c.t_ack
      /\ e.dup_acks = c.dup_acks /\ e.ssthresh = c.ssthresh
  BY <1>2 DEF Tcbs
<1>5. SameRest(c, e)
  BY DEF Tcbs, SameRest
<1> QED
  BY <1>2, <1>3, <1>4, <1>5 DEF Paces

\* The recovery point never passes snd_nxt.
LEMMA Repaced ==
  ASSUME NEW c, Ready(c), NEW e, Paces(c, e), e.recover = c.recover, c.snd_nxt = 0 => e.cwnd >= ConnectLen
  PROVE  Sends(c, e)
<1>1. c.recover <= c.snd_nxt
  BY DEF Ready, Sender, SentFirst
<1>2. Tunes(c, e)
  BY <1>1 DEF Tunes
<1> QED
  BY <1>2, Tuning

LEMMA LevelFits ==
  ASSUME NEW c \in Tcbs, NEW n \in Nat, n <= m_mss(c)
  PROVE  FittingLevel(c, n) \in 1 .. Len(MssLevels)
<1> DEFINE m == Len(MssLevels)
           T == {l \in c.level + 1 .. m : MssLevels[l] <= PathMss}
<1>1. c.level \in 1 .. m /\ m \in Nat /\ MssLevels[m] <= PathMss
  BY TcbTypes, Levels
<1>2. CASE n <= PathMss
  BY <1>1, <1>2 DEF FittingLevel
<1>3. CASE ~(n <= PathMss)
  <2>1. c.level # m
    <3> SUFFICES ASSUME c.level = m PROVE FALSE
      OBVIOUS
    <3>1. m_mss(c) = MssLevels[m] /\ MssLevels[m] \in Nat
      BY <1>1, Levels DEF m_mss
    <3> QED
      BY <1>1, <1>3, <3>1, Constants
  <2>2. m \in T
    BY <1>1, <2>1
  <2>3. T \in SUBSET Nat /\ T # {}
    BY <1>1, <2>2
  <2>4. Min(T) \in T
    <3> HIDE DEF T
    <3> QED
      BY <2>3, MinOfSet
  <2>5. FittingLevel(c, n) = Min(T)
    BY <1>3 DEF FittingLevel
  <2> QED
    BY <1>1, <2>4, <2>5
<1> QED
  BY <1>2, <1>3

LEMMA AtLevelIs ==
  ASSUME NEW c, Ready(c), NEW l \in 1 .. Len(MssLevels)
  PROVE  LET e == AtLevel(c, l) IN Sends(c, e) /\ Paces(c, e)
<1>1. c \in Tcbs /\ MssLevels[l] \in Nat /\ MssLevels[l] > 0 /\ MssLevels[l] >= ConnectLen
  BY Levels DEF Ready
<1>2. CASE l = c.level
  <2>1. AtLevel(c, l) = c
    BY <1>2 DEF AtLevel
  <2>2. Paces(c, c)
    BY <1>1 DEF Paces, SameRest
  <2> QED
    BY <2>1, <2>2, SendsSelf
<1>3. CASE l # c.level
  <2> DEFINE d == [c EXCEPT !.level = l]
             w == 2 * MssLevels[l]
             e == WithCwnd(d, w)
  <2>1. AtLevel(c, l) = e
    BY <1>3 DEF AtLevel
  <2>2. w \in Nat /\ w > 0 /\ w >= ConnectLen
    BY <1>1, Constants
  <2> HIDE DEF w
  <2>3. d \in Tcbs /\ d.recover = c.recover
    BY <1>1 DEF Tcbs
  <2>4. Paces(c, d)
    BY <1>1, <2>3 DEF Tcbs, Paces, SameRest
  <2> HIDE DEF d
  <2>5. Paces(d, e) /\ e.recover = d.recover /\ e.cwnd >= ConnectLen
    BY <2>2, <2>3, WithCwndIs
  <2> HIDE DEF e
  <2>6. Paces(c, e) /\ e.recover = c.recover
    BY <2>3, <2>4, <2>5 DEF Paces, SameRest
  <2>7. Sends(c, e)
    BY <2>5, <2>6, Repaced
  <2> QED
    BY <2>1, <2>6, <2>7
<1> QED
  BY <1>2, <1>3

LEMMA Transmitting ==
  ASSUME NEW c, Ready(c), NEW i \in 1 .. Len(c.slist),
         c.slist[i].xmit = 0 =>
           c.slist[i].seq = c.snd_nxt /\ c.snd_nxt + c.slist[i].len <= c.snd_una + c.snd_wnd
  PROVE  SendsOr(c, transmit(c, i))
<1> DEFINE s == c.slist[i]
           limit == IF c.state = "ESTABLISHED" THEN MaxXmit ELSE MaxXmitConnect
           m == Min({s.len, m_mss(c)})
           level == FittingLevel(c, m)
           d == AtLevel(c, level)
           n == Min({s.len, MssLevels[level]})
           r == SendSegment(d, i, n)
<1>1. transmit(c, i) = IF s.xmit >= limit THEN [ok |-> FALSE, c |-> c] ELSE r
  BY DEF transmit
<1>2. c \in Tcbs /\ Sender(c)
  BY DEF Ready
<1>3. s.len \in Nat /\ s.len > 0 /\ c.snd_nxt \in Nat /\ c.snd_una \in Nat /\ c.snd_wnd \in Nat
  BY <1>2, SegmentTypes, TcbTypes
<1>4. m_mss(c) \in Nat
  BY <1>2, TcbTypes, Levels DEF m_mss
<1>5. m = IF s.len <= m_mss(c) THEN s.len ELSE m_mss(c)
  <2>1. s.len \in Int /\ m_mss(c) \in Int
    BY <1>3, <1>4
  <2> QED
    BY <2>1, MinTwo
<1>6. level \in 1 .. Len(MssLevels)
  <2>1. m \in Nat /\ m <= m_mss(c)
    BY <1>3, <1>4, <1>5
  <2> HIDE DEF m
  <2> QED
    BY <1>2, <2>1, LevelFits
<1> HIDE DEF level
<1>7. MssLevels[level] \in Nat /\ MssLevels[level] > 0 /\ MssLevels[level] >= ConnectLen
  BY <1>6, Levels
<1>8. n = IF s.len <= MssLevels[level] THEN s.len ELSE MssLevels[level]
  <2>1. s.len \in Int /\ MssLevels[level] \in Int
    BY <1>3, <1>7
  <2> QED
    BY <2>1, MinTwo
<1>9. n \in Nat /\ 0 < n /\ n <= s.len
  BY <1>3, <1>7, <1>8
<1>10. s.bCtrl => n >= s.len
  <2>1. s.bCtrl => s.len = ConnectLen
    BY <1>2 DEF Sender, ConnectWhole
  <2> QED
    BY <1>3, <1>7, <1>8, <2>1
<1>11. Sends(c, d) /\ Paces(c, d)
  BY <1>6, AtLevelIs
<1> HIDE DEF d, n
<1>12. /\ Ready(d) /\ d.slist = c.slist /\ d.snd_nxt = c.snd_nxt /\ d.out = c.out
       /\ d.snd_una = c.snd_una /\ d.snd_wnd = c.snd_wnd
  BY <1>11 DEF Sends, Paces, SameRest
<1>13. s.xmit = 0 => s.seq = d.snd_nxt /\ d.snd_nxt + n <= d.snd_una + d.snd_wnd
  BY <1>3, <1>9, <1>12
<1>14. SendsOr(d, r)
  <2>1. i \in 1 .. Len(d.slist) /\ d.slist[i] = s
    BY <1>12
  <2> HIDE DEF s
  <2> QED
    BY <1>9, <1>10, <1>12, <1>13, <2>1, SendingSegment
<1> HIDE DEF r
<1>15. SendsOr(c, r)
  BY <1>2, <1>11, <1>12, <1>14, SendsTrans DEF SendsOr
<1>16. CASE s.xmit >= limit
  BY <1>1, <1>16, SendsSelf DEF SendsOr
<1> QED
  BY <1>1, <1>15, <1>16

-----------------------------------------------------------------------------
(* attemptSend *)

\* What may be sent is in the buffer and in the window, and is the whole connect message.
LEMMA SendableIs ==
  ASSUME NEW c, Ready(c)
  PROVE  /\ Sendable(c) \in Nat /\ Sendable(c) <= End(c) - c.snd_nxt
         /\ Sendable(c) > 0 => c.snd_nxt + Sendable(c) <= c.snd_una + c.snd_wnd
         /\ c.snd_nxt = 0 /\ c.cwnd >= ConnectLen /\ c.snd_wnd >= ConnectLen /\ End(c) >= ConnectLen
              => Sendable(c) >= ConnectLen
<1> DEFINE mss == m_mss(c)
           f == InFlight(c)
           cwnd == c.cwnd + IF c.dup_acks \in {1, 2} THEN c.dup_acks * mss ELSE 0
           nWindow == Min({c.snd_wnd, cwnd})
           nUseable == Max({nWindow - f, 0})
           b == GetBuffered(c.sbuf) - f
           nAvailable == Min({b, mss})
<1>1. /\ c \in Tcbs /\ c.snd_nxt \in Nat /\ c.snd_una \in Nat /\ c.snd_wnd \in Nat /\ End(c) \in Nat
      /\ c.cwnd \in Nat /\ Len(c.sbuf.data) \in Nat /\ c.dup_acks \in 0 .. 4
  BY TcbTypes, SegmentTypes DEF Ready
<1>2. mss \in Nat /\ mss > 0 /\ mss >= ConnectLen
  BY <1>1, TcbTypes, Levels DEF m_mss
<1>3. c.snd_una <= c.snd_nxt /\ c.snd_nxt <= End(c)
  BY DEF Ready, Sender, SentFirst
<1>4. f \in Nat /\ f = c.snd_nxt - c.snd_una
  BY <1>1, <1>3 DEF InFlight
<1>5. b \in Nat /\ b = End(c) - c.snd_nxt
  BY <1>1, <1>3, <1>4 DEF GetBuffered, End
<1> HIDE DEF mss, f
<1>6. cwnd \in Nat /\ cwnd >= c.cwnd
  <2>1. CASE c.dup_acks = 1
    BY <1>1, <1>2, <2>1
  <2>2. CASE c.dup_acks = 2
    BY <1>1, <1>2, <2>2
  <2>3. CASE c.dup_acks \notin {1, 2}
    BY <1>1, <2>3
  <2> QED
    BY <2>1, <2>2, <2>3
<1> HIDE DEF cwnd, b
<1>7. nWindow = IF c.snd_wnd <= cwnd THEN c.snd_wnd ELSE cwnd
  <2>1. c.snd_wnd \in Int /\ cwnd \in Int
    BY <1>1, <1>6
  <2> QED
    BY <2>1, MinTwo
<1>8. nWindow \in Nat /\ nWindow <= c.snd_wnd
  BY <1>1, <1>6, <1>7
<1> HIDE DEF nWindow
<1>9. nUseable = IF nWindow - f >= 0 THEN nWindow - f ELSE 0
  <2>1. nWindow - f \in Int /\ 0 \in Int
    BY <1>4, <1>8
  <2> QED
    BY <2>1, MaxTwo
<1>10. nUseable \in Nat /\ (nUseable > 0 => nUseable = nWindow - f)
  BY <1>4, <1>8, <1>9
<1>11. nAvailable = IF b <= mss THEN b ELSE mss
  <2>1. b \in Int /\ mss \in Int
    BY <1>2, <1>5
  <2> QED
    BY <2>1, MinTwo
<1>12. nAvailable \in Nat /\ nAvailable <= b
  BY <1>2, <1>5, <1>11
<1>13. Sendable(c) = IF nAvailable <= nUseable THEN nAvailable
                     ELSE IF nUseable * 4 < nWindow THEN 0 ELSE nUseable
  BY DEF Sendable, mss, f, cwnd, nWindow, b
<1> HIDE DEF nUseable, nAvailable
<1>14. Sendable(c) \in Nat /\ Sendable(c) <= b /\ Sendable(c) <= nUseable
  BY <1>5, <1>10, <1>12, <1>13
<1>15. Sendable(c) > 0 => c.snd_nxt + Sendable(c) <= c.snd_una + c.snd_wnd
  BY <1>1, <1>4, <1>8, <1>10, <1>14
<1>16. ASSUME c.snd_nxt = 0, c.cwnd >= ConnectLen, c.snd_wnd >= ConnectLen, End(c) >= ConnectLen
       PROVE  Sendable(c) >= ConnectLen
  <2>1. f = 0 /\ b >= ConnectLen
    BY <1>1, <1>3, <1>4, <1>5, <1>16
  <2>2. nAvailable >= ConnectLen
    BY <1>2, <1>11, <2>1
  <2>3. nWindow >= ConnectLen
    BY <1>1, <1>6, <1>7, <1>16, Constants
  <2>4. nUseable = nWindow
    BY <1>8, <1>9, <2>1
  <2>5. ~(nUseable * 4 < nWindow)
    BY <1>8, <2>4
  <2> QED
    BY <1>13, <2>2, <2>3, <2>4, <2>5
<1> QED
  BY <1>5, <1>14, <1>15, <1>16

\* The segment that attemptSend sends next, cut to what may be sent.
LEMMA NextSegment ==
  ASSUME NEW c, Ready(c), Sendable(c) # 0,
         NEW i, i = SelectInSeq(c.slist, LAMBDA s : s.xmit = 0)
  PROVE  LET d == [c EXCEPT !.slist = SplitAt(@, i, Sendable(c))] IN
         /\ Sends(c, d) /\ i \in 1 .. Len(d.slist)
         /\ d.slist[i].seq = d.snd_nxt /\ d.snd_nxt + d.slist[i].len <= d.snd_una + d.snd_wnd
         /\ d.out = c.out
<1> DEFINE n == Sendable(c)
           I == {j \in 1 .. Len(c.slist) : c.slist[j].xmit = 0}
           t == SplitAt(c.slist, i, n)
           d == [c EXCEPT !.slist = t]
<1>1. /\ c \in Tcbs /\ Sender(c) /\ c.snd_nxt \in Nat /\ c.snd_una \in Nat /\ c.snd_wnd \in Nat
      /\ End(c) \in Nat /\ Len(c.slist) \in Nat /\ c.slist \in Seq(SSegments)
  BY TcbTypes, SegmentTypes DEF Ready
<1>2. Tiled(c) /\ SentFirst(c) /\ ConnectWhole(c)
  BY <1>1 DEF Sender
<1>3. n \in Nat /\ 0 < n /\ n <= End(c) - c.snd_nxt /\ c.snd_nxt + n <= c.snd_una + c.snd_wnd
  BY SendableIs
<1> HIDE DEF n
<1>4. Len(c.slist) \in I
  <2>1. c.snd_nxt < End(c)
    BY <1>1, <1>3
  <2> QED
    BY <1>1, <1>2, <2>1, LastUnsent
<1>5. i \in I /\ \A j \in I : i <= j
  <2>1. I # {} /\ I \in SUBSET Nat
    BY <1>4
  <2>2. i = Min(I)
    BY <2>1 DEF SelectInSeq
  <2> HIDE DEF I
  <2> QED
    BY <2>1, <2>2, MinOfSet
<1>6. i \in 1 .. Len(c.slist) /\ c.slist[i].xmit = 0 /\ i \in Nat
  BY <1>1, <1>5
<1>7. \A j \in 1 .. i - 1 : c.slist[j].xmit > 0
  <2> SUFFICES ASSUME NEW j \in 1 .. i - 1 PROVE c.slist[j].xmit > 0
    OBVIOUS
  <2>1. j \in 1 .. Len(c.slist) /\ ~(i <= j)
    BY <1>1, <1>6
  <2>2. j \notin I
    BY <1>5, <2>1
  <2>3. c.slist[j].xmit \in Nat
    BY <1>1, <2>1, SegmentTypes
  <2> QED
    BY <2>1, <2>2, <2>3
<1> HIDE DEF I
<1>8. c.slist[i].seq = c.snd_nxt
  BY <1>1, <1>2, <1>6, <1>7, FirstUnsent
<1>9. /\ c.slist[i].len \in Nat /\ c.slist[i].len > 0 /\ c.slist[i].seq \in Nat
      /\ c.slist[i].seq + c.slist[i].len <= End(c)
  BY <1>1, <1>2, <1>6, SegmentTypes, InOrderSegments
<1>10. c.slist[i].bCtrl => n >= c.slist[i].len
  <2> SUFFICES ASSUME c.slist[i].bCtrl PROVE n >= c.slist[i].len
    OBVIOUS
  <2>1. c.slist[i].seq = 0 /\ c.slist[i].len = ConnectLen
    BY <1>2, <1>6 DEF ConnectWhole
  <2>2. c.snd_nxt = 0 /\ End(c) >= ConnectLen
    BY <1>1, <1>8, <1>9, <2>1, Constants
  <2>3. c.slist # << >>
    BY <1>1, <1>6
  <2>4. c.cwnd >= ConnectLen /\ c.snd_wnd >= ConnectLen
    BY <1>2, <2>2, <2>3 DEF ConnectWhole
  <2> QED
    BY <2>1, <2>2, <2>4, SendableIs DEF n
<1>11. t \in Seq(SSegments)
  <2>1. CASE n >= c.slist[i].len
    BY <1>1, <2>1 DEF SplitAt
  <2>2. CASE n < c.slist[i].len
    BY <1>1, <1>3, <1>6, <2>2, SplitIs
  <2> QED
    BY <1>3, <1>9, <2>1, <2>2
<1>12. t = SplitAt(c.slist, i, n)
  OBVIOUS
<1> HIDE DEF t
<1>13. d \in Tcbs /\ SameSender(c, d) /\ SameRest(c, d) /\ d.slist = t /\ d.out = c.out
  BY <1>1, <1>11 DEF Tcbs, SameSender, SameRest
<1> HIDE DEF d
<1>14. /\ Sender(d) /\ KeepsCuts(c, d) /\ i \in 1 .. Len(d.slist)
       /\ d.slist[i].seq = c.slist[i].seq
       /\ d.slist[i].len = IF n < c.slist[i].len THEN n ELSE c.slist[i].len
  BY <1>1, <1>3, <1>6, <1>10, <1>12, <1>13, Splitting
<1>15. /\ d.snd_nxt = c.snd_nxt /\ d.snd_una = c.snd_una /\ d.snd_wnd = c.snd_wnd
       /\ d.rcv_nxt = c.rcv_nxt /\ d.rcv_wnd = c.rcv_wnd
  BY <1>13 DEF SameSender, SameRest
<1>16. Ready(d)
  BY <1>13, <1>14, <1>15 DEF Ready
<1>17. Sends(c, d)
  BY <1>1, <1>13, <1>14, <1>15, <1>16 DEF Sends
<1>18. d.snd_nxt + d.slist[i].len <= d.snd_una + d.snd_wnd
  <2>1. d.slist[i].len \in Nat /\ d.slist[i].len <= n
    <3>1. CASE n < c.slist[i].len
      BY <1>3, <1>14, <3>1
    <3>2. CASE ~(n < c.slist[i].len)
      BY <1>3, <1>9, <1>14, <3>2
    <3> QED
      BY <3>1, <3>2
  <2>2. c.snd_nxt + d.slist[i].len <= c.snd_una + c.snd_wnd
    BY <1>1, <1>3, <2>1
  <2> QED
    BY <1>15, <2>2
<1>19. d.slist[i].seq = d.snd_nxt
  BY <1>8, <1>14, <1>15
<1>20. d = [c EXCEPT !.slist = SplitAt(@, i, Sendable(c))]
  BY DEF d, t, n
<1> QED
  BY <1>13, <1>14, <1>17, <1>18, <1>19, <1>20

Flags == {"None", "ImmediateAck", "DelayedAck"}

\* The turns of attemptSend that send from c.
Turns(c) == {t \in [c : Tcbs, flags : Flags, done : BOOLEAN] : Sends(c, t.c)}

LEMMA TurnIs ==
  ASSUME NEW c \in Tcbs, NEW t \in Turns(c)
  PROVE  SendTurn(t) \in Turns(c)
<1> DEFINE d == t.c
           n == Sendable(d)
           i == SelectInSeq(d.slist, LAMBDA s : s.xmit = 0)
           e == [d EXCEPT !.slist = SplitAt(@, i, n)]
           r == transmit(e, i)
           z == [d EXCEPT !.t_ack = TRUE]
           a == packet(d, d.snd_nxt, FALSE, << >>)
           Done(x) == [t EXCEPT !.c = x, !.done = TRUE]
<1>1. t \in [c : Tcbs, flags : Flags, done : BOOLEAN] /\ Sends(c, d)
  BY DEF Turns
<1>2. d \in Tcbs /\ Ready(d)
  BY <1>1, SendsTypes
<1>3. ASSUME NEW x, Sends(d, x) PROVE Done(x) \in Turns(c)
  <2>1. Sends(c, x) /\ x \in Tcbs
    BY <1>1, <1>2, <1>3, SendsTrans, SendsTypes
  <2> QED
    BY <1>1, <2>1 DEF Turns
<1>4. CASE t.done
  BY <1>4 DEF SendTurn
<1>5. CASE ~t.done /\ n = 0
  <2>1. Sends(d, d)
    BY <1>2, SendsSelf
  <2>2. Sends(d, a)
    <3>1. d.snd_nxt \in Int
      BY <1>2, TcbTypes
    <3> QED
      BY <1>2, <3>1, AckPacket
  <2>3. Sends(d, z)
    <3>1. z \in Tcbs /\ z.recover = d.recover /\ z.cwnd = d.cwnd /\ Paces(d, z)
      BY <1>2 DEF Tcbs, Paces, SameRest
    <3>2. d.snd_nxt = 0 => d.cwnd >= ConnectLen
      BY <1>2 DEF Ready, Sender, ConnectWhole
    <3> HIDE DEF z
    <3> QED
      BY <1>2, <3>1, <3>2, Repaced
  <2>4. SendTurn(t) = Done(CASE t.flags = "None" -> d
                             [] t.flags = "ImmediateAck" \/ (t.flags = "DelayedAck" /\ d.t_ack) -> a
                             [] OTHER -> z)
    BY <1>5 DEF SendTurn
  <2>5. Done(d) \in Turns(c) /\ Done(a) \in Turns(c) /\ Done(z) \in Turns(c)
    BY <1>3, <2>1, <2>2, <2>3
  <2> DEFINE y == CASE t.flags = "None" -> d
                    [] t.flags = "ImmediateAck" \/ (t.flags = "DelayedAck" /\ d.t_ack) -> a
                    [] OTHER -> z
  <2> HIDE DEF d, a, z, Done
  <2>6. y \in {d, a, z}
    OBVIOUS
  <2> HIDE DEF y
  <2>7. SendTurn(t) = Done(y)
    BY <2>4 DEF y
  <2> QED
    BY <2>5, <2>6, <2>7
<1>6. CASE ~t.done /\ n # 0 /\ Nagling /\ InFlight(d) > 0 /\ n < m_mss(d)
  <2>1. SendTurn(t) = Done(d)
    BY <1>6 DEF SendTurn
  <2> HIDE DEF Done
  <2> QED
    BY <1>2, <1>3, <2>1, SendsSelf
<1>7. CASE ~t.done /\ n # 0 /\ ~(Nagling /\ InFlight(d) > 0 /\ n < m_mss(d))
  <2>1. SendTurn(t) = Transmitted(t, r)
    BY <1>7 DEF SendTurn
  <2>2. /\ Sends(d, e) /\ i \in 1 .. Len(e.slist)
        /\ e.slist[i].seq = e.snd_nxt /\ e.snd_nxt + e.slist[i].len <= e.snd_una + e.snd_wnd
    <3> HIDE DEF d, i
    <3>1. i = SelectInSeq(d.slist, LAMBDA s : s.xmit = 0)
      BY DEF i
    <3> QED
      BY <1>2, <1>7, <3>1, NextSegment
  <2> HIDE DEF e
  <2>3. Ready(e)
    BY <1>2, <2>2, SendsTypes
  <2> HIDE DEF i, d
  <2>4. SendsOr(e, r)
    BY <2>2, <2>3, Transmitting
  <2>5. r.ok \in BOOLEAN /\ Sends(d, r.c)
    BY <1>2, <2>2, <2>4, SendsTrans DEF SendsOr
  <2>6. CASE r.ok
    <3>1. SendTurn(t) = [c |-> r.c, flags |-> "None", done |-> FALSE]
      BY <2>1, <2>6 DEF Transmitted
    <3>2. r.c \in Tcbs /\ Sends(c, r.c)
      BY <1>1, <1>2, <2>5, SendsTypes, SendsTrans
    <3> HIDE DEF r
    <3> QED
      BY <3>1, <3>2 DEF Turns, Flags
  <2>7. CASE ~r.ok
    <3>1. SendTurn(t) = Done(r.c)
      BY <2>1, <2>7 DEF Transmitted
    <3> HIDE DEF Done, r
    <3> QED
      BY <1>3, <2>5, <3>1
  <2> QED
    BY <2>5, <2>6, <2>7
<1> QED
  BY <1>4, <1>5, <1>6, <1>7

LEMMA AttemptSendIs ==
  ASSUME NEW c, Ready(c), NEW flags \in Flags, NEW idle \in BOOLEAN
  PROVE  Sends(c, attemptSend(c, flags, idle))
<1> DEFINE m == GetBuffered(c.sbuf) + 1
           first == IF idle THEN WithCwnd(c, m_mss(c)) ELSE c
           a == [c |-> first, flags |-> flags, done |-> FALSE]
           G(f) == [k \in 0 .. m |-> IF k = 0 THEN a ELSE SendTurn(f[k - 1])]
           turn == CHOOSE f : f = G(f)
           S == Turns(c)
<1>1. c \in Tcbs
  BY DEF Ready
<1>2. m \in Nat
  BY <1>1, SegmentTypes DEF GetBuffered
<1>3. a \in S
  <2>1. Sends(c, first)
    <3>1. CASE idle
      <4>1. m_mss(c) \in Nat /\ m_mss(c) > 0 /\ m_mss(c) >= ConnectLen
        BY <1>1, TcbTypes, Levels DEF m_mss
      <4> DEFINE e == WithCwnd(c, m_mss(c))
      <4>2. Paces(c, e) /\ e.recover = c.recover /\ e.cwnd >= ConnectLen
        BY <1>1, <4>1, WithCwndIs
      <4> HIDE DEF e
      <4>3. Sends(c, e)
        BY <4>2, Repaced
      <4> QED
        BY <3>1, <4>3 DEF e
    <3>2. CASE ~idle
      BY <3>2, SendsSelf
    <3> QED
      BY <3>1, <3>2
  <2>2. first \in Tcbs
    BY <1>1, <2>1, SendsTypes
  <2> HIDE DEF first
  <2> QED
    BY <2>1, <2>2 DEF Turns
<1>4. \A t \in S : SendTurn(t) \in S
  BY <1>1, TurnIs
<1>5. attemptSend(c, flags, idle) = turn[m].c
  BY DEF attemptSend
<1> HIDE DEF a, S, m
<1>6. \E f : f = G(f)
  <2> DEFINE step == [k \in 1 .. m |-> [t \in S |-> SendTurn(t)]]
  <2>2. \A k \in 1 .. m : \A t \in S : step[k][t] = SendTurn(t)
    OBVIOUS
  <2>1. Steps(step, m, S)
    BY <1>4, <2>2 DEF Steps
  <2> HIDE DEF step
  <2>0. PICK f : Follows(f, step, a, m, S)
    BY <1>2, <1>3, <2>1, Recursion
  <2>3. f \in [0 .. m -> S] /\ f[0] = a /\ \A n \in 1 .. m : f[n] = step[n][f[n - 1]]
    BY <2>0 DEF Follows
  <2>4. \A k \in 0 .. m : k # 0 => k \in 1 .. m /\ k - 1 \in 0 .. m
    BY <1>2
  <2>5. \A k \in 0 .. m : f[k] = IF k = 0 THEN a ELSE SendTurn(f[k - 1])
    BY <2>2, <2>3, <2>4
  <2>6. f = G(f)
    BY <2>3, <2>5
  <2> QED
    BY <2>6
<1>7. turn = G(turn)
  <2> HIDE DEF G
  <2> QED
    BY <1>6
<1> HIDE DEF turn
<1>8. turn[0] = a /\ \A k \in 1 .. m : turn[k] = SendTurn(turn[k - 1])
  <2>1. 0 \in 0 .. m /\ \A k \in 1 .. m : k \in 0 .. m /\ k # 0
    BY <1>2
  <2>2. \A k \in 0 .. m : G(turn)[k] = IF k = 0 THEN a ELSE SendTurn(turn[k - 1])
    OBVIOUS
  <2> HIDE DEF G
  <2> QED
    BY <1>7, <2>1, <2>2
<1> DEFINE T == {k \in 0 .. m : turn[k] \in S}
<1>9. 0 .. m \subseteq T
  <2>1. 0 \in T
    BY <1>2, <1>3, <1>8
  <2>2. ASSUME NEW n \in 0 .. m - 1, n \in T PROVE n + 1 \in T
    <3>1. n + 1 \in 1 .. m /\ (n + 1) - 1 = n /\ n + 1 \in 0 .. m
      BY <1>2
    <3>2. turn[n + 1] = SendTurn(turn[n])
      BY <1>8, <3>1
    <3>3. turn[n] \in S
      BY <2>2
    <3> QED
      BY <1>4, <3>1, <3>2, <3>3
  <2> HIDE DEF T
  <2> QED
    BY <1>2, <2>1, <2>2, UpTo
<1>10. turn[m] \in S
  <2>1. m \in T
    BY <1>2, <1>9
  <2> QED
    BY <2>1
<1> QED
  BY <1>5, <1>10 DEF S, Turns

-----------------------------------------------------------------------------
(* Queueing data *)

\* Data may be queued that continues the stream and fits the buffer.
MayQueue(c, data, bCtrl) ==
  /\ data \in Seq(Int) /\ Len(data) > 0 /\ Len(c.sbuf.data) + Len(data) <= SndBufLen
  /\ \A i \in 1 .. Len(data) : data[i] = Byte(End(c) + i - 1)
  /\ bCtrl \in BOOLEAN
  /\ IF bCtrl THEN End(c) = 0 /\ Len(data) = ConnectLen /\ c.snd_wnd >= ConnectLen
     ELSE End(c) >= ConnectLen

LEMMA Queueing ==
  ASSUME NEW c \in Tcbs, Sender(c), NEW data, NEW bCtrl, MayQueue(c, data, bCtrl)
  PROVE  LET e == queue(c, data, bCtrl) IN
         /\ e \in Tcbs /\ Sender(e) /\ SameButQueue(c, e) /\ KeepsCuts(c, e)
         /\ End(e) = End(c) + Len(data)
<1> DEFINE m == Len(c.slist)
           l == Len(data)
           b == Write(c.sbuf, data)
           joins == m > 0 /\ c.slist[m].bCtrl = bCtrl /\ c.slist[m].xmit = 0
           new == [seq |-> c.snd_una + GetBuffered(c.sbuf), len |-> l, xmit |-> 0, bCtrl |-> bCtrl]
           t == IF joins THEN [c.slist EXCEPT ![m].len = @ + l] ELSE Append(c.slist, new)
           e == [c EXCEPT !.sbuf = b, !.slist = t]
<1>1. data \in Seq(Int) /\ l \in Nat /\ l > 0 /\ Len(c.sbuf.data) + l <= SndBufLen /\ bCtrl \in BOOLEAN
  BY DEF MayQueue
<1>2. /\ m \in Nat /\ c.slist \in Seq(SSegments) /\ c.snd_una \in Nat /\ c.snd_nxt \in Nat
      /\ c.sbuf \in Fifos(SndBufLen) /\ SndBufLen \in Nat /\ Len(c.sbuf.data) \in Nat /\ End(c) \in Nat
  BY TcbTypes, SegmentTypes, Constants
<1>3. queue(c, data, bCtrl) = e
  <2>1. GetWriteRemaining(c.sbuf) = SndBufLen - Len(c.sbuf.data)
    BY <1>2, CapacityIs
  <2>2. Min({l, GetWriteRemaining(c.sbuf)}) = l
    <3>1. l \in Int /\ GetWriteRemaining(c.sbuf) \in Int /\ l <= GetWriteRemaining(c.sbuf)
      BY <1>1, <1>2, <2>1
    <3> QED
      BY <3>1, MinTwo
  <2>3. SubSeq(data, 1, l) = data
    BY <1>1
  <2> DEFINE s == SubSeq(data, 1, Min({l, GetWriteRemaining(c.sbuf)}))
  <2>4. s = data
    BY <2>2, <2>3
  <2>5. queue(c, data, bCtrl) =
          [c EXCEPT !.sbuf = Write(@, s),
                    !.slist = IF joins THEN [c.slist EXCEPT ![m].len = @ + Len(s)]
                              ELSE Append(c.slist, [seq |-> c.snd_una + GetBuffered(c.sbuf), len |-> Len(s),
                                                    xmit |-> 0, bCtrl |-> bCtrl])]
    BY DEF queue
  <2> HIDE DEF s
  <2> QED
    BY <2>4, <2>5, Zenon
<1>4. /\ b \in Fifos(SndBufLen) /\ Len(b.data) = Len(c.sbuf.data) + l
      /\ \A i \in 1 .. Len(c.sbuf.data) : b.data[i] = c.sbuf.data[i]
      /\ \A i \in 1 .. l : b.data[Len(c.sbuf.data) + i] = data[i]
  <2> HIDE DEF b
  <2>1. b = Write(c.sbuf, data)
    BY DEF b
  <2>2. c.sbuf \in Fifos(SndBufLen) /\ SndBufLen \in Nat /\ data \in Seq(Int) /\ Len(c.sbuf.data) + Len(data) <= SndBufLen
    BY <1>1, <1>2
  <2> QED
    BY <2>1, <2>2, WriteIs
<1>5. End(c) = c.snd_una + GetBuffered(c.sbuf)
  BY DEF End, GetBuffered
<1>6. new \in SSegments /\ new.seq = End(c) /\ new.len = l /\ new.xmit = 0 /\ new.bCtrl = bCtrl
  BY <1>1, <1>2, <1>5 DEF SSegments
<1> HIDE DEF new, b
\* The list: as before up to its last segment, which is longer, or one more.
<1>7. /\ t \in Seq(SSegments) /\ Len(t) = IF joins THEN m ELSE m + 1
      /\ \A j \in 1 .. m : /\ t[j].seq = c.slist[j].seq /\ t[j].xmit = c.slist[j].xmit
                           /\ t[j].bCtrl = c.slist[j].bCtrl
                           /\ t[j].len = IF joins /\ j = m THEN c.slist[j].len + l ELSE c.slist[j].len
      /\ ~joins => t[m + 1] = new
  <2>1. CASE joins
    <3> DEFINE r == c.slist[m]
               a == [r EXCEPT !.len = @ + l]
    <3>1. r \in SSegments /\ m \in 1 .. m
      BY <1>2, <2>1
    <3>2. t = [c.slist EXCEPT ![m] = a] /\ r = c.slist[m]
      BY <2>1
    <3> HIDE DEF r
    <3>3. a \in SSegments /\ a.seq = r.seq /\ a.len = r.len + l /\ a.bCtrl = r.bCtrl /\ a.xmit = r.xmit
      BY <1>1, <3>1 DEF SSegments
    <3> HIDE DEF a, t
    <3>4. t \in Seq(SSegments) /\ Len(t) = m /\ t[m] = a /\ \A j \in 1 .. m : j # m => t[j] = c.slist[j]
      BY <1>2, <3>1, <3>2, <3>3
    <3> QED
      BY <2>1, <3>2, <3>3, <3>4
  <2>2. CASE ~joins
    <3>1. t = Append(c.slist, new)
      BY <2>2
    <3> HIDE DEF t
    <3>2. t \in Seq(SSegments) /\ Len(t) = m + 1 /\ t[m + 1] = new /\ \A j \in 1 .. m : t[j] = c.slist[j]
      BY <1>2, <1>6, <3>1
    <3> QED
      BY <2>2, <3>2
  <2> QED
    BY <2>1, <2>2
<1> HIDE DEF t
<1>8. e \in Tcbs /\ SameButQueue(c, e) /\ e.sbuf = b /\ e.slist = t
  BY <1>4, <1>7 DEF Tcbs, SameButQueue
<1> HIDE DEF e
<1>9. /\ e.snd_una = c.snd_una /\ e.snd_wnd = c.snd_wnd /\ e.snd_nxt = c.snd_nxt
      /\ e.recover = c.recover /\ e.cwnd = c.cwnd /\ e.rto = c.rto
  BY <1>8 DEF SameButQueue
<1>10. End(e) = End(c) + l
  BY <1>1, <1>2, <1>4, <1>8, <1>9 DEF End
<1>11. Tiled(c) /\ SentFirst(c) /\ ConnectWhole(c) /\ RightSent(c)
  BY DEF Sender
<1>12. joins => m \in 1 .. m /\ c.slist[m].seq + c.slist[m].len = End(c)
  <2> SUFFICES ASSUME joins PROVE m \in 1 .. m /\ c.slist[m].seq + c.slist[m].len = End(c)
    OBVIOUS
  <2>1. m \in 1 .. m
    BY <1>2
  <2>2. Start(c, m + 1) = c.slist[m].seq + c.slist[m].len
    BY <1>11, <2>1 DEF Tiled
  <2> QED
    BY <2>1, <2>2 DEF Start
<1> HIDE DEF joins
<1>13. \A j \in 1 .. m : c.slist[j].seq \in Nat /\ c.slist[j].len \in Nat /\ c.slist[j].xmit \in Nat
  BY SegmentTypes
<1>14. ASSUME NEW j \in 1 .. m PROVE Start(e, j) = c.slist[j].seq /\ Start(c, j) = c.slist[j].seq
  <2>1. j # Len(t) + 1 /\ j # m + 1
    BY <1>2, <1>7
  <2> QED
    BY <1>7, <1>8, <2>1 DEF Start
<1>15. ~joins => Start(e, m + 1) = End(c)
  BY <1>2, <1>6, <1>7, <1>8 DEF Start
<1>16. Start(e, Len(t) + 1) = End(c) + l
  BY <1>8, <1>10 DEF Start
<1>17. Tiled(e)
  <2>1. Start(e, 1) = e.snd_una
    <3>1. CASE m = 0
      <4>1. Start(c, 1) = End(c) /\ ~joins
        BY <1>12, <3>1 DEF Start
      <4> QED
        BY <1>9, <1>11, <1>15, <3>1, <4>1 DEF Tiled
    <3>2. CASE m # 0
      <4>1. 1 \in 1 .. m
        BY <1>2, <3>2
      <4> QED
        BY <1>9, <1>11, <1>14, <4>1 DEF Tiled
    <3> QED
      BY <3>1, <3>2
  <2>2. ASSUME NEW j \in 1 .. Len(t) PROVE Start(e, j + 1) = t[j].seq + t[j].len
    <3>1. CASE j < m
      <4>1. j \in 1 .. m /\ j + 1 \in 1 .. m /\ j # m
        BY <1>2, <3>1
      <4>2. Start(c, j + 1) = c.slist[j].seq + c.slist[j].len
        BY <1>11, <4>1 DEF Tiled
      <4> QED
        BY <1>7, <1>14, <4>1, <4>2
    <3>2. CASE j = m /\ joins
      <4>1. Start(e, j + 1) = End(c) + l
        BY <1>7, <1>16, <3>2
      <4>2. m \in 1 .. m /\ t[m].seq = c.slist[m].seq /\ t[m].len = c.slist[m].len + l
        BY <1>7, <1>12, <3>2
      <4> QED
        BY <1>1, <1>12, <1>13, <3>2, <4>1, <4>2
    <3>3. CASE j = m /\ ~joins
      <4>1. m \in 1 .. m /\ t[m].seq = c.slist[m].seq /\ t[m].len = c.slist[m].len
        BY <1>2, <1>7, <3>3
      <4>2. Start(c, m + 1) = c.slist[m].seq + c.slist[m].len
        BY <1>11, <4>1 DEF Tiled
      <4>3. Start(c, m + 1) = End(c)
        BY DEF Start
      <4> QED
        BY <1>15, <3>3, <4>1, <4>2, <4>3
    <3>4. CASE j > m
      <4>1. j = m + 1 /\ ~joins /\ Len(t) = m + 1
        BY <1>2, <1>7, <3>4
      <4>2. t[j].seq = End(c) /\ t[j].len = l
        BY <1>6, <1>7, <4>1
      <4> QED
        BY <1>16, <4>1, <4>2
    <3> QED
      BY <1>2, <3>1, <3>2, <3>3, <3>4
  <2> QED
    BY <1>8, <2>1, <2>2 DEF Tiled
<1>18. SentFirst(e)
  <2>1. ASSUME NEW j \in 1 .. Len(t)
        PROVE  IF t[j].xmit > 0 THEN t[j].seq + t[j].len <= c.snd_nxt ELSE t[j].seq >= c.snd_nxt
    <3>1. CASE j \in 1 .. m
      <4>1. IF c.slist[j].xmit > 0 THEN c.slist[j].seq + c.slist[j].len <= c.snd_nxt
            ELSE c.slist[j].seq >= c.snd_nxt
        BY <1>11, <3>1 DEF SentFirst
      <4>2. t[j].seq = c.slist[j].seq /\ t[j].xmit = c.slist[j].xmit
        BY <1>7, <3>1
      <4>3. t[j].xmit > 0 => t[j].len = c.slist[j].len
        <5>1. joins /\ j = m => ~(c.slist[j].xmit > 0)
          BY DEF joins
        <5> QED
          BY <1>7, <3>1, <4>2, <5>1
      <4> QED
        BY <4>1, <4>2, <4>3
    <3>2. CASE j \notin 1 .. m
      <4>1. j = m + 1 /\ ~joins
        BY <1>2, <1>7, <3>2
      <4>2. t[j].xmit = 0 /\ t[j].seq = End(c)
        BY <1>6, <1>7, <4>1
      <4>3. c.snd_nxt <= End(c)
        BY <1>11 DEF SentFirst
      <4> QED
        BY <1>2, <4>2, <4>3
    <3> QED
      BY <3>1, <3>2
  <2>2. c.snd_una <= c.snd_nxt /\ c.snd_nxt <= End(c) /\ c.recover <= c.snd_nxt /\ (c.rto <=> c.snd_nxt > c.snd_una)
    BY <1>11 DEF SentFirst
  <2>3. c.snd_nxt <= End(e)
    BY <1>1, <1>2, <1>10, <2>2
  <2> QED
    BY <1>8, <1>9, <2>1, <2>2, <2>3 DEF SentFirst
<1>19. ConnectWhole(e)
  <2>1. IF bCtrl THEN End(c) = 0 /\ l = ConnectLen /\ c.snd_wnd >= ConnectLen ELSE End(c) >= ConnectLen
    BY DEF MayQueue
  <2>2. bCtrl => m = 0
    <3> SUFFICES ASSUME bCtrl, m # 0 PROVE FALSE
      OBVIOUS
    <3>1. 1 \in 1 .. m
      BY <1>2
    <3>2. c.slist[1].seq + c.slist[1].len <= End(c) /\ c.slist[1].seq \in Nat /\ c.slist[1].len \in Nat /\ c.slist[1].len > 0
      BY <1>11, <3>1, InOrderSegments, SegmentTypes
    <3> QED
      BY <2>1, <3>2
  <2>3. ASSUME NEW j \in 1 .. Len(t)
        PROVE  IF t[j].bCtrl THEN t[j].seq = 0 /\ t[j].len = ConnectLen ELSE t[j].seq >= ConnectLen
    <3>1. CASE j \in 1 .. m
      <4>1. IF c.slist[j].bCtrl THEN c.slist[j].seq = 0 /\ c.slist[j].len = ConnectLen
            ELSE c.slist[j].seq >= ConnectLen
        BY <1>11, <3>1 DEF ConnectWhole
      <4>2. t[j].seq = c.slist[j].seq /\ t[j].bCtrl = c.slist[j].bCtrl
        BY <1>7, <3>1
      <4>3. t[j].bCtrl => ~joins \/ j # m
        <5>1. m # 0
          BY <1>2, <3>1
        <5>2. joins /\ j = m => t[j].bCtrl = bCtrl
          BY <4>2 DEF joins
        <5> QED
          BY <2>2, <5>1, <5>2, Zenon
      <4>4. t[j].bCtrl => t[j].len = c.slist[j].len
        BY <1>7, <3>1, <4>3
      <4> QED
        BY <4>1, <4>2, <4>4
    <3>2. CASE j \notin 1 .. m
      <4>1. j = m + 1 /\ ~joins
        BY <1>2, <1>7, <3>2
      <4>2. t[j].bCtrl = bCtrl /\ t[j].seq = End(c) /\ t[j].len = l
        BY <1>6, <1>7, <4>1
      <4> QED
        BY <2>1, <4>2
    <3> QED
      BY <3>1, <3>2
  <2>4. c.snd_nxt = 0 => c.cwnd >= ConnectLen /\ c.snd_wnd > 0
    BY <1>11 DEF ConnectWhole
  <2>5. c.snd_nxt = 0 => c.snd_wnd >= ConnectLen
    <3> SUFFICES ASSUME c.snd_nxt = 0, ~bCtrl PROVE c.snd_wnd >= ConnectLen
      BY <2>1
    <3>1. c.slist # << >>
      <4> SUFFICES ASSUME c.slist = << >> PROVE FALSE
        OBVIOUS
      <4>1. Start(c, 1) = End(c)
        BY DEF Start
      <4>2. Start(c, 1) = c.snd_una /\ c.snd_una <= c.snd_nxt
        BY <1>11 DEF Tiled, SentFirst
      <4> QED
        BY <1>2, <2>1, <4>1, <4>2, Constants
    <3> QED
      BY <1>11, <3>1 DEF ConnectWhole
  <2> QED
    BY <1>8, <1>9, <2>3, <2>4, <2>5 DEF ConnectWhole
<1>20. RightSent(e)
  <2>1. Len(b.data) <= SndBufLen
    BY <1>1, <1>4
  <2>2. ASSUME NEW i \in 1 .. Len(b.data) PROVE b.data[i] = Byte(c.snd_una + i - 1)
    <3>1. CASE i <= Len(c.sbuf.data)
      <4>1. i \in 1 .. Len(c.sbuf.data)
        BY <1>2, <3>1
      <4> QED
        BY <1>4, <1>11, <4>1 DEF RightSent
    <3>2. CASE i > Len(c.sbuf.data)
      <4> DEFINE j == i - Len(c.sbuf.data)
      <4>1. j \in 1 .. l /\ Len(c.sbuf.data) + j = i /\ End(c) + j - 1 = c.snd_una + i - 1
        BY <1>1, <1>2, <1>4, <3>2 DEF End
      <4> HIDE DEF j
      <4>2. b.data[i] = data[j]
        BY <1>4, <4>1
      <4>3. data[j] = Byte(End(c) + j - 1)
        BY <4>1 DEF MayQueue
      <4> QED
        BY <4>1, <4>2, <4>3
    <3> QED
      BY <1>1, <1>2, <1>4, <3>1, <3>2
  <2> QED
    BY <1>8, <1>9, <2>1, <2>2 DEF RightSent
<1>21. KeepsCuts(c, e)
  <2>1. \A h \in 1 .. m : h \in 1 .. Len(t) /\ t[h].seq = c.slist[h].seq /\ t[h].xmit = c.slist[h].xmit
    BY <1>2, <1>7
  <2> QED
    BY <1>8, <1>9, <2>1 DEF KeepsCuts, Cut
<1> QED
  BY <1>3, <1>8, <1>10, <1>17, <1>18, <1>19, <1>20, <1>21 DEF Sender

-----------------------------------------------------------------------------
(* Soundness against a view *)

LEMMA ReadySound ==
  ASSUME NEW c, NEW v, Sound(c, v)
  PROVE  Ready(c) /\ c \in Tcbs /\ Sender(c)
<1>1. c \in Tcbs /\ Sender(c) /\ Window(c)
  BY DEF Sound, Receiver
<1>2. c.rcv_nxt = 0 => c.rcv_wnd >= ConnectLen
  BY <1>1, Constants DEF Window
<1> QED
  BY <1>1, <1>2 DEF Ready

LEMMA GrowsTypes ==
  ASSUME NEW c \in Tcbs
  PROVE  /\ c.rcv_nxt \in Nat /\ c.rcv_wnd \in Nat /\ Edge(c) \in Nat /\ c.snd_nxt \in Nat
         /\ c.snd_una \in Nat /\ c.snd_wnd \in Nat /\ c.out \subseteq Packets
<1>1. c.rcv_nxt \in Nat /\ c.rcv_wnd \in Nat /\ c.snd_nxt \in Nat /\ c.snd_una \in Nat /\ c.snd_wnd \in Nat /\ c.out \subseteq Packets
  BY TcbTypes
<1> QED
  BY <1>1 DEF Edge

LEMMA GrowsTrans ==
  ASSUME NEW c \in Tcbs, NEW d \in Tcbs, NEW e \in Tcbs, Grows(c, d), Grows(d, e)
  PROVE  Grows(c, e)
<1>1. /\ c.rcv_nxt \in Nat /\ Edge(c) \in Nat /\ c.snd_nxt \in Nat
      /\ d.rcv_nxt \in Nat /\ Edge(d) \in Nat /\ d.snd_nxt \in Nat
      /\ e.rcv_nxt \in Nat /\ Edge(e) \in Nat /\ e.snd_nxt \in Nat
  BY GrowsTypes
<1>2. KeepsCuts(c, e)
  BY DEF Grows, KeepsCuts
<1>3. c.rcv_nxt <= e.rcv_nxt /\ Edge(c) <= Edge(e) /\ c.snd_nxt <= e.snd_nxt
  <2>1. c.rcv_nxt <= d.rcv_nxt /\ Edge(c) <= Edge(d) /\ c.snd_nxt <= d.snd_nxt
    BY DEF Grows
  <2>2. d.rcv_nxt <= e.rcv_nxt /\ Edge(d) <= Edge(e) /\ d.snd_nxt <= e.snd_nxt
    BY DEF Grows
  <2> QED
    BY <1>1, <2>1, <2>2
<1>4. c.out \subseteq d.out /\ d.out \subseteq e.out
  BY DEF Grows
<1>5. ASSUME c.snd_nxt = 0, e.snd_nxt > 0 PROVE \E k \in e.out : k.ctl
  <2>1. CASE d.snd_nxt = 0
    BY <1>5, <2>1 DEF Grows
  <2>2. CASE d.snd_nxt > 0
    <3>1. \E k \in d.out : k.ctl
      BY <1>5, <2>2 DEF Grows
    <3> QED
      BY <1>4, <3>1
  <2> QED
    BY <1>1, <2>1, <2>2
<1>6. e.shutdown = c.shutdown /\ (c.state # "DESTROYED" => e.state # "DESTROYED")
  BY DEF Grows
<1> QED
  BY <1>2, <1>3, <1>4, <1>5, <1>6 DEF Grows

LEMMA FromSenderGrows ==
  ASSUME NEW c \in Tcbs, NEW e \in Tcbs, KeepsCuts(c, e), c.rcv_nxt <= e.rcv_nxt, Edge(c) <= Edge(e),
         NEW k \in Packets, RightPacket(k), FromSender(c, k)
  PROVE  FromSender(e, k)
<1>1. c.rcv_nxt \in Nat /\ Edge(c) \in Nat /\ e.rcv_nxt \in Nat /\ Edge(e) \in Nat
  BY GrowsTypes
<1>2. k.ack \in Nat /\ k.wnd \in Nat
  BY PacketTypes
<1>3. k.ack <= c.rcv_nxt /\ k.ack + k.wnd <= Edge(c)
  BY DEF FromSender
<1>4. k.ack <= e.rcv_nxt /\ k.ack + k.wnd <= Edge(e)
  BY <1>1, <1>2, <1>3
<1>5. ASSUME k.data # << >> PROVE Cut(e, k.seq) /\ Cut(e, After(k))
  <2>1. k.seq \in Nat /\ After(k) \in Nat
    BY <1>5, RightPosition
  <2>2. Cut(c, k.seq) /\ Cut(c, After(k))
    BY <1>5 DEF FromSender
  <2> QED
    BY <2>1, <2>2 DEF KeepsCuts
<1> QED
  BY <1>4, <1>5 DEF FromSender

\* The packets that were sent before stay right.
LEMMA OutGrows ==
  ASSUME NEW c \in Tcbs, NEW e \in Tcbs, NEW v, RightOut(c, v), KeepsCuts(c, e),
         c.rcv_nxt <= e.rcv_nxt, Edge(c) <= Edge(e), e.out = c.out
  PROVE  RightOut(e, v)
<1> SUFFICES ASSUME NEW k \in c.out PROVE RightPacket(k) /\ FromSender(e, k) /\ k.ack \in v.cuts
  BY DEF RightOut
<1>1. RightPacket(k) /\ FromSender(c, k) /\ k.ack \in v.cuts
  BY DEF RightOut
<1>2. k \in Packets
  BY GrowsTypes
<1> QED
  BY <1>1, <1>2, FromSenderGrows

LEMMA SameReceiverKeeps ==
  ASSUME NEW c, NEW e, NEW rd, NEW W, SameReceiver(c, e), Receiver(c, rd, W),
         c.state = "DESTROYED" => e.state = "DESTROYED"
  PROVE  Receiver(e, rd, W) /\ Edge(e) = Edge(c)
<1>1. /\ e.rbuf = c.rbuf /\ e.rlist = c.rlist /\ e.rcv_nxt = c.rcv_nxt /\ e.rcv_wnd = c.rcv_wnd
      /\ e.shutdown = c.shutdown
  BY DEF SameReceiver
<1>2. Edge(e) = Edge(c) /\ Taken(e) = Taken(c)
  BY <1>1 DEF Edge, Taken
<1>3. RightReceived(e, rd)
  BY <1>1, <1>2 DEF RightReceived, Receiver
<1>4. RightAhead(e)
  BY <1>1 DEF RightAhead, Receiver
<1>5. Window(e)
  BY <1>1, <1>2 DEF Window, Receiver
<1>6. Bounded(e, rd, W)
  BY <1>1 DEF Bounded, Receiver
<1> QED
  BY <1>2, <1>3, <1>4, <1>5, <1>6 DEF Receiver

LEMMA SameCoreSound ==
  ASSUME NEW c, NEW v, Sound(c, v), NEW e \in Tcbs, SameCore(c, e)
  PROVE  Sound(e, v) /\ Grows(c, e)
<1>1. c \in Tcbs /\ Sender(c) /\ Queued(c, v.w) /\ Receiver(c, v.rd, v.W) /\ Joined(c, v) /\ RightOut(c, v)
  BY DEF Sound
<1>2. SameSender(c, e) /\ e.slist = c.slist /\ SameReceiver(c, e) /\ e.out = c.out
  BY DEF SameCore
<1>3. e.state = c.state \/ (c.state \notin {"LISTEN", "DESTROYED"} /\ e.state \notin {"LISTEN", "DESTROYED"})
  BY DEF SameCore
<1>4. Sender(e) /\ KeepsCuts(c, e)
  BY <1>1, <1>2, SameSenderKeeps
<1>5. Receiver(e, v.rd, v.W) /\ Edge(e) = Edge(c)
  BY <1>1, <1>2, <1>3, SameReceiverKeeps
<1>6. e.rcv_nxt = c.rcv_nxt /\ e.rlist = c.rlist /\ e.shutdown = c.shutdown
  BY <1>2 DEF SameReceiver
<1>7. e.snd_una = c.snd_una /\ e.snd_wnd = c.snd_wnd /\ e.snd_nxt = c.snd_nxt /\ e.sbuf = c.sbuf
  BY <1>2 DEF SameSender
<1>8. Queued(e, v.w)
  BY <1>1, <1>3, <1>7 DEF Queued, End
<1>9. Joined(e, v)
  BY <1>1, <1>6, <1>7 DEF Joined
<1>10. c.rcv_nxt <= e.rcv_nxt /\ Edge(c) <= Edge(e) /\ c.snd_nxt <= e.snd_nxt
  BY <1>1, <1>5, <1>6, <1>7, GrowsTypes
<1>11. RightOut(e, v)
  BY <1>1, <1>2, <1>4, <1>10, OutGrows
<1>12. Grows(c, e)
  BY <1>2, <1>3, <1>4, <1>6, <1>7, <1>10 DEF Grows
<1> QED
  BY <1>4, <1>5, <1>8, <1>9, <1>11, <1>12 DEF Sound

LEMMA SendsSound ==
  ASSUME NEW v, View(v), NEW c, Sound(c, v), NEW e, Sends(c, e)
  PROVE  Sound(e, v) /\ Grows(c, e)
<1>1. c \in Tcbs /\ Sender(c) /\ Queued(c, v.w) /\ Receiver(c, v.rd, v.W) /\ Joined(c, v) /\ RightOut(c, v)
  BY DEF Sound
<1>2. e \in Tcbs /\ Sender(e) /\ SameRest(c, e) /\ KeepsCuts(c, e) /\ c.snd_nxt <= e.snd_nxt
  BY <1>1, SendsTypes
<1>3. /\ e.state = c.state /\ SameReceiver(c, e) /\ e.sbuf = c.sbuf /\ e.snd_una = c.snd_una
      /\ e.snd_wnd = c.snd_wnd /\ e.rcv_nxt = c.rcv_nxt /\ e.rlist = c.rlist /\ e.shutdown = c.shutdown
      /\ e.rcv_wnd = c.rcv_wnd
  BY <1>2 DEF SameRest, SameReceiver
<1>4. Receiver(e, v.rd, v.W) /\ Edge(e) = Edge(c)
  BY <1>1, <1>3, SameReceiverKeeps
<1>5. Queued(e, v.w)
  BY <1>1, <1>3 DEF Queued, End
<1>6. Joined(e, v)
  <2>1. e.snd_nxt = c.snd_nxt \/ e.snd_nxt <= c.snd_una + c.snd_wnd
    BY DEF Sends
  <2>2. e.snd_nxt \in v.edge
    <3>1. c.snd_nxt \in v.edge /\ c.snd_una + c.snd_wnd \in v.edge
      BY <1>1 DEF Joined
    <3>2. e.snd_nxt \in Nat
      BY <1>2, GrowsTypes
    <3> QED
      BY <2>1, <3>1, <3>2 DEF View
  <2> QED
    BY <1>1, <1>3, <2>2 DEF Joined
<1>7. c.rcv_nxt <= e.rcv_nxt /\ Edge(c) <= Edge(e)
  BY <1>1, <1>3, <1>4, GrowsTypes
<1>8. ASSUME NEW k \in e.out PROVE RightPacket(k) /\ FromSender(e, k) /\ k.ack \in v.cuts
  <2>1. k \in Packets
    BY <1>2, GrowsTypes
  <2>2. CASE k \in c.out
    <3>1. RightPacket(k) /\ FromSender(c, k) /\ k.ack \in v.cuts
      BY <1>1, <2>2 DEF RightOut
    <3> QED
      BY <1>1, <1>2, <1>7, <2>1, <3>1, FromSenderGrows
  <2>3. CASE k \notin c.out
    <3>1. SentBy(e, k)
      BY <2>3 DEF Sends
    <3>2. k.ack = e.rcv_nxt /\ k.wnd = e.rcv_wnd /\ RightPacket(k)
      BY <3>1 DEF SentBy
    <3>3. k.ack <= e.rcv_nxt /\ k.ack + k.wnd <= Edge(e)
      BY <1>2, <3>2, GrowsTypes DEF Edge
    <3>4. k.ack \in v.cuts
      BY <1>1, <1>3, <3>2 DEF Joined
    <3>5. FromSender(e, k)
      BY <3>1, <3>3 DEF FromSender, SentBy
    <3> QED
      BY <3>2, <3>4, <3>5
  <2> QED
    BY <2>2, <2>3
<1>9. RightOut(e, v)
  BY <1>8 DEF RightOut
<1>10. Grows(c, e)
  BY <1>2, <1>3, <1>7 DEF Grows, Sends
<1> QED
  BY <1>2, <1>4, <1>5, <1>6, <1>9, <1>10 DEF Sound

-----------------------------------------------------------------------------
(* Steps in line with a view *)

LEMMA DoesTrans ==
  ASSUME NEW v, NEW c, NEW d, NEW e, Sound(c, v), Does(c, d, v), Does(d, e, v)
  PROVE  Does(c, e, v)
<1>1. c \in Tcbs /\ d \in Tcbs /\ e \in Tcbs
  BY DEF Sound, Does
<1>2. Grows(c, e)
  BY <1>1, GrowsTrans DEF Does
<1> QED
  BY <1>2 DEF Does

LEMMA DoesCore ==
  ASSUME NEW v, NEW c, Sound(c, v), NEW e \in Tcbs, SameCore(c, e)
  PROVE  Does(c, e, v)
BY SameCoreSound DEF Does

LEMMA DoesSelf ==
  ASSUME NEW v, NEW c, Sound(c, v)
  PROVE  Does(c, c, v)
<1>1. c \in Tcbs /\ SameCore(c, c)
  BY DEF Sound, SameCore, SameSender, SameReceiver
<1> QED
  BY <1>1, DoesCore

LEMMA DoesSend ==
  ASSUME NEW v, View(v), NEW c, Sound(c, v), NEW e, Sends(c, e)
  PROVE  Does(c, e, v)
BY SendsSound DEF Does

\* Between the states of a connection that was opened.
Opened == {"SYN_SENT", "SYN_RECEIVED", "ESTABLISHED", "CLOSED"}

LEMMA StateChange ==
  ASSUME NEW v, NEW c, Sound(c, v), c.state \in Opened, NEW s \in Opened
  PROVE  LET e == [c EXCEPT !.state = s] IN
         Does(c, e, v) /\ e.state = s /\ e.rcv_nxt = c.rcv_nxt
<1> DEFINE e == [c EXCEPT !.state = s]
<1>1. c \in Tcbs /\ s \in States
  BY DEF Sound, Opened, States
<1>2. e \in Tcbs /\ SameSender(c, e) /\ e.slist = c.slist /\ SameReceiver(c, e) /\ e.out = c.out /\ e.state = s
  BY <1>1 DEF Tcbs, SameSender, SameReceiver
<1> HIDE DEF e
<1>3. {c.state, e.state} \cap {"LISTEN", "DESTROYED"} = {}
  BY <1>2 DEF Opened
<1>4. SameCore(c, e)
  BY <1>2, <1>3 DEF SameCore
<1>5. Does(c, e, v) /\ e.rcv_nxt = c.rcv_nxt
  BY <1>2, <1>4, DoesCore DEF SameReceiver
<1> QED
  BY <1>2, <1>5 DEF e

\* The connection is closed after a segment could not be sent, or was sent too often.
LEMMA Closing ==
  ASSUME NEW v, NEW c, Sound(c, v), c.state \in Opened
  PROVE  Does(c, closedown(c), v) /\ closedown(c).state = "CLOSED"
<1>1. "CLOSED" \in Opened
  BY DEF Opened
<1> QED
  BY <1>1, StateChange DEF closedown

Opening(c, s, n) == [[c EXCEPT !.state = s] EXCEPT !.snd_wnd = n]

LEMMA OpeningIs ==
  ASSUME NEW c \in Tcbs, NEW s \in States, NEW n \in Nat
  PROVE  LET d == Opening(c, s, n) IN
         /\ d \in Tcbs /\ d.state = s /\ d.snd_wnd = n /\ SameReceiver(c, d) /\ d.out = c.out
         /\ d.sbuf = c.sbuf /\ d.snd_una = c.snd_una /\ d.snd_nxt = c.snd_nxt /\ d.recover = c.recover
         /\ d.rto = c.rto /\ d.cwnd = c.cwnd /\ d.slist = c.slist
<1> DEFINE b == [c EXCEPT !.state = s]
           d == [b EXCEPT !.snd_wnd = n]
<1>1. /\ b \in Tcbs /\ b.state = s /\ SameReceiver(c, b) /\ b.out = c.out
      /\ b.sbuf = c.sbuf /\ b.snd_una = c.snd_una /\ b.snd_nxt = c.snd_nxt /\ b.recover = c.recover
      /\ b.rto = c.rto /\ b.cwnd = c.cwnd /\ b.slist = c.slist
  BY DEF Tcbs, SameReceiver
<1> HIDE DEF b
<1>2. /\ d \in Tcbs /\ d.state = b.state /\ d.snd_wnd = n /\ SameReceiver(b, d) /\ d.out = b.out
      /\ d.sbuf = b.sbuf /\ d.snd_una = b.snd_una /\ d.snd_nxt = b.snd_nxt /\ d.recover = b.recover
      /\ d.rto = b.rto /\ d.cwnd = b.cwnd /\ d.slist = b.slist
  BY <1>1 DEF Tcbs, SameReceiver
<1> HIDE DEF d
<1>3. SameReceiver(c, d)
  BY <1>1, <1>2 DEF SameReceiver
<1>4. /\ d \in Tcbs /\ d.state = s /\ d.snd_wnd = n /\ SameReceiver(c, d) /\ d.out = c.out
      /\ d.sbuf = c.sbuf /\ d.snd_una = c.snd_una /\ d.snd_nxt = c.snd_nxt /\ d.recover = c.recover
      /\ d.rto = c.rto /\ d.cwnd = c.cwnd /\ d.slist = c.slist
  BY <1>1, <1>2, <1>3
<1> QED
  BY <1>4 DEF d, b, Opening

\* What a connection that was not opened queues first is its connect message.
LEMMA Connecting ==
  ASSUME NEW v, View(v), v.w = 0, NEW c, Sound(c, v), c.state = "LISTEN", NEW s \in Opened
  PROVE  LET e == queueConnectMessage([c EXCEPT !.state = s]) IN
         Does(c, e, v) /\ e.state = s /\ e.rcv_nxt = c.rcv_nxt
<1> DEFINE b == [c EXCEPT !.state = s]
           d == [b EXCEPT !.snd_wnd = ConnectLen]
           data == [i \in 1 .. ConnectLen |-> 0]
           e == queue(d, data, TRUE)
<1>1. c \in Tcbs /\ Sender(c) /\ Queued(c, v.w) /\ Receiver(c, v.rd, v.W) /\ Joined(c, v) /\ RightOut(c, v)
  BY DEF Sound
<1>2. s \in States /\ ConnectLen \in Nat
  BY Constants DEF Opened, States
<1>4. /\ d \in Tcbs /\ d.state = s /\ d.snd_wnd = ConnectLen /\ SameReceiver(c, d) /\ d.out = c.out
      /\ d.sbuf = c.sbuf /\ d.snd_una = c.snd_una /\ d.snd_nxt = c.snd_nxt /\ d.recover = c.recover
      /\ d.rto = c.rto /\ d.cwnd = c.cwnd /\ d.slist = c.slist
  <2>1. d = Opening(c, s, ConnectLen)
    BY DEF Opening
  <2> HIDE DEF d
  <2> QED
    BY <1>1, <1>2, <2>1, OpeningIs
<1>5. queueConnectMessage(b) = e
  BY DEF queueConnectMessage
<1> HIDE DEF b, d
<1>6. End(d) = End(c) /\ (\A i : Start(d, i) = Start(c, i)) /\ KeepsCuts(c, d)
  BY <1>4 DEF End, Start, KeepsCuts, Cut
<1>7. Sender(d)
  <2>1. Tiled(d)
    BY <1>1, <1>4, <1>6 DEF Tiled, Sender
  <2>2. SentFirst(d)
    BY <1>1, <1>4, <1>6 DEF SentFirst, Sender
  <2>3. ConnectWhole(d)
    BY <1>1, <1>4, Constants DEF ConnectWhole, Sender
  <2>4. RightSent(d)
    BY <1>1, <1>4 DEF RightSent, Sender
  <2> QED
    BY <2>1, <2>2, <2>3, <2>4 DEF Sender
<1>8. End(c) = 0
  BY <1>1 DEF Queued
<1>9. Len(c.sbuf.data) = 0
  BY <1>1, <1>8, SegmentTypes, TcbTypes DEF End
<1>10. data \in Seq(Int) /\ Len(data) = ConnectLen /\ \A i \in 1 .. ConnectLen : data[i] = 0
  BY <1>2
<1>11. MayQueue(d, data, TRUE)
  <2> HIDE DEF data
  <2>1. \A i \in 1 .. Len(data) : data[i] = Byte(End(d) + i - 1)
    BY <1>2, <1>6, <1>8, <1>10 DEF Byte
  <2>2. Len(data) > 0 /\ Len(d.sbuf.data) + Len(data) <= SndBufLen /\ d.snd_wnd >= ConnectLen
    BY <1>4, <1>9, <1>10, Constants
  <2> QED
    BY <1>6, <1>8, <1>10, <2>1, <2>2 DEF MayQueue
<1> HIDE DEF data
<1>12. e \in Tcbs /\ Sender(e) /\ SameButQueue(d, e) /\ KeepsCuts(d, e) /\ End(e) = End(d) + Len(data)
  BY <1>4, <1>7, <1>11, Queueing
<1> HIDE DEF e
<1>13. /\ e.state = s /\ SameReceiver(c, e) /\ e.out = c.out /\ e.snd_una = c.snd_una
       /\ e.snd_nxt = c.snd_nxt /\ e.snd_wnd = ConnectLen
  BY <1>4, <1>12 DEF SameButQueue, SameReceiver
<1>14. e.state \notin {"LISTEN", "DESTROYED"} /\ e.rcv_nxt = c.rcv_nxt /\ e.rlist = c.rlist /\ e.shutdown = c.shutdown
  BY <1>13 DEF Opened, SameReceiver
<1>15. KeepsCuts(c, e)
  BY <1>6, <1>12 DEF KeepsCuts
<1>16. Queued(e, v.w)
  BY <1>2, <1>6, <1>8, <1>10, <1>12, <1>14 DEF Queued
<1>17. Receiver(e, v.rd, v.W) /\ Edge(e) = Edge(c)
  BY <1>1, <1>13, SameReceiverKeeps
<1>18. c.snd_una = 0
  BY <1>1, <1>8, SegmentTypes, TcbTypes DEF End
<1>19. Joined(e, v)
  <2>1. e.snd_una + e.snd_wnd \in v.edge
    BY <1>2, <1>13, <1>18 DEF View
  <2> QED
    BY <1>1, <1>13, <1>14, <2>1 DEF Joined
<1>20. c.rcv_nxt <= e.rcv_nxt /\ Edge(c) <= Edge(e) /\ c.snd_nxt <= e.snd_nxt
  BY <1>1, <1>13, <1>14, <1>17, GrowsTypes
<1>21. RightOut(e, v)
  BY <1>1, <1>12, <1>13, <1>15, <1>20, OutGrows
<1>22. Grows(c, e)
  BY <1>13, <1>14, <1>15, <1>20 DEF Grows
<1>23. Does(c, e, v)
  BY <1>12, <1>16, <1>17, <1>19, <1>21, <1>22 DEF Does, Sound
<1> QED
  BY <1>5, <1>13, <1>14, <1>23 DEF b

LEMMA Establishing ==
  ASSUME NEW v, View(v), NEW c, Sound(c, v), c.state \in Opened
  PROVE  LET e == Establish(c) IN
         Does(c, e, v) /\ e.state = "ESTABLISHED" /\ e.rcv_nxt = c.rcv_nxt
<1> DEFINE d == [c EXCEPT !.state = "ESTABLISHED", !.level = 1]
           x == Max({d.ssthresh, 2 * m_mss(d)})
           w == Max({c.cwnd, m_mss(d)})
           f == [d EXCEPT !.ssthresh = x]
           e == WithCwnd(f, w)
<1>1. c \in Tcbs /\ "ESTABLISHED" \in States /\ 1 \in 1 .. Len(MssLevels)
  BY Levels DEF Sound, States
<1>2. /\ d \in Tcbs /\ SameSender(c, d) /\ d.slist = c.slist /\ SameReceiver(c, d) /\ d.out = c.out
      /\ d.state = "ESTABLISHED" /\ d.level = 1
  BY <1>1 DEF Tcbs, SameSender, SameReceiver
<1>3. Establish(c) = e
  BY DEF Establish
<1> HIDE DEF d
<1>4. m_mss(d) \in Nat /\ m_mss(d) > 0 /\ m_mss(d) >= ConnectLen
  BY <1>1, <1>2, Levels DEF m_mss
<1>5. d.ssthresh \in Nat /\ d.ssthresh > 0 /\ c.cwnd \in Nat /\ c.cwnd > 0
  BY <1>1, <1>2, TcbTypes
<1>6. x \in Nat \ {0}
  <2>1. d.ssthresh \in Int /\ 2 * m_mss(d) \in Int
    BY <1>4, <1>5
  <2>2. x = IF d.ssthresh >= 2 * m_mss(d) THEN d.ssthresh ELSE 2 * m_mss(d)
    BY <2>1, MaxTwo
  <2> QED
    BY <1>4, <1>5, <2>2
<1>7. w \in Nat /\ w > 0 /\ w >= ConnectLen
  <2>1. c.cwnd \in Int /\ m_mss(d) \in Int
    BY <1>4, <1>5
  <2>2. w = IF c.cwnd >= m_mss(d) THEN c.cwnd ELSE m_mss(d)
    BY <2>1, MaxTwo
  <2> QED
    BY <1>4, <1>5, <2>2, Constants
<1> HIDE DEF x, w
<1>8. /\ f \in Tcbs /\ SameSender(d, f) /\ f.slist = d.slist /\ SameReceiver(d, f) /\ f.out = d.out
      /\ f.state = d.state
  BY <1>2, <1>6 DEF Tcbs, SameSender, SameReceiver
<1> HIDE DEF f
<1>9. SameCore(c, f) /\ f.state = "ESTABLISHED" /\ f.rcv_nxt = c.rcv_nxt
  <2>1. {c.state, f.state} \cap {"LISTEN", "DESTROYED"} = {}
    BY <1>2, <1>8 DEF Opened
  <2>2. SameSender(c, f) /\ SameReceiver(c, f)
    BY <1>2, <1>8 DEF SameSender, SameReceiver
  <2> QED
    BY <1>2, <1>8, <2>1, <2>2 DEF SameCore, SameReceiver
<1>10. Does(c, f, v)
  BY <1>8, <1>9, DoesCore
<1>11. Sound(f, v) /\ Ready(f)
  BY <1>10, ReadySound DEF Does
<1>12. Paces(f, e) /\ e.recover = f.recover /\ e.cwnd >= ConnectLen
  BY <1>7, <1>8, WithCwndIs
<1> HIDE DEF e
<1>13. Sends(f, e)
  BY <1>11, <1>12, Repaced
<1>14. Does(f, e, v)
  BY <1>11, <1>13, DoesSend
<1>15. Does(c, e, v)
  BY <1>10, <1>14, DoesTrans
<1>16. e.state = "ESTABLISHED" /\ e.rcv_nxt = c.rcv_nxt
  BY <1>9, <1>12 DEF Paces, SameRest
<1> QED
  BY <1>3, <1>15, <1>16

-----------------------------------------------------------------------------
(* Acknowledgements *)

\* An acknowledgement up to the start of a segment drops the segments before it.
LEMMA AckedIs ==
  ASSUME NEW c \in Tcbs, Tiled(c), NEW i \in 1 .. Len(c.slist) + 1, NEW n, n = Start(c, i) - c.snd_una
  PROVE  Acked(c.slist, n) = SubSeq(c.slist, i, Len(c.slist))
<1> DEFINE s == c.slist
           m == Len(c.slist)
           G(f) == [j \in 0 .. m |-> IF j = 0 THEN 0 ELSE f[j - 1] + s[j].len]
           sum == CHOOSE f : f = G(f)
           T == {j \in 0 .. m : sum[j] <= n}
           k == Max(T)
           rest == SubSeq(s, k + 1, m)
<1>1. /\ m \in Nat /\ c.snd_una \in Nat /\ \A j \in 1 .. m : s[j].len \in Nat /\ s[j].len > 0 /\ s[j].seq \in Nat
      /\ \A j \in 1 .. m + 1 : Start(c, j) \in Nat
  BY SegmentTypes, TcbTypes
<1>2. Start(c, 1) = c.snd_una /\ \A j \in 1 .. m : Start(c, j + 1) = Start(c, j) + s[j].len
  BY <1>1 DEF Tiled, Start
<1>3. Acked(s, n) = IF n > sum[k] /\ rest # << >> THEN [rest EXCEPT ![1].len = @ - (n - sum[k])] ELSE rest
  BY DEF Acked
<1> HIDE DEF s, m
<1>0. c.snd_una \in Nat /\ \A a, b, u \in Nat : (a + b) - u = (a - u) + b /\ (a + b - u <= a - u => b <= 0)
  BY <1>1
<1>4. \E f : f = G(f)
  <2> DEFINE g == [j \in 0 .. m |-> Start(c, j + 1) - c.snd_una]
  <2>1. ASSUME NEW j \in 0 .. m PROVE g[j] = IF j = 0 THEN 0 ELSE g[j - 1] + s[j].len
    <3>1. CASE j = 0
      BY <1>1, <1>2, <3>1
    <3>2. CASE j # 0
      <4>1. j \in 1 .. m /\ j - 1 \in 0 .. m /\ (j - 1) + 1 = j /\ j \in 1 .. m + 1 /\ j + 1 \in 1 .. m + 1
        BY <1>1, <3>2
      <4>2. g[j] = Start(c, j + 1) - c.snd_una /\ g[j - 1] = Start(c, j) - c.snd_una
        BY <4>1
      <4>3. Start(c, j + 1) = Start(c, j) + s[j].len
        BY <1>2, <4>1
      <4>4. Start(c, j) \in Nat /\ s[j].len \in Nat
        BY <1>1, <4>1
      <4>5. (Start(c, j) + s[j].len) - c.snd_una = (Start(c, j) - c.snd_una) + s[j].len
        BY <1>0, <4>4
      <4> HIDE DEF g
      <4> QED
        BY <3>2, <4>2, <4>3, <4>5
    <3> QED
      BY <3>1, <3>2
  <2>2. g = G(g)
    BY <2>1
  <2> QED
    BY <2>2
<1>5. sum = G(sum)
  <2> HIDE DEF G
  <2> QED
    BY <1>4
<1> HIDE DEF sum
<1>6. sum[0] = 0 /\ \A j \in 1 .. m : sum[j] = sum[j - 1] + s[j].len
  <2>1. 0 \in 0 .. m /\ \A j \in 1 .. m : j \in 0 .. m /\ j # 0
    BY <1>1
  <2>2. \A j \in 0 .. m : G(sum)[j] = IF j = 0 THEN 0 ELSE sum[j - 1] + s[j].len
    OBVIOUS
  <2> HIDE DEF G
  <2> QED
    BY <1>5, <2>1, <2>2
<1>7. \A j \in 0 .. m : sum[j] = Start(c, j + 1) - c.snd_una
  <2> DEFINE F == {j \in 0 .. m : sum[j] = Start(c, j + 1) - c.snd_una}
  <2>1. 0 \in F
    BY <1>1, <1>2, <1>6
  <2>2. ASSUME NEW j \in 0 .. m - 1, j \in F PROVE j + 1 \in F
    <3> DEFINE h == j + 1
    <3>1. h \in 1 .. m /\ h - 1 = j /\ h \in 0 .. m /\ h \in 1 .. m + 1
      BY <1>1
    <3>2. sum[j] = Start(c, h) - c.snd_una
      BY <2>2
    <3> HIDE DEF h
    <3>3. sum[h] = sum[j] + s[h].len /\ Start(c, h + 1) = Start(c, h) + s[h].len
      BY <1>2, <1>6, <3>1
    <3>4. Start(c, h) \in Nat /\ s[h].len \in Nat
      BY <1>1, <3>1
    <3>5. sum[h] = Start(c, h + 1) - c.snd_una
      <4>1. (Start(c, h) + s[h].len) - c.snd_una = (Start(c, h) - c.snd_una) + s[h].len
        BY <1>0, <3>4
      <4> QED
        BY <3>2, <3>3, <4>1
    <3> QED
      BY <3>1, <3>5 DEF h
  <2>3. 0 .. m \subseteq F
    <3> HIDE DEF F
    <3> QED
      BY <1>1, <2>1, <2>2, UpTo
  <2> QED
    BY <2>3
<1>8. i \in 1 .. m + 1 /\ i - 1 \in 0 .. m /\ (i - 1) + 1 = i
  BY <1>1 DEF m
<1>9. n \in Int /\ sum[i - 1] = n
  BY <1>1, <1>7, <1>8
<1>10. i - 1 \in T
  BY <1>8, <1>9
<1>11. ASSUME NEW j \in T PROVE j <= i - 1
  <2> SUFFICES ASSUME i <= j PROVE FALSE
    BY <1>1, <1>8
  <2>1. j \in 0 .. m /\ sum[j] <= n
    OBVIOUS
  <2>2. i \in 1 .. m /\ j + 1 \in 1 .. m + 1 /\ i < j + 1 /\ i # m + 1
    BY <1>1, <1>8, <2>1
  <2>3. s[i].seq + s[i].len <= Start(c, j + 1)
    BY <2>2, Ordered DEF m, s
  <2>4. Start(c, i) = s[i].seq
    BY <2>2 DEF Start, m, s
  <2>5. s[i].len \in Nat /\ s[i].len > 0 /\ s[i].seq \in Nat /\ Start(c, j + 1) \in Nat
    BY <1>1, <2>2
  <2>6. sum[j] = Start(c, j + 1) - c.snd_una
    BY <1>7, <2>1
  <2>7. Start(c, j + 1) - c.snd_una <= Start(c, i) - c.snd_una
    BY <2>1, <2>6
  <2>8. \A a, b, l, x, u \in Nat : ~(x - u <= a - u /\ a + b <= x /\ b > 0)
    OBVIOUS
  <2> HIDE DEF T
  <2> QED
    BY <1>0, <2>3, <2>4, <2>5, <2>7, <2>8
<1>12. k = i - 1
  <2>1. T \in SUBSET (0 .. m)
    OBVIOUS
  <2> HIDE DEF T
  <2>2. Max(T) \in T /\ \A y \in T : y <= Max(T)
    BY <1>1, <1>10, <2>1, MaxOfSet
  <2>3. Max(T) <= i - 1 /\ i - 1 <= Max(T) /\ Max(T) \in 0 .. m
    BY <1>10, <1>11, <2>1, <2>2
  <2>4. i \in Int
    BY <1>1
  <2> QED
    BY ONLY <2>3, <2>4 DEF k
<1> HIDE DEF k
<1>13. sum[k] = n /\ k + 1 = i
  BY <1>8, <1>9, <1>12
<1>14. ~(n > sum[k])
  BY <1>9, <1>13
<1>15. Acked(s, n) = rest
  <2> HIDE DEF rest
  <2> QED
    BY <1>3, <1>14
<1> QED
  BY <1>13, <1>15 DEF s, m

\* A position that may be acknowledged is the start of a segment, or the end.
LEMMA CutStart ==
  ASSUME NEW c \in Tcbs, Tiled(c), SentFirst(c), NEW x \in Nat, Cut(c, x), x > c.snd_una
  PROVE  \E i \in 1 .. Len(c.slist) + 1 : Start(c, i) = x
<1> DEFINE m == Len(c.slist)
<1>1. m \in Nat /\ c.snd_una \in Nat /\ c.snd_nxt \in Nat /\ End(c) \in Nat
  BY SegmentTypes, TcbTypes
<1>2. CASE x = c.snd_nxt
  <2> DEFINE T == {j \in 1 .. m : c.slist[j].xmit = 0}
  <2>1. CASE T = {}
    <3>1. ~(c.snd_nxt < End(c))
      <4> SUFFICES ASSUME c.snd_nxt < End(c) PROVE FALSE
        OBVIOUS
      <4>1. m \in 1 .. m /\ c.slist[m].xmit = 0
        BY LastUnsent
      <4>2. m \in T
        BY <4>1
      <4> QED
        BY <2>1, <4>2
    <3>2. c.snd_nxt = End(c)
      BY <1>1, <3>1 DEF SentFirst
    <3>3. m + 1 \in 1 .. m + 1 /\ Start(c, m + 1) = End(c)
      BY <1>1 DEF Start
    <3> QED
      BY <1>2, <3>2, <3>3
  <2>2. CASE T # {}
    <3>1. T \in SUBSET Nat
      OBVIOUS
    <3>2. PICK i \in T : \A y \in T : i <= y
      <4> HIDE DEF T
      <4> QED
        BY <2>2, <3>1, MinimumExists
    <3>3. i \in 1 .. m /\ c.slist[i].xmit = 0
      BY <3>2
    <3>4. \A j \in 1 .. i - 1 : c.slist[j].xmit > 0
      <4> SUFFICES ASSUME NEW j \in 1 .. i - 1 PROVE c.slist[j].xmit > 0
        OBVIOUS
      <4>1. j \in 1 .. m /\ ~(i <= j)
        BY <1>1, <3>3
      <4>2. j \notin T
        BY <3>2, <4>1
      <4>3. c.slist[j].xmit \in Nat /\ c.slist[j].xmit # 0
        BY <4>1, <4>2, SegmentTypes
      <4> QED
        BY <4>3
    <3>5. c.slist[i].seq = c.snd_nxt
      BY <3>3, <3>4, FirstUnsent
    <3>6. i \in 1 .. m + 1 /\ Start(c, i) = c.slist[i].seq
      BY <1>1, <3>3 DEF Start
    <3> QED
      BY <1>2, <3>5, <3>6
  <2> QED
    BY <2>1, <2>2
<1>3. ASSUME NEW i \in 1 .. m, c.slist[i].seq = x PROVE \E j \in 1 .. m + 1 : Start(c, j) = x
  <2>1. i \in 1 .. m + 1 /\ Start(c, i) = x
    BY <1>1, <1>3 DEF Start
  <2> QED
    BY <2>1
<1> QED
  BY <1>1, <1>2, <1>3 DEF Cut

LEMMA Dropping ==
  ASSUME NEW c \in Tcbs, Sender(c), NEW e \in Tcbs, NEW i \in 1 .. Len(c.slist) + 1, Drops(c, e, i),
         c.snd_una < Start(c, i), Start(c, i) <= c.snd_nxt
  PROVE  Sender(e) /\ KeepsCuts(c, e) /\ End(e) = End(c)
<1> DEFINE m == Len(c.slist)
           a == Start(c, i)
           h == a - c.snd_una
           l == m - i + 1
<1>1. /\ m \in Nat /\ a \in Nat /\ c.snd_una \in Nat /\ c.snd_nxt \in Nat /\ Len(c.sbuf.data) \in Nat
      /\ End(c) \in Nat /\ l \in Nat /\ i \in Nat
  BY SegmentTypes, TcbTypes
<1>2. Tiled(c) /\ SentFirst(c) /\ ConnectWhole(c) /\ RightSent(c)
  BY DEF Sender
<1>3. Len(e.slist) = l /\ \A j \in 1 .. l : e.slist[j] = c.slist[i + j - 1]
  <2>1. c.slist \in Seq(SSegments) /\ m \in i - 1 .. m
    BY <1>1, TcbTypes
  <2>2. /\ Len(SubSeq(c.slist, i, m)) = m - i + 1
        /\ \A j \in 1 .. m - i + 1 : SubSeq(c.slist, i, m)[j] = c.slist[i + j - 1]
    BY <2>1, SubSeqIs
  <2> QED
    BY <2>2 DEF Drops
<1>4. /\ e.snd_una = a /\ e.snd_nxt = c.snd_nxt /\ e.recover = c.recover /\ e.cwnd = c.cwnd
      /\ e.rto <=> a # c.snd_nxt
      /\ Len(e.sbuf.data) = Len(c.sbuf.data) - h
      /\ \A j \in 1 .. Len(e.sbuf.data) : e.sbuf.data[j] = c.sbuf.data[h + j]
  BY DEF Drops
<1>5. e.rto \in BOOLEAN /\ c.snd_una < a /\ a <= c.snd_nxt
  BY TcbTypes
<1> HIDE DEF a, l
<1>6. End(e) = End(c)
  <2>1. \A x, y, z \in Nat : x + (y - (x - z)) = z + y
    OBVIOUS
  <2>2. a + (Len(c.sbuf.data) - h) = c.snd_una + Len(c.sbuf.data)
    BY <1>1, <2>1
  <2> HIDE DEF h
  <2> QED
    BY <1>4, <2>2 DEF End
<1> HIDE DEF h
<1>7. \A j \in 1 .. l : i + j - 1 \in 1 .. m /\ i + j - 1 >= i /\ (i + j - 1) + 1 = i + (j + 1) - 1
  BY <1>1 DEF l
<1>8. \A j \in 1 .. l + 1 : Start(e, j) = Start(c, i + j - 1)
  <2> SUFFICES ASSUME NEW j \in 1 .. l + 1 PROVE Start(e, j) = Start(c, i + j - 1)
    OBVIOUS
  <2>1. CASE j = l + 1
    <3>1. i + j - 1 = m + 1
      BY <1>1, <2>1 DEF l
    <3> QED
      BY <1>3, <1>6, <2>1, <3>1 DEF Start
  <2>2. CASE j # l + 1
    <3>1. j \in 1 .. l
      BY <1>1, <2>2
    <3>2. i + j - 1 # m + 1
      <4>1. i + j - 1 \in 1 .. m /\ m \in Nat
        BY <1>1, <1>7, <3>1
      <4>2. \A x \in 1 .. m : x # m + 1
        BY <1>1
      <4> QED
        BY <4>1, <4>2
    <3> QED
      BY <1>3, <2>2, <3>1, <3>2 DEF Start
  <2> QED
    BY <2>1, <2>2
<1>9. Tiled(e)
  <2>1. Start(e, 1) = e.snd_una
    <3>1. 1 \in 1 .. l + 1 /\ i + 1 - 1 = i
      BY <1>1
    <3> QED
      BY <1>4, <1>8, <3>1 DEF a
  <2>2. ASSUME NEW j \in 1 .. l PROVE Start(e, j + 1) = e.slist[j].seq + e.slist[j].len
    <3>1. j + 1 \in 1 .. l + 1
      BY <1>1
    <3>2. Start(e, j + 1) = Start(c, (i + j - 1) + 1)
      BY <1>7, <1>8, <3>1
    <3>3. Start(c, (i + j - 1) + 1) = c.slist[i + j - 1].seq + c.slist[i + j - 1].len
      BY <1>2, <1>7 DEF Tiled
    <3> QED
      BY <1>3, <3>2, <3>3
  <2> QED
    BY <1>3, <2>1, <2>2 DEF Tiled
<1>10. SentFirst(e)
  <2>1. e.snd_una <= e.snd_nxt /\ e.snd_nxt <= End(e) /\ e.recover <= e.snd_nxt
    BY <1>2, <1>4, <1>5, <1>6 DEF SentFirst
  <2>2. e.rto <=> e.snd_nxt > e.snd_una
    <3>1. a # c.snd_nxt <=> c.snd_nxt > a
      BY <1>1, <1>5
    <3> QED
      BY <1>4, <3>1
  <2>3. ASSUME NEW j \in 1 .. l
        PROVE  IF e.slist[j].xmit > 0 THEN e.slist[j].seq + e.slist[j].len <= e.snd_nxt
               ELSE e.slist[j].seq >= e.snd_nxt
    BY <1>2, <1>3, <1>4, <1>7 DEF SentFirst
  <2> QED
    BY <1>3, <2>1, <2>2, <2>3 DEF SentFirst
<1>11. ConnectWhole(e)
  <2>1. e.snd_nxt # 0
    BY <1>1, <1>4, <1>5
  <2>2. ASSUME NEW j \in 1 .. l
        PROVE  IF e.slist[j].bCtrl THEN e.slist[j].seq = 0 /\ e.slist[j].len = ConnectLen
               ELSE e.slist[j].seq >= ConnectLen
    BY <1>2, <1>3, <1>7 DEF ConnectWhole
  <2> QED
    BY <1>3, <2>1, <2>2 DEF ConnectWhole
<1>12. RightSent(e)
  <2>1. h \in Nat
    BY <1>1, <1>5 DEF h
  <2>2. Len(e.sbuf.data) \in Nat
    BY SegmentTypes
  <2>3. Len(e.sbuf.data) <= SndBufLen
    <3>1. Len(c.sbuf.data) <= SndBufLen
      BY <1>2 DEF RightSent
    <3>2. \A x, y, z \in Nat : x <= z => x - y <= z
      OBVIOUS
    <3> QED
      BY <1>1, <1>4, <2>1, <3>1, <3>2, Constants
  <2>4. ASSUME NEW j \in 1 .. Len(e.sbuf.data) PROVE e.sbuf.data[j] = Byte(e.snd_una + j - 1)
    <3>1. h + j \in 1 .. Len(c.sbuf.data)
      BY <1>1, <1>4, <2>1, <2>2
    <3>2. c.snd_una + (h + j) - 1 = a + j - 1
      <4>1. \A x, y, z \in Nat : z + ((x - z) + y) - 1 = x + y - 1
        OBVIOUS
      <4>2. j \in Nat
        BY <2>2
      <4> QED
        BY <1>1, <4>1, <4>2 DEF h
    <3> QED
      BY <1>2, <1>4, <3>1, <3>2 DEF RightSent
  <2> QED
    BY <2>3, <2>4 DEF RightSent
<1>13. KeepsCuts(c, e)
  <2> SUFFICES ASSUME NEW x \in Nat, Cut(c, x) PROVE Cut(e, x)
    BY DEF KeepsCuts
  <2>1. x <= e.snd_nxt
    BY <1>4 DEF Cut
  <2>2. CASE x <= c.snd_una
    <3>1. x <= e.snd_una
      BY <1>1, <1>4, <1>5, <2>2
    <3> QED
      BY <2>1, <3>1 DEF Cut
  <2>3. CASE x = c.snd_nxt
    BY <1>4, <2>1, <2>3 DEF Cut
  <2>4. ASSUME NEW j \in 1 .. m, c.slist[j].xmit > 0, c.slist[j].seq = x PROVE Cut(e, x)
    <3>1. CASE j < i
      <4>1. c.slist[j].seq + c.slist[j].len <= a
        BY <1>2, <3>1, Ordered DEF a
      <4>2. c.slist[j].seq \in Nat /\ c.slist[j].len \in Nat
        BY SegmentTypes
      <4>3. x <= e.snd_una
        <5>1. \A y, z \in Nat : x + y <= z => x <= z
          OBVIOUS
        <5> QED
          BY <1>1, <1>4, <2>4, <4>1, <4>2, <5>1
      <4> QED
        BY <2>1, <4>3 DEF Cut
    <3>2. CASE ~(j < i)
      <4> DEFINE g == j - i + 1
      <4>1. g \in 1 .. l /\ i + g - 1 = j
        BY <1>1, <3>2 DEF l
      <4> HIDE DEF g
      <4>2. e.slist[g].xmit > 0 /\ e.slist[g].seq = x /\ g \in 1 .. Len(e.slist)
        BY <1>3, <2>4, <4>1
      <4> QED
        BY <2>1, <4>2 DEF Cut
    <3> QED
      BY <3>1, <3>2
  <2> QED
    BY <2>2, <2>3, <2>4 DEF Cut
<1> QED
  BY <1>6, <1>9, <1>10, <1>11, <1>12, <1>13 DEF Sender

LEMMA ArrivesGrows ==
  ASSUME NEW v, NEW c \in Tcbs, NEW e \in Tcbs, Grows(c, e), NEW k, Arrives(c, k, v)
  PROVE  Arrives(e, k, v)
<1>1. k \in Packets /\ RightPacket(k) /\ Cut(c, k.ack) /\ k.ack \in v.acked /\ k.ack + k.wnd \in v.edge
  BY DEF Arrives
<1>2. Cut(e, k.ack)
  BY <1>1, PacketTypes DEF Grows, KeepsCuts
<1>3. ASSUME k.data # << >> PROVE After(k) <= Edge(e)
  <2>1. After(k) \in Int /\ Edge(c) \in Nat /\ Edge(e) \in Nat
    BY <1>1, PacketTypes, GrowsTypes
  <2>2. After(k) <= Edge(c) /\ Edge(c) <= Edge(e)
    BY <1>3 DEF Arrives, Grows
  <2> QED
    BY <2>1, <2>2
<1> QED
  BY <1>1, <1>2, <1>3 DEF Arrives

\* What a connection may have in flight was queued, so it was opened.
LEMMA InFlightOpened ==
  ASSUME NEW v, NEW c, Sound(c, v), c.snd_una < c.snd_nxt
  PROVE  c.state \in Opened /\ 1 \in 1 .. Len(c.slist) /\ c.slist[1].xmit > 0 /\ c.snd_nxt # 0
<1>1. c \in Tcbs /\ Tiled(c) /\ SentFirst(c) /\ Queued(c, v.w)
  BY DEF Sound, Sender
<1>2. /\ c.snd_una \in Nat /\ c.snd_nxt \in Nat /\ End(c) \in Nat /\ Len(c.slist) \in Nat
      /\ \A i \in 1 .. Len(c.slist) : c.slist[i].xmit \in Nat
  BY <1>1, SegmentTypes, TcbTypes
<1>3. c.snd_nxt <= End(c)
  BY <1>1 DEF SentFirst
<1>4. c.state \in States
  BY <1>1 DEF Tcbs
<1>5. c.state \in Opened
  BY <1>1, <1>2, <1>3, <1>4 DEF Queued, States, Opened
<1>6. Len(c.slist) # 0
  <2> SUFFICES ASSUME Len(c.slist) = 0 PROVE FALSE
    OBVIOUS
  <2>1. Start(c, 1) = End(c) /\ Start(c, 1) = c.snd_una
    BY <1>1 DEF Start, Tiled
  <2> QED
    BY <1>2, <1>3, <2>1
<1>7. 1 \in 1 .. Len(c.slist) /\ 1 # Len(c.slist) + 1
  BY <1>2, <1>6
<1>8. c.slist[1].seq = c.snd_una
  BY <1>1, <1>7 DEF Start, Tiled
<1>9. ~(c.slist[1].xmit > 0) => c.slist[1].seq >= c.snd_nxt
  BY <1>1, <1>7 DEF SentFirst
<1> QED
  BY <1>2, <1>5, <1>7, <1>8, <1>9

LEMMA Retransmitting ==
  ASSUME NEW v, View(v), NEW c, Sound(c, v), c.snd_una < c.snd_nxt
  PROVE  Answers(c, Retransmit(c), v)
<1> DEFINE r == transmit(c, 1)
           e == r.c
<1>1. Ready(c) /\ c.state \in Opened /\ 1 \in 1 .. Len(c.slist) /\ c.slist[1].xmit # 0
  BY ReadySound, InFlightOpened
<1>2. SendsOr(c, r)
  BY <1>1, Transmitting
<1>3. Retransmit(c) = IF r.ok THEN r ELSE [ok |-> FALSE, c |-> closedown(e)]
  BY DEF Retransmit, OrClosed
<1> HIDE DEF r
<1>4. r.ok \in BOOLEAN /\ Sends(c, e)
  BY <1>2 DEF SendsOr
<1>5. e.state = c.state /\ e.rcv_nxt = c.rcv_nxt
  BY <1>4 DEF Sends, SameRest
<1>6. Does(c, e, v)
  BY <1>4, DoesSend
<1>7. CASE r.ok
  BY <1>3, <1>4, <1>5, <1>6, <1>7 DEF Answers
<1>8. CASE ~r.ok
  <2> DEFINE d == closedown(e)
  <2>1. Sound(e, v) /\ e.state \in Opened
    BY <1>1, <1>5, <1>6 DEF Does
  <2>2. Does(e, d, v) /\ d.state = "CLOSED"
    BY <2>1, Closing
  <2>3. d.rcv_nxt = e.rcv_nxt
    BY <2>1 DEF closedown, Sound, Tcbs
  <2> HIDE DEF d
  <2>4. Does(c, d, v)
    BY <1>6, <2>2, DoesTrans
  <2>5. Retransmit(c).ok = FALSE /\ Retransmit(c).c = d
    BY <1>3, <1>8 DEF d
  <2> QED
    BY <1>5, <2>2, <2>3, <2>4, <2>5 DEF Answers
<1> QED
  BY <1>4, <1>7, <1>8

AckedTcb(c, k) ==
  LET n == k.ack - c.snd_una
  IN [c EXCEPT !.snd_wnd = k.wnd, !.snd_una = k.ack, !.rto = k.ack # c.snd_nxt,
               !.sbuf = ConsumeReadData(@, n), !.slist = Acked(@, n)]

LEMMA Acknowledging ==
  ASSUME NEW v, View(v), NEW c, Sound(c, v), NEW k, Arrives(c, k, v), c.snd_una < k.ack, k.ack <= c.snd_nxt
  PROVE  LET d == AckedTcb(c, k) IN
         /\ Does(c, d, v) /\ d.state = c.state /\ d.rcv_nxt = c.rcv_nxt /\ d.snd_nxt = c.snd_nxt
         /\ d.snd_una = k.ack
<1> DEFINE n == k.ack - c.snd_una
           b == ConsumeReadData(c.sbuf, n)
           s == Acked(c.slist, n)
           t == k.ack # c.snd_nxt
           d == [c EXCEPT !.snd_wnd = k.wnd, !.snd_una = k.ack, !.rto = t, !.sbuf = b, !.slist = s]
<1>1. c \in Tcbs /\ Sender(c) /\ Queued(c, v.w) /\ Receiver(c, v.rd, v.W) /\ Joined(c, v) /\ RightOut(c, v)
  BY DEF Sound
<1>2. k \in Packets /\ Cut(c, k.ack) /\ k.ack \in v.acked /\ k.ack + k.wnd \in v.edge
  BY DEF Arrives
<1>3. /\ k.ack \in Nat /\ k.wnd \in Nat /\ c.snd_una \in Nat /\ c.snd_nxt \in Nat /\ End(c) \in Nat
      /\ Len(c.sbuf.data) \in Nat /\ c.sbuf \in Fifos(SndBufLen) /\ SndBufLen \in Nat
      /\ c.slist \in Seq(SSegments) /\ Len(c.slist) \in Nat
  BY <1>1, <1>2, PacketTypes, TcbTypes, SegmentTypes, Constants
<1>4. Tiled(c) /\ SentFirst(c)
  BY <1>1 DEF Sender
<1>5. PICK i \in 1 .. Len(c.slist) + 1 : Start(c, i) = k.ack
  BY <1>1, <1>2, <1>3, <1>4, CutStart
<1>6. s = SubSeq(c.slist, i, Len(c.slist))
  BY <1>1, <1>4, <1>5, AckedIs
<1>7. AckedTcb(c, k) = d
  BY DEF AckedTcb
<1>8. s \in Seq(SSegments)
  <2>1. Len(c.slist) \in i - 1 .. Len(c.slist)
    BY <1>3
  <2> HIDE DEF s
  <2> QED
    BY <1>3, <1>6, <2>1, SubSeqIs
<1>9. n \in 0 .. Len(c.sbuf.data)
  <2>1. c.snd_nxt <= c.snd_una + Len(c.sbuf.data)
    BY <1>4 DEF SentFirst, End
  <2>2. \A x, y, z, l \in Nat : x < y /\ y <= z /\ z <= x + l => y - x \in 0 .. l
    OBVIOUS
  <2> QED
    BY <1>3, <2>1, <2>2
<1> HIDE DEF n
<1>10. b \in Fifos(SndBufLen) /\ Len(b.data) = Len(c.sbuf.data) - n /\ \A j \in 1 .. Len(b.data) : b.data[j] = c.sbuf.data[n + j]
  BY <1>3, <1>9, ConsumeReadIs
<1>11. t \in BOOLEAN
  OBVIOUS
<1> HIDE DEF b, s, t
<1>12. /\ d \in Tcbs /\ d.state = c.state /\ SameReceiver(c, d) /\ d.out = c.out
       /\ d.snd_wnd = k.wnd /\ d.snd_una = k.ack /\ d.rto = t /\ d.sbuf = b /\ d.slist = s
       /\ d.snd_nxt = c.snd_nxt /\ d.recover = c.recover /\ d.cwnd = c.cwnd
  BY <1>1, <1>3, <1>8, <1>10, <1>11 DEF Tcbs, SameReceiver
<1> HIDE DEF d
<1>13. Drops(c, d, i)
  <2>1. n = Start(c, i) - c.snd_una
    BY <1>5 DEF n
  <2>2. d.rto <=> Start(c, i) # c.snd_nxt
    BY <1>5, <1>12 DEF t
  <2>3. d.slist = SubSeq(c.slist, i, Len(c.slist)) /\ d.snd_una = Start(c, i)
    BY <1>5, <1>6, <1>12
  <2>4. /\ Len(d.sbuf.data) = Len(c.sbuf.data) - (Start(c, i) - c.snd_una)
        /\ \A j \in 1 .. Len(d.sbuf.data) : d.sbuf.data[j] = c.sbuf.data[Start(c, i) - c.snd_una + j]
    BY <1>10, <1>12, <2>1
  <2> QED
    BY <1>12, <2>2, <2>3, <2>4 DEF Drops
<1>14. Sender(d) /\ KeepsCuts(c, d) /\ End(d) = End(c)
  BY <1>1, <1>5, <1>12, <1>13, Dropping
<1>15. d.rcv_nxt = c.rcv_nxt /\ d.rlist = c.rlist /\ d.shutdown = c.shutdown
  BY <1>12 DEF SameReceiver
<1>16. Queued(d, v.w)
  BY <1>1, <1>12, <1>14 DEF Queued
<1>17. Receiver(d, v.rd, v.W) /\ Edge(d) = Edge(c)
  BY <1>1, <1>12, SameReceiverKeeps
<1>18. Joined(d, v)
  BY <1>1, <1>2, <1>12, <1>15 DEF Joined
<1>19. c.rcv_nxt <= d.rcv_nxt /\ Edge(c) <= Edge(d) /\ c.snd_nxt <= d.snd_nxt
  BY <1>1, <1>12, <1>15, <1>17, GrowsTypes
<1>20. RightOut(d, v)
  BY <1>1, <1>12, <1>14, <1>19, OutGrows
<1>21. Grows(c, d)
  BY <1>12, <1>14, <1>15, <1>19 DEF Grows
<1>22. Does(c, d, v)
  BY <1>12, <1>14, <1>16, <1>17, <1>18, <1>20, <1>21 DEF Does, Sound
<1> QED
  BY <1>7, <1>12, <1>15, <1>22

Counted(c, x) == [c EXCEPT !.dup_acks = x]

LEMMA Pacing ==
  ASSUME NEW v, View(v), NEW c, Sound(c, v), NEW x \in 0 .. 4, NEW w \in Nat, w > 0, c.snd_nxt # 0
  PROVE  Answers(c, Good(WithCwnd(Counted(c, x), w)), v)
<1> DEFINE d == Counted(c, x)
           e == WithCwnd(d, w)
<1>1. c \in Tcbs /\ Ready(c)
  BY ReadySound
<1>2. d \in Tcbs /\ Paces(c, d) /\ d.recover = c.recover
  BY <1>1 DEF Tcbs, Paces, SameRest, Counted
<1> HIDE DEF d
<1>3. Paces(d, e) /\ e.recover = d.recover
  BY <1>2, WithCwndIs
<1> HIDE DEF e
<1>4. Paces(c, e) /\ e.recover = c.recover
  BY <1>2, <1>3 DEF Paces, SameRest
<1>5. Sends(c, e)
  BY <1>1, <1>4, Repaced
<1>6. Does(c, e, v)
  BY <1>5, DoesSend
<1>7. e.state = c.state /\ e.rcv_nxt = c.rcv_nxt
  BY <1>4 DEF Paces, SameRest
<1>8. Good(e).ok = TRUE /\ Good(e).c = e
  BY DEF Good
<1> QED
  BY <1>6, <1>7, <1>8 DEF Answers, e, d

\* Two parts after each other; the second is left out if the first closed the connection.
LEMMA AnswersTrans ==
  ASSUME NEW v, NEW c, Sound(c, v), NEW d, Does(c, d, v), d.state = c.state, d.rcv_nxt = c.rcv_nxt,
         NEW r, Answers(d, r, v)
  PROVE  Answers(c, r, v)
<1>1. r.ok \in BOOLEAN /\ Does(d, r.c, v) /\ r.c.rcv_nxt = c.rcv_nxt
  BY DEF Answers
<1>2. r.c.state = IF r.ok THEN c.state ELSE "CLOSED"
  BY DEF Answers
<1>3. Does(c, r.c, v)
  BY <1>1, DoesTrans
<1> QED
  BY <1>1, <1>2, <1>3 DEF Answers

LEMMA MssIs ==
  ASSUME NEW c \in Tcbs
  PROVE  m_mss(c) \in Nat /\ m_mss(c) > 0 /\ m_mss(c) >= ConnectLen
BY TcbTypes, Levels DEF m_mss

\* Retuning the connection a result carries.
LEMMA Retuned ==
  ASSUME NEW v, View(v), NEW c, Sound(c, v), NEW r, Answers(c, r, v), r.ok, NEW e, Sends(r.c, e)
  PROVE  Answers(c, Good(e), v)
<1>1. Sound(r.c, v) /\ Does(c, r.c, v) /\ r.c.rcv_nxt = c.rcv_nxt /\ r.c.state = c.state
  BY DEF Answers, Does
<1>2. Does(r.c, e, v)
  BY <1>1, DoesSend
<1>3. Does(c, e, v)
  BY <1>1, <1>2, DoesTrans
<1>4. e.state = c.state /\ e.rcv_nxt = c.rcv_nxt
  BY <1>1 DEF Sends, SameRest
<1>5. Good(e).ok = TRUE /\ Good(e).c = e
  BY DEF Good
<1> QED
  BY <1>3, <1>4, <1>5 DEF Answers

LEMMA Deflating ==
  ASSUME NEW v, View(v), NEW c, Sound(c, v), c.snd_nxt # 0, NEW r, Answers(c, r, v), NEW n \in Nat
  PROVE  Answers(c, Deflate(n, r), v)
<1> DEFINE d == r.c
           w == d.cwnd + m_mss(d) - Min({n, d.cwnd})
           e == WithCwnd(d, w)
<1>1. CASE ~r.ok
  BY <1>1 DEF Deflate
<1>2. CASE r.ok
  <2>1. Sound(d, v) /\ Grows(c, d)
    BY DEF Answers, Does
  <2>2. d \in Tcbs /\ Ready(d) /\ c \in Tcbs
    BY <2>1, ReadySound
  <2>3. d.cwnd \in Nat /\ m_mss(d) \in Nat /\ m_mss(d) > 0 /\ d.snd_nxt \in Nat /\ c.snd_nxt \in Nat
    BY <2>2, TcbTypes, MssIs
  <2>4. d.snd_nxt # 0
    BY <2>1, <2>3 DEF Grows
  <2>5. Min({n, d.cwnd}) = IF n <= d.cwnd THEN n ELSE d.cwnd
    <3>1. n \in Int /\ d.cwnd \in Int
      BY <2>3
    <3> QED
      BY <3>1, MinTwo
  <2>6. w \in Nat /\ w > 0
    BY <2>3, <2>5
  <2> HIDE DEF w, d
  <2>7. Paces(d, e) /\ e.recover = d.recover
    BY <2>2, <2>6, WithCwndIs
  <2> HIDE DEF e
  <2>8. Sends(d, e)
    BY <2>2, <2>4, <2>7, Repaced
  <2>9. Answers(c, Good(e), v)
    BY <1>2, <2>8, Retuned DEF d
  <2> QED
    BY <1>2, <2>9 DEF Deflate, e, w, d
<1> QED
  BY <1>1, <1>2 DEF Answers

LEMMA NewAcknowledgement ==
  ASSUME NEW v, View(v), NEW c, Sound(c, v), NEW k, Arrives(c, k, v), c.snd_una < k.ack, k.ack <= c.snd_nxt
  PROVE  Answers(c, NewAck(c, k), v)
<1> DEFINE n == k.ack - c.snd_una
           d == AckedTcb(c, k)
           mss == m_mss(c)
           x == Max({1, (mss * mss) \div c.cwnd})
           w1 == c.cwnd + IF c.cwnd < c.ssthresh THEN mss ELSE x
           w2 == Min({c.ssthresh, InFlight(d) + mss})
<1>1. c \in Tcbs /\ SentFirst(c) /\ k \in Packets
  BY DEF Sound, Sender, Arrives
<1>2. /\ c.snd_una \in Nat /\ c.snd_nxt \in Nat /\ k.ack \in Nat /\ c.recover \in Nat
      /\ c.cwnd \in Nat /\ c.cwnd > 0 /\ c.ssthresh \in Nat /\ c.ssthresh > 0 /\ mss \in Nat /\ mss > 0
  BY <1>1, PacketTypes, TcbTypes, MssIs
<1>3. n \in Nat
  BY <1>2
<1>4. /\ Does(c, d, v) /\ d.state = c.state /\ d.rcv_nxt = c.rcv_nxt /\ d.snd_nxt = c.snd_nxt
      /\ d.snd_una = k.ack
  BY Acknowledging
<1>5. NewAck(c, k) = IF c.dup_acks < 3 THEN Good(WithCwnd(Counted(d, 0), w1))
                     ELSE IF k.ack >= c.recover THEN Good(WithCwnd(Counted(d, 0), w2))
                     ELSE Deflate(n, Retransmit(d))
  BY DEF NewAck, AckedTcb, Counted
<1> HIDE DEF n, d, mss
<1>6. Sound(d, v) /\ d.snd_nxt # 0
  BY <1>2, <1>4 DEF Does
<1>7. w1 \in Nat /\ w1 > 0
  <2>1. (mss * mss) \div c.cwnd \in Int
    <3> DEFINE y == mss * mss
    <3>1. y \in Nat
      BY <1>2
    <3> HIDE DEF y
    <3>2. y \div c.cwnd \in Int
      BY <1>2, <3>1
    <3> QED
      BY <3>2 DEF y
  <2>2. x = IF 1 >= (mss * mss) \div c.cwnd THEN 1 ELSE (mss * mss) \div c.cwnd
    BY <2>1, MaxTwo
  <2>3. x \in Nat
    BY <2>1, <2>2
  <2> HIDE DEF x
  <2> QED
    BY <1>2, <2>3
<1>8. w2 \in Nat /\ w2 > 0
  <2>1. InFlight(d) + mss \in Nat /\ InFlight(d) + mss > 0
    BY <1>2, <1>4 DEF InFlight
  <2>2. w2 = IF c.ssthresh <= InFlight(d) + mss THEN c.ssthresh ELSE InFlight(d) + mss
    BY <1>2, <2>1, MinTwo
  <2> QED
    BY <1>2, <2>1, <2>2
<1> HIDE DEF w1, w2
<1>9. CASE c.dup_acks < 3
  <2>1. Answers(d, Good(WithCwnd(Counted(d, 0), w1)), v)
    BY <1>6, <1>7, Pacing
  <2> QED
    BY <1>4, <1>5, <1>9, <2>1, AnswersTrans
<1>10. CASE ~(c.dup_acks < 3) /\ k.ack >= c.recover
  <2>1. Answers(d, Good(WithCwnd(Counted(d, 0), w2)), v)
    BY <1>6, <1>8, Pacing
  <2> QED
    BY <1>4, <1>5, <1>10, <2>1, AnswersTrans
<1>11. CASE ~(c.dup_acks < 3) /\ ~(k.ack >= c.recover)
  <2>1. d.snd_una < d.snd_nxt
    BY <1>1, <1>2, <1>4, <1>11 DEF SentFirst
  <2>2. Answers(d, Retransmit(d), v)
    BY <1>6, <2>1, Retransmitting
  <2>3. Answers(d, Deflate(n, Retransmit(d)), v)
    BY <1>3, <1>6, <2>2, Deflating
  <2> QED
    BY <1>4, <1>5, <1>11, <2>3, AnswersTrans
<1> QED
  BY <1>9, <1>10, <1>11

InRecovery(c, x) == [c EXCEPT !.recover = c.snd_nxt, !.ssthresh = x]

LEMMA EnteringRecovery ==
  ASSUME NEW v, View(v), NEW c, Sound(c, v), c.snd_nxt # 0, NEW r, Answers(c, r, v), NEW n \in Nat
  PROVE  Answers(c, EnterRecovery(n, r), v)
<1> DEFINE d == r.c
           x == Max({n \div 2, 2 * m_mss(d)})
           w == x + 3 * m_mss(d)
           f == InRecovery(d, x)
           e == WithCwnd(f, w)
<1>1. CASE ~r.ok
  BY <1>1 DEF EnterRecovery
<1>2. CASE r.ok
  <2>1. Sound(d, v) /\ Grows(c, d)
    BY DEF Answers, Does
  <2>2. d \in Tcbs /\ Ready(d) /\ c \in Tcbs
    BY <2>1, ReadySound
  <2>3. m_mss(d) \in Nat /\ m_mss(d) > 0 /\ d.snd_nxt \in Nat /\ c.snd_nxt \in Nat
    BY <2>2, TcbTypes, MssIs
  <2>4. d.snd_nxt # 0
    BY <2>1, <2>3 DEF Grows
  <2>5. x \in Nat \ {0}
    <3>1. n \div 2 \in Int /\ 2 * m_mss(d) \in Int
      BY <2>3
    <3>2. x = IF n \div 2 >= 2 * m_mss(d) THEN n \div 2 ELSE 2 * m_mss(d)
      BY <3>1, MaxTwo
    <3> QED
      BY <2>3, <3>1, <3>2
  <2>6. EnterRecovery(n, r) = Good(e)
    BY <1>2 DEF EnterRecovery, InRecovery
  <2> HIDE DEF x
  <2>7. w \in Nat /\ w > 0
    BY <2>3, <2>5
  <2> HIDE DEF w, d
  <2>8. f \in Tcbs /\ Paces(d, f) /\ f.recover = d.snd_nxt
    BY <2>2, <2>3, <2>5 DEF Tcbs, Paces, SameRest, InRecovery
  <2> HIDE DEF f
  <2>9. Paces(f, e) /\ e.recover = f.recover
    BY <2>7, <2>8, WithCwndIs
  <2> HIDE DEF e
  <2>10. Tunes(d, e)
    <3>1. Paces(d, e)
      BY <2>8, <2>9 DEF Paces, SameRest
    <3> QED
      BY <2>3, <2>4, <2>8, <2>9, <3>1 DEF Tunes
  <2>11. Sends(d, e)
    BY <2>2, <2>10, Tuning
  <2> QED
    BY <1>2, <2>6, <2>11, Retuned DEF d
<1> QED
  BY <1>1, <1>2 DEF Answers

WithWindow(c, n) == [c EXCEPT !.snd_wnd = n]

LEMMA WindowIs ==
  ASSUME NEW c \in Tcbs, NEW n \in Nat
  PROVE  LET d == WithWindow(c, n) IN
         /\ d \in Tcbs /\ d.state = c.state /\ d.snd_wnd = n /\ SameReceiver(c, d) /\ d.out = c.out
         /\ d.sbuf = c.sbuf /\ d.snd_una = c.snd_una /\ d.snd_nxt = c.snd_nxt /\ d.recover = c.recover
         /\ d.rto = c.rto /\ d.cwnd = c.cwnd /\ d.slist = c.slist /\ d.dup_acks = c.dup_acks
         /\ d.level = c.level
BY DEF Tcbs, SameReceiver, WithWindow

\* The window changes, not the last byte acknowledged.
LEMMA NewWindow ==
  ASSUME NEW v, View(v), NEW c, Sound(c, v), NEW k, Arrives(c, k, v), k.ack = c.snd_una
  PROVE  LET d == WithWindow(c, k.wnd) IN
         /\ Does(c, d, v) /\ d.state = c.state /\ d.rcv_nxt = c.rcv_nxt /\ d.snd_nxt = c.snd_nxt
         /\ d.snd_una = c.snd_una /\ d.dup_acks = c.dup_acks
<1> DEFINE d == WithWindow(c, k.wnd)
<1>1. c \in Tcbs /\ Sender(c) /\ Queued(c, v.w) /\ Receiver(c, v.rd, v.W) /\ Joined(c, v) /\ RightOut(c, v)
  BY DEF Sound
<1>2. k \in Packets /\ RightPacket(k) /\ k.ack + k.wnd \in v.edge
  BY DEF Arrives
<1>3. k.wnd \in Nat /\ c.snd_una \in Nat /\ c.snd_nxt \in Nat
  BY <1>1, <1>2, PacketTypes, TcbTypes
<1>4. /\ d \in Tcbs /\ d.state = c.state /\ d.snd_wnd = k.wnd /\ SameReceiver(c, d) /\ d.out = c.out
      /\ d.sbuf = c.sbuf /\ d.snd_una = c.snd_una /\ d.snd_nxt = c.snd_nxt /\ d.recover = c.recover
      /\ d.rto = c.rto /\ d.cwnd = c.cwnd /\ d.slist = c.slist /\ d.dup_acks = c.dup_acks
  BY <1>1, <1>3, WindowIs
<1> HIDE DEF d
<1>6. End(d) = End(c) /\ (\A i : Start(d, i) = Start(c, i)) /\ KeepsCuts(c, d)
  BY <1>4 DEF End, Start, KeepsCuts, Cut
<1>7. Sender(d)
  <2>1. Tiled(d)
    BY <1>1, <1>4, <1>6 DEF Tiled, Sender
  <2>2. SentFirst(d)
    BY <1>1, <1>4, <1>6 DEF SentFirst, Sender
  <2>3. c.snd_nxt = 0 => d.snd_wnd >= ConnectLen
    <3>1. c.snd_nxt = 0 => c.snd_una = 0
      BY <1>1, <1>3 DEF Sender, SentFirst
    <3> QED
      BY <1>2, <1>4, <3>1 DEF RightPacket
  <2>4. c.snd_nxt = 0 => d.snd_wnd > 0
    BY <1>3, <1>4, <2>3, Constants
  <2>5. ConnectWhole(d)
    BY <1>1, <1>4, <2>3, <2>4 DEF ConnectWhole, Sender
  <2>6. RightSent(d)
    BY <1>1, <1>4 DEF RightSent, Sender
  <2> QED
    BY <2>1, <2>2, <2>5, <2>6 DEF Sender
<1>15. d.rcv_nxt = c.rcv_nxt /\ d.rlist = c.rlist /\ d.shutdown = c.shutdown
  BY <1>4 DEF SameReceiver
<1>16. Queued(d, v.w)
  BY <1>1, <1>4, <1>6 DEF Queued
<1>17. Receiver(d, v.rd, v.W) /\ Edge(d) = Edge(c)
  BY <1>1, <1>4, SameReceiverKeeps
<1>18. Joined(d, v)
  <2>1. d.snd_una + d.snd_wnd \in v.edge
    BY <1>2, <1>4
  <2> QED
    BY <1>1, <1>4, <1>15, <2>1 DEF Joined
<1>19. c.rcv_nxt <= d.rcv_nxt /\ Edge(c) <= Edge(d) /\ c.snd_nxt <= d.snd_nxt
  BY <1>1, <1>4, <1>15, <1>17, GrowsTypes
<1>20. RightOut(d, v)
  BY <1>1, <1>4, <1>6, <1>19, OutGrows
<1>21. Grows(c, d)
  BY <1>4, <1>6, <1>15, <1>19 DEF Grows
<1>22. Does(c, d, v)
  BY <1>4, <1>7, <1>16, <1>17, <1>18, <1>20, <1>21 DEF Does, Sound
<1> QED
  BY <1>4, <1>15, <1>22 DEF d

LEMMA Counting ==
  ASSUME NEW v, NEW c, Sound(c, v), NEW x \in 0 .. 4
  PROVE  LET e == Counted(c, x) IN
         /\ Does(c, e, v) /\ e.state = c.state /\ e.rcv_nxt = c.rcv_nxt /\ e.snd_nxt = c.snd_nxt
         /\ e.snd_una = c.snd_una /\ e.dup_acks = x
<1> DEFINE e == Counted(c, x)
<1>1. c \in Tcbs
  BY DEF Sound
<1>2. /\ e \in Tcbs /\ SameSender(c, e) /\ e.slist = c.slist /\ SameReceiver(c, e) /\ e.out = c.out
      /\ e.state = c.state /\ e.dup_acks = x
  BY <1>1 DEF Tcbs, SameSender, SameReceiver, Counted
<1> HIDE DEF e
<1>3. SameCore(c, e)
  BY <1>2 DEF SameCore
<1>4. Does(c, e, v) /\ e.rcv_nxt = c.rcv_nxt /\ e.snd_nxt = c.snd_nxt /\ e.snd_una = c.snd_una
  BY <1>2, <1>3, DoesCore DEF SameReceiver, SameSender
<1> QED
  BY <1>2, <1>4 DEF e

LEMMA GoodAnswer ==
  ASSUME NEW v, NEW c, NEW e, Does(c, e, v), e.state = c.state, e.rcv_nxt = c.rcv_nxt
  PROVE  Answers(c, Good(e), v)
<1>1. Good(e).ok = TRUE /\ Good(e).c = e
  BY DEF Good
<1> QED
  BY <1>1 DEF Answers

LEMMA DuplicateAcknowledgement ==
  ASSUME NEW v, View(v), NEW c, Sound(c, v), NEW k, Arrives(c, k, v), k.ack = c.snd_una
  PROVE  Answers(c, DuplicateAck(c, k), v)
<1> DEFINE d == WithWindow(c, k.wnd)
           x == Min({d.dup_acks + 1, 4})
           e == Counted(d, x)
           w == c.cwnd + m_mss(c)
           n == InFlight(c)
<1>1. c \in Tcbs /\ SentFirst(c) /\ k \in Packets
  BY DEF Sound, Sender, Arrives
<1>2. /\ c.snd_una \in Nat /\ c.snd_nxt \in Nat /\ c.dup_acks \in 0 .. 4
      /\ c.cwnd \in Nat /\ c.cwnd > 0 /\ m_mss(c) \in Nat
  BY <1>1, TcbTypes, MssIs
<1>3. n \in Nat /\ (n # 0 => c.snd_una < c.snd_nxt /\ c.snd_nxt # 0)
  BY <1>1, <1>2 DEF InFlight, SentFirst
<1>4. /\ Does(c, d, v) /\ d.state = c.state /\ d.rcv_nxt = c.rcv_nxt /\ d.snd_nxt = c.snd_nxt
      /\ d.snd_una = c.snd_una /\ d.dup_acks = c.dup_acks
  BY NewWindow
<1>5. DuplicateAck(c, k) =
        IF Len(k.data) > 0 THEN Good(d)
        ELSE IF n = 0 THEN Good(Counted(d, 0))
        ELSE IF e.dup_acks < 3 THEN Good(e)
        ELSE IF e.dup_acks > 3 THEN Good(WithCwnd(e, w))
        ELSE EnterRecovery(n, Retransmit(e))
  BY DEF DuplicateAck, WithWindow, Counted
<1> HIDE DEF d
<1>6. x \in 0 .. 4
  <2>1. d.dup_acks + 1 \in Int /\ 4 \in Int
    BY <1>2, <1>4
  <2>2. x = IF d.dup_acks + 1 <= 4 THEN d.dup_acks + 1 ELSE 4
    BY <2>1, MinTwo
  <2> QED
    BY <1>2, <1>4, <2>2
<1>7. Sound(d, v)
  BY <1>4 DEF Does
<1> HIDE DEF x
<1>8. /\ Does(d, e, v) /\ e.state = d.state /\ e.rcv_nxt = d.rcv_nxt /\ e.snd_nxt = d.snd_nxt
      /\ e.snd_una = d.snd_una /\ e.dup_acks = x
  BY <1>6, <1>7, Counting
<1>9. Does(c, e, v) /\ e.state = c.state /\ e.rcv_nxt = c.rcv_nxt
  BY <1>4, <1>8, DoesTrans
<1>10. Sound(e, v)
  BY <1>9 DEF Does
<1>11. Answers(c, Good(d), v)
  BY <1>4, GoodAnswer
<1>12. Answers(c, Good(Counted(d, 0)), v)
  <2> DEFINE f == Counted(d, 0)
  <2>1. Does(d, f, v) /\ f.state = d.state /\ f.rcv_nxt = d.rcv_nxt
    BY <1>7, Counting
  <2> HIDE DEF f
  <2>2. Does(c, f, v) /\ f.state = c.state /\ f.rcv_nxt = c.rcv_nxt
    BY <1>4, <2>1, DoesTrans
  <2>3. Answers(c, Good(f), v)
    BY <2>2, GoodAnswer
  <2> QED
    BY <2>3 DEF f
<1>13. Answers(c, Good(e), v)
  BY <1>9, GoodAnswer
<1>14. CASE n # 0
  <2>1. e.snd_una < e.snd_nxt /\ e.snd_nxt # 0
    BY <1>3, <1>4, <1>8, <1>14
  <2>2. w \in Nat /\ w > 0
    BY <1>2
  <2> HIDE DEF w, e
  <2>3. Answers(c, Good(WithCwnd(e, w)), v)
    <3> DEFINE f == WithCwnd(e, w)
    <3>1. e \in Tcbs /\ Ready(e)
      BY <1>10, ReadySound
    <3>2. Paces(e, f) /\ f.recover = e.recover
      BY <2>2, <3>1, WithCwndIs
    <3> HIDE DEF f
    <3>3. Sends(e, f)
      BY <2>1, <3>1, <3>2, Repaced
    <3>4. Does(e, f, v) /\ f.state = e.state /\ f.rcv_nxt = e.rcv_nxt
      BY <1>10, <3>3, DoesSend DEF Sends, SameRest
    <3>5. Does(c, f, v) /\ f.state = c.state /\ f.rcv_nxt = c.rcv_nxt
      BY <1>9, <3>4, DoesTrans
    <3>6. Answers(c, Good(f), v)
      BY <3>5, GoodAnswer
    <3> QED
      BY <3>6 DEF f
  <2>4. Answers(c, EnterRecovery(n, Retransmit(e)), v)
    <3>1. Answers(e, Retransmit(e), v)
      BY <1>10, <2>1, Retransmitting
    <3>2. Answers(e, EnterRecovery(n, Retransmit(e)), v)
      BY <1>3, <1>10, <2>1, <3>1, EnteringRecovery
    <3> QED
      BY <1>9, <3>2, AnswersTrans
  <2> QED
    BY <1>5, <1>11, <1>13, <1>14, <2>3, <2>4 DEF e
<1>15. CASE n = 0
  BY <1>5, <1>11, <1>12, <1>15
<1> QED
  BY <1>14, <1>15

LEMMA ProcessingAck ==
  ASSUME NEW v, View(v), NEW c, Sound(c, v), NEW k, Arrives(c, k, v)
  PROVE  Answers(c, ProcessAck(c, k), v)
<1>1. c \in Tcbs /\ c.snd_una \in Nat /\ k.ack \in Nat
  BY TcbTypes, PacketTypes DEF Sound, Arrives
<1>2. CASE k.ack > c.snd_una /\ k.ack <= c.snd_nxt
  <2>1. c.snd_una < k.ack /\ k.ack <= c.snd_nxt
    BY <1>1, <1>2
  <2>2. Answers(c, NewAck(c, k), v)
    BY <2>1, NewAcknowledgement
  <2> QED
    BY <1>2, <2>2 DEF ProcessAck
<1>3. CASE ~(k.ack > c.snd_una /\ k.ack <= c.snd_nxt) /\ k.ack = c.snd_una
  <2>1. Answers(c, DuplicateAck(c, k), v)
    BY <1>3, DuplicateAcknowledgement
  <2> QED
    BY <1>3, <2>1 DEF ProcessAck
<1>4. CASE ~(k.ack > c.snd_una /\ k.ack <= c.snd_nxt) /\ k.ack # c.snd_una
  <2>1. Answers(c, Good(c), v)
    BY DoesSelf, GoodAnswer
  <2> QED
    BY <1>4, <2>1 DEF ProcessAck
<1> QED
  BY <1>2, <1>3, <1>4

-----------------------------------------------------------------------------
(* Receiving data *)

LEMMA ReceiverTypes ==
  ASSUME NEW c \in Tcbs
  PROVE  /\ c.rbuf \in Fifos(RcvBufLen) /\ c.rbuf.data \in Seq(Int) /\ Len(c.rbuf.data) \in Nat
         /\ c.rcv_nxt \in Nat /\ c.rcv_wnd \in Nat /\ c.rlist \in Seq(RSegments) /\ Len(c.rlist) \in Nat
         /\ \A i \in 1 .. Len(c.rlist) : c.rlist[i].seq \in Nat /\ c.rlist[i].len \in Nat
<1>1. c.rbuf \in Fifos(RcvBufLen) /\ c.rcv_nxt \in Nat /\ c.rcv_wnd \in Nat /\ c.rlist \in Seq(RSegments)
  BY TcbTypes
<1>2. c.rbuf.data \in Seq(Int) /\ Len(c.rbuf.data) \in Nat
  BY <1>1 DEF Fifos
<1>3. \A i \in 1 .. Len(c.rlist) : c.rlist[i] \in RSegments
  BY <1>1
<1>4. \A s \in RSegments : s.seq \in Nat /\ s.len \in Nat
  BY DEF RSegments
<1> QED
  BY <1>1, <1>2, <1>3, <1>4

\* The receiving side changes, and perhaps what was read with it.
LEMMA ReceivesWith ==
  ASSUME NEW v, NEW c, Sound(c, v), NEW e, Receives(c, e), NEW u, Receiver(e, u.rd, u.W),
         u.w = v.w, u.cuts = v.cuts, u.acked = v.acked, u.edge = v.edge,
         c.rcv_nxt <= e.rcv_nxt, Edge(c) <= Edge(e), e.rcv_nxt \in v.cuts,
         \A i \in 1 .. Len(e.rlist) : e.rlist[i].seq + e.rlist[i].len \in v.cuts
  PROVE  Does(c, e, u)
<1>1. c \in Tcbs /\ Sender(c) /\ Queued(c, v.w) /\ Joined(c, v) /\ RightOut(c, v)
  BY DEF Sound
<1>2. /\ e \in Tcbs /\ SameSender(c, e) /\ e.slist = c.slist /\ e.out = c.out
      /\ e.state = c.state /\ e.shutdown = c.shutdown
  BY DEF Receives
<1>3. Sender(e) /\ KeepsCuts(c, e)
  BY <1>1, <1>2, SameSenderKeeps
<1>4. e.snd_una = c.snd_una /\ e.snd_wnd = c.snd_wnd /\ e.snd_nxt = c.snd_nxt /\ e.sbuf = c.sbuf
  BY <1>2 DEF SameSender
<1>5. Queued(e, u.w)
  BY <1>1, <1>2, <1>4 DEF Queued, End
<1>6. Joined(e, u)
  BY <1>1, <1>4 DEF Joined
<1>7. RightOut(e, u)
  <2>1. RightOut(e, v)
    BY <1>1, <1>2, <1>3, OutGrows
  <2> QED
    BY <2>1 DEF RightOut
<1>8. c.snd_nxt <= e.snd_nxt
  BY <1>1, <1>4, GrowsTypes
<1>9. Grows(c, e)
  BY <1>2, <1>3, <1>4, <1>8 DEF Grows
<1> QED
  BY <1>2, <1>3, <1>5, <1>6, <1>7, <1>9 DEF Does, Sound

LEMMA ReceivesSound ==
  ASSUME NEW v, NEW c, Sound(c, v), NEW e, Receives(c, e), Receiver(e, v.rd, v.W),
         c.rcv_nxt <= e.rcv_nxt, Edge(c) <= Edge(e), e.rcv_nxt \in v.cuts,
         \A i \in 1 .. Len(e.rlist) : e.rlist[i].seq + e.rlist[i].len \in v.cuts
  PROVE  Does(c, e, v)
BY ReceivesWith

\* No byte of a packet is cut off on the right: what remains is all that is new.
LEMMA Trimming ==
  ASSUME NEW v, View(v), NEW c, Sound(c, v), NEW k, Arrives(c, k, v),
         c.rcv_nxt = 0 /\ k.data # << >> => k.ctl
  PROVE  LET s == Trimmed(c, k) IN
         /\ s.data # << >> => Fresh(c, s, v)
         /\ k.ctl /\ c.rcv_nxt = 0 => s.data # << >>
<1> DEFINE l == Len(k.data)
           g == GetWriteRemaining(c.rbuf)
           from == Max({k.seq, c.rcv_nxt})
           to == Min({k.seq + l, c.rcv_nxt + g})
           data == SubSeq(k.data, from - k.seq + 1, to - k.seq)
           s == Trimmed(c, k)
<1>1. c \in Tcbs /\ Window(c) /\ k \in Packets /\ RightPacket(k)
  BY DEF Sound, Receiver, Arrives
<1>2. /\ k.seq \in Int /\ l \in Nat /\ k.data \in Seq(Int) /\ k.ctl \in BOOLEAN /\ k.ack \in Nat /\ k.wnd \in Nat
      /\ (k.data # << >> <=> l > 0)
  BY <1>1, PacketTypes
<1>3. /\ c.rcv_nxt \in Nat /\ c.rcv_wnd \in Nat /\ Len(c.rbuf.data) \in Nat /\ c.rbuf \in Fifos(RcvBufLen)
      /\ RcvBufLen \in Nat /\ ConnectLen \in Nat /\ ConnectLen > 0
  BY <1>1, ReceiverTypes, Constants
<1>4. g = RcvBufLen - Len(c.rbuf.data)
  BY <1>3, CapacityIs
<1>5. g \in Int /\ c.rcv_wnd <= g
  <2> HIDE DEF g
  <2> QED
    BY <1>1, <1>3, <1>4 DEF Window
<1>6. s = IF from >= to THEN [k EXCEPT !.data = << >>] ELSE [k EXCEPT !.seq = from, !.data = data]
  BY DEF Trimmed
<1>7. from = IF k.seq >= c.rcv_nxt THEN k.seq ELSE c.rcv_nxt
  <2>1. k.seq \in Int /\ c.rcv_nxt \in Int
    BY <1>2, <1>3
  <2> QED
    BY <2>1, MaxTwo
<1>8. to = IF k.seq + l <= c.rcv_nxt + g THEN k.seq + l ELSE c.rcv_nxt + g
  <2> HIDE DEF l, g
  <2>0. k.seq \in Int /\ l \in Int /\ c.rcv_nxt \in Int /\ g \in Int
    BY <1>2, <1>3, <1>5
  <2>1. k.seq + l \in Int /\ c.rcv_nxt + g \in Int
    BY <2>0
  <2> QED
    BY <2>1, MinTwo
<1>9. l > 0 => k.seq + l <= c.rcv_nxt + c.rcv_wnd
  BY <1>2 DEF Arrives, After, Edge
<1> HIDE DEF l, from, s, to, g
<1>10. to \in Int /\ (l > 0 => to = k.seq + l) /\ to <= k.seq + l
  <2>1. k.seq \in Int /\ l \in Nat /\ c.rcv_nxt \in Nat /\ c.rcv_wnd \in Nat
    BY <1>2, <1>3
  <2>2. \A q, f, z, h, t \in Int :
          /\ z <= h /\ (l > 0 => q + l <= f + z) /\ t = IF q + l <= f + h THEN q + l ELSE f + h
          => (l > 0 => t = q + l) /\ t <= q + l
    BY <2>1
  <2>3. to \in Int
    BY <1>5, <1>8, <2>1
  <2> QED
    BY <1>5, <1>8, <1>9, <2>1, <2>2, <2>3
<1>11. from \in Int /\ k.seq <= from /\ c.rcv_nxt <= from /\ from \in Nat
  BY <1>2, <1>3, <1>7
<1>12. CASE from >= to
  <2>1. s.data = << >>
    BY <1>1, <1>6, <1>12 DEF Packets
  <2>2. ~(k.ctl /\ c.rcv_nxt = 0)
    <3> SUFFICES ASSUME k.ctl, c.rcv_nxt = 0 PROVE FALSE
      OBVIOUS
    <3>1. k.seq = 0 /\ l = ConnectLen
      BY <1>1 DEF RightPacket, l
    <3>2. to = ConnectLen /\ from = 0
      BY <1>3, <1>7, <1>10, <3>1
    <3> QED
      BY <1>3, <1>12, <3>2
  <2> QED
    BY <2>1, <2>2 DEF s
<1>13. CASE ~(from >= to)
  <2>1. from < to /\ l > 0 /\ to = k.seq + l
    <3>1. from < to
      BY <1>10, <1>11, <1>13
    <3>2. l # 0
      BY <1>2, <1>10, <1>11, <3>1
    <3> QED
      BY <1>2, <1>10, <3>1, <3>2
  <2> DEFINE m == from - k.seq + 1
             n == to - k.seq
  <2>2. m \in 1 .. l + 1 /\ n \in m - 1 .. l /\ n - m + 1 = to - from
    <3>1. \A q \in Int, f \in Int : q <= f /\ f < q + l =>
            f - q + 1 \in 1 .. l + 1 /\ (q + l) - q \in (f - q + 1) - 1 .. l /\ ((q + l) - q) - (f - q + 1) + 1 = (q + l) - f
      BY <1>2
    <3> QED
      BY <1>2, <1>11, <2>1, <3>1
  <2>3. data \in Seq(Int) /\ Len(data) = to - from /\ \A j \in 1 .. to - from : data[j] = k.data[m + j - 1]
    <3> HIDE DEF m, n
    <3>1. data = SubSeq(k.data, m, n)
      BY DEF m, n
    <3>2. m \in 1 .. Len(k.data) + 1 /\ n \in m - 1 .. Len(k.data)
      BY <2>2 DEF l
    <3> HIDE DEF data
    <3> QED
      BY <1>2, <2>2, <3>1, <3>2, SubSeqIs
  <2> HIDE DEF n, data
  <2>4. s \in Packets /\ s.seq = from /\ s.data = data /\ s.ctl = k.ctl
    BY <1>1, <1>6, <1>11, <1>13, <2>3 DEF Packets
  <2> DEFINE h == to - from
  <2>5. h \in Nat /\ h > 0 /\ Len(s.data) = h
    BY <1>10, <1>11, <2>1, <2>3, <2>4
  <2>6. After(s) = After(k)
    <3>1. from + (to - from) = k.seq + l
      BY <1>2, <1>10, <1>11, <2>1
    <3> QED
      BY <2>3, <2>4, <3>1 DEF After, l
  <2>7. \A i \in 1 .. Len(s.data) : s.data[i] = Byte(s.seq + i - 1)
    <3> SUFFICES ASSUME NEW i \in 1 .. h PROVE data[i] = Byte(from + i - 1)
      BY <2>4, <2>5
    <3>1. m + i - 1 \in 1 .. l /\ k.seq + (m + i - 1) - 1 = from + i - 1
      <4>1. \A q \in Int, f \in Int, z \in Int : q <= f /\ z >= 1 /\ z <= (q + l) - f =>
              (f - q + 1) + z - 1 \in 1 .. l /\ q + ((f - q + 1) + z - 1) - 1 = f + z - 1
        BY <1>2
      <4>2. i \in Int /\ i >= 1 /\ i <= (k.seq + l) - from
        BY <2>1, <2>5
      <4> QED
        BY <1>2, <1>11, <4>1, <4>2
    <3>2. k.data[m + i - 1] = Byte(k.seq + (m + i - 1) - 1)
      <4> HIDE DEF m
      <4> QED
        BY <1>1, <3>1 DEF RightPacket, l
    <3> HIDE DEF m
    <3> QED
      BY <2>3, <3>1, <3>2
  <2>8. After(s) <= Edge(c) /\ After(s) <= ConnectLen + v.W /\ After(s) \in v.cuts
    BY <1>2, <2>1, <2>6 DEF Arrives
  <2>9. IF s.ctl THEN c.rcv_nxt = 0 /\ s.seq = 0 /\ Len(s.data) = ConnectLen
        ELSE c.rcv_nxt # 0 /\ s.seq >= ConnectLen
    <3>1. CASE k.ctl
      <4>1. k.seq = 0 /\ l = ConnectLen
        BY <1>1, <3>1 DEF RightPacket, l
      <4>2. c.rcv_nxt = 0 \/ c.rcv_nxt >= ConnectLen
        BY <1>1 DEF Window
      <4>3. c.rcv_nxt = 0
        BY <1>3, <1>11, <2>1, <4>1, <4>2
      <4>4. from = 0
        BY <1>7, <4>1, <4>3
      <4> QED
        BY <1>3, <2>1, <2>4, <2>5, <3>1, <4>1, <4>3, <4>4
    <3>2. CASE ~k.ctl
      <4>1. c.rcv_nxt # 0 /\ k.seq >= ConnectLen
        BY <1>1, <1>2, <2>1, <3>2 DEF RightPacket
      <4>2. from >= ConnectLen
        BY <1>2, <1>3, <1>11, <4>1
      <4> QED
        BY <2>4, <3>2, <4>1, <4>2
    <3> QED
      BY <3>1, <3>2
  <2>10. Fresh(c, s, v)
    <3>1. s.seq \in Nat /\ s.seq >= c.rcv_nxt /\ Len(s.data) > 0
      BY <1>3, <1>11, <2>4, <2>5
    <3> QED
      BY <2>4, <2>7, <2>8, <2>9, <3>1 DEF Fresh
  <2>11. s.data # << >>
    BY <2>4, <2>5, PacketTypes
  <2> QED
    BY <2>10, <2>11 DEF s
<1> QED
  BY <1>12, <1>13

LEMMA Advancing ==
  ASSUME NEW v, View(v), NEW c, Sound(c, v), NEW e, Receives(c, e), NEW n \in Nat, NEW b, Advances(c, b, e, n),
         c.shutdown = "NONE", c.state # "DESTROYED", c.rcv_nxt # 0, n <= c.rcv_wnd,
         c.rcv_nxt + n \in v.cuts, c.rcv_nxt + n <= ConnectLen + v.W
  PROVE  Does(c, e, v)
<1> DEFINE l == Len(c.rbuf.data)
           q == c.rcv_nxt
           rd == v.rd
<1>1. c \in Tcbs /\ e \in Tcbs /\ e.state = c.state /\ e.shutdown = c.shutdown
  BY DEF Sound, Receives
<1>2. RightReceived(c, rd) /\ RightAhead(c) /\ Window(c) /\ Bounded(c, rd, v.W) /\ Joined(c, v)
  BY DEF Sound, Receiver
<1>3. /\ q \in Nat /\ c.rcv_wnd \in Nat /\ l \in Nat /\ RcvBufLen \in Nat /\ ConnectLen \in Nat /\ ConnectLen > 0
      /\ Len(c.rlist) \in Nat /\ \A i \in 1 .. Len(c.rlist) : c.rlist[i].seq \in Nat /\ c.rlist[i].len \in Nat
  BY <1>1, ReceiverTypes, Constants
<1>4. rd \in Seq(Int) /\ Len(rd) \in Nat /\ v.W \in Nat
  BY DEF View
<1>5. l + c.rcv_wnd <= RcvBufLen /\ q >= ConnectLen
  BY <1>2 DEF Window
<1>6. Len(rd) + l = q - ConnectLen
  BY <1>2 DEF RightReceived, Taken
<1>7. b \in Fifos(RcvBufLen) /\ b.data = c.rbuf.data /\ Len(b.data) = l
  BY DEF Advances
<1>8. /\ Len(e.rbuf.data) = l + n
      /\ \A i \in 1 .. l : e.rbuf.data[i] = b.data[i]
      /\ \A i \in 1 .. n : e.rbuf.data[l + i] = b.ahead[i - 1]
      /\ \A j \in 0 .. RcvBufLen - 1 - n : e.rbuf.ahead[j] = b.ahead[j + n]
  <2>1. Len(b.data) + n <= RcvBufLen
    BY <1>3, <1>5, <1>7
  <2>2. e.rbuf = ConsumeWriteBuffer(b, n)
    BY DEF Advances
  <2> DEFINE f == ConsumeWriteBuffer(b, n)
  <2>3. /\ Len(f.data) = Len(b.data) + n
        /\ \A i \in 1 .. Len(b.data) : f.data[i] = b.data[i]
        /\ \A i \in 1 .. n : f.data[Len(b.data) + i] = b.ahead[i - 1]
        /\ \A j \in 0 .. RcvBufLen - 1 - n : f.ahead[j] = b.ahead[j + n]
    <3>1. RcvBufLen \in Nat /\ b \in Fifos(RcvBufLen)
      BY <1>3, <1>7
    <3> HIDE DEF l, q, rd
    <3> QED
      BY <2>1, <3>1, ConsumeWriteIs
  <2> HIDE DEF f
  <2> QED
    BY <1>7, <2>2, <2>3 DEF f
<1>9. e.rcv_nxt = q + n /\ e.rcv_wnd = c.rcv_wnd - n
  BY DEF Advances
<1>10. /\ \A x \in q .. q + n - 1 : b.ahead[x - q] = Byte(x)
       /\ \A j \in n .. RcvBufLen - 1 : b.ahead[j] = c.rbuf.ahead[j]
       /\ \A i \in 1 .. Len(e.rlist) : \E j \in 1 .. Len(c.rlist) : e.rlist[i] = c.rlist[j]
  BY DEF Advances
<1> HIDE DEF l, q, rd
<1>11. Edge(e) = Edge(c)
  <2>1. Edge(c) = q + c.rcv_wnd
    BY DEF Edge, q
  <2>2. (q + n) + (c.rcv_wnd - n) = q + c.rcv_wnd
    BY <1>3
  <2> QED
    BY <1>9, <2>1, <2>2 DEF Edge
<1>12. RightReceived(e, rd)
  <2>1. \A i \in 1 .. Len(rd) : rd[i] = i
    BY <1>2 DEF RightReceived
  <2>2. ASSUME NEW i \in 1 .. l + n PROVE e.rbuf.data[i] = Len(rd) + i
    <3>1. CASE i <= l
      <4>1. i \in 1 .. l
        BY <1>3, <3>1
      <4>2. c.rbuf.data[i] = Len(rd) + i
        BY <1>2, <4>1 DEF RightReceived, l
      <4> QED
        BY <1>7, <1>8, <4>1, <4>2
    <3>2. CASE ~(i <= l)
      <4> DEFINE j == i - l
                 x == q + j - 1
      <4>1. j \in 1 .. n /\ l + j = i /\ x \in q .. q + n - 1 /\ x - q = j - 1
        BY <1>3, <3>2
      <4>2. x >= ConnectLen /\ x - ConnectLen + 1 = Len(rd) + i /\ ~(x < ConnectLen)
        <5>1. \A a, r, z, y, h \in Int : r + z = a - h /\ a >= h /\ y >= 1 =>
                a + y - 1 >= h /\ (a + y - 1) - h + 1 = r + (z + y)
          OBVIOUS
        <5>2. q \in Int /\ Len(rd) \in Int /\ l \in Int /\ j \in Int /\ ConnectLen \in Int /\ j >= 1
          BY <1>3, <1>4, <4>1
        <5> HIDE DEF j
        <5>3. q + j - 1 >= ConnectLen /\ (q + j - 1) - ConnectLen + 1 = Len(rd) + (l + j)
          BY <1>5, <1>6, <5>1, <5>2
        <5>4. q + j - 1 \in Int
          BY <5>2
        <5> QED
          BY <4>1, <5>2, <5>3, <5>4
      <4> HIDE DEF j, x
      <4>3. e.rbuf.data[i] = b.ahead[x - q]
        BY <1>8, <4>1
      <4>4. b.ahead[x - q] = Byte(x)
        BY <1>10, <4>1
      <4> QED
        BY <4>2, <4>3, <4>4 DEF Byte
    <3> QED
      BY <3>1, <3>2
  <2>3. Taken(e) = Len(rd) + (l + n)
    <3>1. e.rcv_nxt # 0 /\ e.rcv_nxt - ConnectLen = Len(rd) + (l + n)
      <4>1. \A a, r, z, h, y \in Nat : r + z = a - h /\ a >= h /\ h > 0 => a + y # 0 /\ (a + y) - h = r + (z + y)
        OBVIOUS
      <4>2. q \in Nat /\ Len(rd) \in Nat /\ l \in Nat /\ ConnectLen \in Nat /\ ConnectLen > 0
        BY <1>3, <1>4
      <4>3. q + n # 0 /\ (q + n) - ConnectLen = Len(rd) + (l + n)
        BY <1>5, <1>6, <4>1, <4>2
      <4> QED
        BY <1>9, <4>3
    <3> QED
      BY <3>1 DEF Taken
  <2>4. Len(rd) + (l + n) \in Nat
    BY <1>3, <1>4
  <2> QED
    BY <1>8, <2>1, <2>2, <2>3, <2>4 DEF RightReceived
<1>13. RightAhead(e)
  <2> SUFFICES ASSUME NEW i \in 1 .. Len(e.rlist),
                      NEW x \in e.rlist[i].seq .. e.rlist[i].seq + e.rlist[i].len - 1, x >= e.rcv_nxt
               PROVE  e.rbuf.ahead[x - e.rcv_nxt] = Byte(x)
    BY DEF RightAhead
  <2>1. PICK j \in 1 .. Len(c.rlist) : e.rlist[i] = c.rlist[j]
    BY <1>10
  <2>2. x \in c.rlist[j].seq .. c.rlist[j].seq + c.rlist[j].len - 1 /\ c.rlist[j].seq \in Nat /\ c.rlist[j].len \in Nat
    BY <1>3, <2>1
  <2>3. x \in Int /\ x >= q + n /\ x < c.rlist[j].seq + c.rlist[j].len
    <3>1. \A a, z \in Nat : \A y \in a .. a + z - 1 : y \in Int /\ y < a + z
      OBVIOUS
    <3> QED
      BY <1>9, <2>2, <3>1
  <2>4. c.rlist[j].seq + c.rlist[j].len <= q + c.rcv_wnd
    BY <1>2 DEF Window, Edge, q
  <2>5. x < q + c.rcv_wnd /\ x >= q
    <3>1. \A y, a, z, t \in Int : y < a /\ a <= z + t => y < z + t
      OBVIOUS
    <3>2. c.rlist[j].seq + c.rlist[j].len \in Int
      BY <2>2
    <3>3. x < q + c.rcv_wnd
      BY <1>3, <2>3, <2>4, <3>1, <3>2
    <3> QED
      BY <1>3, <2>3, <3>3
  <2>6. c.rbuf.ahead[x - q] = Byte(x)
    BY <1>2, <2>2, <2>5 DEF RightAhead, q
  <2> DEFINE y == x - (q + n)
  <2>7. y \in 0 .. RcvBufLen - 1 - n /\ y + n = x - q /\ x - q \in n .. RcvBufLen - 1
    BY <1>3, <1>5, <2>3, <2>5
  <2> HIDE DEF y
  <2>8. e.rbuf.ahead[y] = b.ahead[x - q] /\ b.ahead[x - q] = c.rbuf.ahead[x - q]
    BY <1>8, <1>10, <2>7
  <2> QED
    BY <1>9, <2>6, <2>8 DEF y
<1>14. Window(e)
  <2>1. Len(e.rbuf.data) + e.rcv_wnd <= RcvBufLen
    <3>1. (l + n) + (c.rcv_wnd - n) = l + c.rcv_wnd
      BY <1>3
    <3> QED
      BY <1>5, <1>8, <1>9, <3>1
  <2>2. e.rcv_nxt # 0 /\ e.rcv_nxt >= ConnectLen
    BY <1>3, <1>5, <1>9
  <2>3. ASSUME NEW i \in 1 .. Len(e.rlist)
        PROVE  e.rlist[i].seq >= ConnectLen /\ e.rlist[i].seq + e.rlist[i].len <= Edge(e)
    BY <1>2, <1>10, <1>11 DEF Window
  <2> QED
    BY <2>1, <2>2, <2>3 DEF Window
<1>15. Bounded(e, rd, v.W)
  <2>1. Len(rd) <= v.W
    BY <1>2 DEF Bounded
  <2>2. e.rcv_nxt <= ConnectLen + v.W
    BY <1>9 DEF q
  <2>3. ASSUME NEW i \in 1 .. Len(e.rlist) PROVE e.rlist[i].seq + e.rlist[i].len <= ConnectLen + v.W
    BY <1>2, <1>10 DEF Bounded
  <2> QED
    BY <2>1, <2>2, <2>3 DEF Bounded
<1>16. Receiver(e, v.rd, v.W)
  BY <1>12, <1>13, <1>14, <1>15 DEF Receiver, rd
<1>17. c.rcv_nxt <= e.rcv_nxt /\ Edge(c) <= Edge(e)
  BY <1>1, <1>3, <1>9, <1>11, GrowsTypes DEF q
<1>18. e.rcv_nxt \in v.cuts
  BY <1>9 DEF q
<1>19. ASSUME NEW i \in 1 .. Len(e.rlist) PROVE e.rlist[i].seq + e.rlist[i].len \in v.cuts
  BY <1>2, <1>10 DEF Joined
<1> QED
  BY <1>16, <1>17, <1>18, <1>19, ReceivesSound

\* What was saved and follows what came in order becomes readable.
LEMMA Recovering ==
  ASSUME NEW v, View(v), NEW c, Sound(c, v), c.shutdown = "NONE", c.state # "DESTROYED", c.rcv_nxt # 0
  PROVE  Does(c, Recover(c), v) /\ Recover(c).state = c.state
<1> DEFINE m == Len(c.rlist)
           Stop(j) == c.rlist[j].seq + c.rlist[j].len
           q == c.rcv_nxt
           G(f) == [j \in 0 .. m |-> IF j = 0 THEN q ELSE Max({f[j - 1], Stop(j)})]
           reach == CHOOSE f : f = G(f)
           T == {j \in 0 .. m : j < m => c.rlist[j + 1].seq > reach[j]}
           k == Min(T)
           n == reach[k] - q
           b == ConsumeWriteBuffer(c.rbuf, n)
           s == SubSeq(c.rlist, k + 1, m)
           e == [c EXCEPT !.rbuf = b, !.rcv_nxt = q + n, !.rcv_wnd = c.rcv_wnd - n, !.rlist = s]
<1>1. c \in Tcbs /\ RightAhead(c) /\ Window(c) /\ Bounded(c, v.rd, v.W) /\ Joined(c, v)
  BY DEF Sound, Receiver
<1>2. /\ q \in Nat /\ c.rcv_wnd \in Nat /\ m \in Nat /\ Len(c.rbuf.data) \in Nat /\ RcvBufLen \in Nat
      /\ \A i \in 1 .. m : c.rlist[i].seq \in Nat /\ c.rlist[i].len \in Nat
      /\ c.rlist \in Seq(RSegments) /\ c.rbuf \in Fifos(RcvBufLen)
  BY <1>1, ReceiverTypes, Constants
<1>3. Recover(c) = e
  BY DEF Recover
<1>4. ASSUME NEW j \in 1 .. m PROVE Stop(j) \in Nat
  <2>1. c.rlist[j].seq \in Nat /\ c.rlist[j].len \in Nat
    BY <1>2
  <2> QED
    BY <2>1
<1> DEFINE Reached(y) == /\ y \in Nat /\ q <= y /\ y <= Edge(c) /\ y <= ConnectLen + v.W /\ y \in v.cuts
                         /\ \A x \in q .. y - 1 : c.rbuf.ahead[x - q] = Byte(x)
<1>5. \A j \in 1 .. m : Stop(j) <= Edge(c) /\ Stop(j) <= ConnectLen + v.W /\ Stop(j) \in v.cuts
  BY <1>1 DEF Window, Bounded, Joined
<1>6. \A j \in 1 .. m : \A x \in c.rlist[j].seq .. c.rlist[j].seq + c.rlist[j].len - 1 :
        x >= q => c.rbuf.ahead[x - q] = Byte(x)
  BY <1>1 DEF RightAhead
<1>7. Reached(q)
  <2>1. q <= Edge(c) /\ q <= ConnectLen + v.W /\ q \in v.cuts
    BY <1>1, <1>2 DEF Edge, Bounded, Joined
  <2>2. \A x \in q .. q - 1 : FALSE
    BY <1>2
  <2> QED
    BY <1>2, <2>1, <2>2
<1> HIDE DEF Stop, m, e
<1>8. \E f : f = G(f)
  <2> DEFINE step == [j \in 1 .. m |-> [t \in Nat |-> Max({t, Stop(j)})]]
  <2>1. \A j \in 1 .. m : \A t \in Nat : step[j][t] = Max({t, Stop(j)})
    OBVIOUS
  <2>2. \A j \in 1 .. m : \A t \in Nat : Max({t, Stop(j)}) \in Nat
    BY <1>4, MaxTwo
  <2>3. Steps(step, m, Nat)
    BY <2>1, <2>2 DEF Steps
  <2> HIDE DEF step
  <2>4. PICK f : Follows(f, step, q, m, Nat)
    BY <1>2, <2>3, Recursion
  <2>5. f \in [0 .. m -> Nat] /\ f[0] = q /\ \A j \in 1 .. m : f[j] = step[j][f[j - 1]]
    BY <2>4 DEF Follows
  <2>6. \A j \in 0 .. m : j # 0 => j \in 1 .. m /\ j - 1 \in 0 .. m
    BY <1>2
  <2>7. \A j \in 0 .. m : f[j] = IF j = 0 THEN q ELSE Max({f[j - 1], Stop(j)})
    BY <2>1, <2>5, <2>6
  <2>8. f = G(f)
    BY <2>5, <2>7
  <2> QED
    BY <2>8
<1>9. reach = G(reach)
  <2> HIDE DEF G
  <2> QED
    BY <1>8
<1> HIDE DEF reach
<1>10. reach[0] = q /\ \A j \in 1 .. m : reach[j] = Max({reach[j - 1], Stop(j)})
  <2>1. 0 \in 0 .. m /\ \A j \in 1 .. m : j \in 0 .. m /\ j # 0
    BY <1>2
  <2>2. \A j \in 0 .. m : G(reach)[j] = IF j = 0 THEN q ELSE Max({reach[j - 1], Stop(j)})
    OBVIOUS
  <2> HIDE DEF G
  <2> QED
    BY <1>9, <2>1, <2>2
<1>11. T \in SUBSET Nat /\ T # {}
  <2>1. m \in T
    BY <1>2
  <2> QED
    BY <2>1
<1>12. k \in T /\ \A y \in T : k <= y
  <2> HIDE DEF T
  <2> QED
    BY <1>11, MinOfSet
<1>13. k \in 0 .. m
  BY <1>12
<1>14. \A j \in 0 .. k - 1 : j \in 0 .. m /\ j + 1 \in 1 .. m /\ ~(c.rlist[j + 1].seq > reach[j])
  <2> SUFFICES ASSUME NEW j \in 0 .. k - 1
               PROVE  j \in 0 .. m /\ j + 1 \in 1 .. m /\ ~(c.rlist[j + 1].seq > reach[j])
    OBVIOUS
  <2>1. j \in 0 .. m /\ j + 1 \in 1 .. m /\ ~(k <= j)
    <3> HIDE DEF k
    <3> QED
      BY <1>2, <1>13
  <2>2. j \notin T
    BY <1>12, <2>1
  <2> QED
    BY <2>1, <2>2
<1> HIDE DEF k, T
<1>15. Reached(reach[k])
  <2> DEFINE F == {j \in 0 .. k : Reached(reach[j])}
  <2>1. 0 \in F
    BY <1>2, <1>7, <1>10, <1>13
  <2>2. ASSUME NEW j \in 0 .. k - 1, j \in F PROVE j + 1 \in F
    <3> DEFINE h == j + 1
               y == reach[j]
               z == Stop(h)
    <3>1. h \in 1 .. m /\ h - 1 = j /\ h \in 0 .. k /\ j \in 0 .. m
      BY <1>2, <1>13, <1>14
    <3>2. Reached(y)
      BY <2>2
    <3>3. c.rlist[h].seq \in Nat /\ ~(c.rlist[h].seq > y) /\ z \in Nat
      BY <1>2, <1>4, <1>14, <3>1
    <3>4. reach[h] = Max({y, z})
      BY <1>10, <3>1
    <3>5. /\ z <= Edge(c) /\ z <= ConnectLen + v.W /\ z \in v.cuts
          /\ \A x \in c.rlist[h].seq .. z - 1 : x >= q => c.rbuf.ahead[x - q] = Byte(x)
      <4>1. z <= Edge(c) /\ z <= ConnectLen + v.W /\ z \in v.cuts
        BY <1>5, <3>1
      <4>2. \A x \in c.rlist[h].seq .. z - 1 : x >= q => c.rbuf.ahead[x - q] = Byte(x)
        <5>1. \A x \in c.rlist[h].seq .. c.rlist[h].seq + c.rlist[h].len - 1 : x >= q => c.rbuf.ahead[x - q] = Byte(x)
          BY <1>6, <3>1
        <5>2. z = c.rlist[h].seq + c.rlist[h].len
          BY DEF Stop
        <5> HIDE DEF h, z
        <5>3. c.rlist[h].seq .. z - 1 = c.rlist[h].seq .. c.rlist[h].seq + c.rlist[h].len - 1
          <6>1. c.rlist[h].seq \in Nat /\ c.rlist[h].len \in Nat
            BY <1>2, <3>1
          <6>2. \A a1, a2 \in Nat : (a1 + a2) - 1 = a1 + a2 - 1
            OBVIOUS
          <6> QED
            BY <5>2, <6>1, <6>2, Zenon
        <5> QED
          BY <5>1, <5>3, Zenon
      <4> QED
        BY <4>1, <4>2
    <3> HIDE DEF h, y, z
    <3>6. Max({y, z}) = IF y >= z THEN y ELSE z
      BY <3>2, <3>3, MaxTwo
    <3>7. CASE y >= z
      BY <3>1, <3>2, <3>4, <3>6, <3>7 DEF h
    <3>8. CASE ~(y >= z)
      <4>1. reach[h] = z
        BY <3>4, <3>6, <3>8
      <4>2. q <= z
        BY <1>2, <3>2, <3>3, <3>8
      <4>3. ASSUME NEW x \in q .. z - 1 PROVE c.rbuf.ahead[x - q] = Byte(x)
        <5>1. x \in Int /\ x >= q /\ x <= z - 1
          BY <1>2, <3>3
        <5>2. CASE x < y
          <6>1. x \in q .. y - 1
            BY <1>2, <3>2, <5>1, <5>2
          <6> QED
            BY <3>2, <6>1
        <5>3. CASE ~(x < y)
          <6>1. x \in c.rlist[h].seq .. z - 1
            BY <3>2, <3>3, <5>1, <5>3
          <6> QED
            BY <3>5, <5>1, <6>1
        <5> QED
          BY <5>2, <5>3
      <4>4. Reached(z)
        BY <3>3, <3>5, <4>2, <4>3
      <4> HIDE DEF Reached
      <4> QED
        BY <3>1, <4>1, <4>4 DEF h
    <3> QED
      BY <3>7, <3>8
  <2>3. k \in Nat
    BY <1>2, <1>13
  <2> HIDE DEF F
  <2>4. 0 .. k \subseteq F
    BY <2>1, <2>2, <2>3, UpTo
  <2>5. k \in F
    BY <2>3, <2>4
  <2> QED
    BY <2>5 DEF F
<1>16. n \in Nat /\ q + n = reach[k] /\ n <= c.rcv_wnd
  <2>1. reach[k] \in Nat /\ q <= reach[k] /\ reach[k] <= q + c.rcv_wnd
    BY <1>15 DEF Edge
  <2> QED
    BY <1>2, <2>1
<1>17. q + n \in v.cuts /\ q + n <= ConnectLen + v.W /\ \A x \in q .. q + n - 1 : c.rbuf.ahead[x - q] = Byte(x)
  <2>1. reach[k] \in v.cuts /\ reach[k] <= ConnectLen + v.W /\ \A x \in q .. reach[k] - 1 : c.rbuf.ahead[x - q] = Byte(x)
    BY <1>15
  <2> HIDE DEF n
  <2>2. q + n \in v.cuts /\ q + n <= ConnectLen + v.W
    BY <1>16, <2>1
  <2>3. ASSUME NEW x \in q .. q + n - 1 PROVE c.rbuf.ahead[x - q] = Byte(x)
    <3>1. x \in q .. reach[k] - 1
      <4>1. q \in Nat /\ reach[k] \in Nat /\ q + n \in Nat
        BY <1>2, <1>16
      <4> QED
        BY <1>16, <4>1
    <3> QED
      BY <2>1, <3>1
  <2> QED
    BY <2>2, <2>3
<1> HIDE DEF n, Reached, G
<1>18. b \in Fifos(RcvBufLen)
  <2>1. Len(c.rbuf.data) + c.rcv_wnd <= RcvBufLen
    BY <1>1 DEF Window
  <2>2. Len(c.rbuf.data) + n <= RcvBufLen
    BY <1>2, <1>16, <2>1
  <2> QED
    BY <1>2, <1>16, <2>2, ConsumeWriteIs
<1>19. s \in Seq(RSegments) /\ \A i \in 1 .. Len(s) : \E j \in 1 .. m : s[i] = c.rlist[j]
  <2> DEFINE h == k + 1
  <2>1. h \in 1 .. m + 1 /\ m \in h - 1 .. m
    BY <1>2, <1>13
  <2> HIDE DEF h
  <2>2. s = SubSeq(c.rlist, h, m)
    BY DEF h
  <2>3. s \in Seq(RSegments) /\ Len(s) = m - h + 1 /\ \A i \in 1 .. m - h + 1 : s[i] = c.rlist[h + i - 1]
    <3>1. h \in 1 .. Len(c.rlist) + 1 /\ m \in h - 1 .. Len(c.rlist)
      BY <2>1 DEF m
    <3> HIDE DEF s
    <3> QED
      BY <1>2, <2>2, <3>1, SubSeqIs
  <2>4. \A i \in 1 .. m - h + 1 : h + i - 1 \in 1 .. m
    BY <1>2, <2>1
  <2> HIDE DEF s
  <2> QED
    BY <2>3, <2>4
<1>20. q + n \in Nat /\ c.rcv_wnd - n \in Nat
  <2>1. q \in Nat /\ c.rcv_wnd \in Nat
    BY <1>2
  <2> QED
    BY <1>16, <2>1
<1>21. /\ Receives(c, e) /\ e.rbuf = b /\ e.rcv_nxt = q + n /\ e.rcv_wnd = c.rcv_wnd - n /\ e.rlist = s
       /\ e.state = c.state
  <2> DEFINE a1 == q + n
             a2 == c.rcv_wnd - n
             f == [c EXCEPT !.rbuf = b, !.rcv_nxt = a1, !.rcv_wnd = a2, !.rlist = s]
  <2>1. a1 \in Nat /\ a2 \in Nat /\ e = f
    BY <1>20 DEF e
  <2> HIDE DEF a1, a2, b, s
  <2>2. /\ f \in Tcbs /\ SameSender(c, f) /\ f.slist = c.slist /\ f.out = c.out
        /\ f.state = c.state /\ f.shutdown = c.shutdown
        /\ f.rbuf = b /\ f.rcv_nxt = a1 /\ f.rcv_wnd = a2 /\ f.rlist = s
    BY <1>1, <1>18, <1>19, <2>1 DEF Tcbs, SameSender
  <2> HIDE DEF f
  <2> QED
    BY <2>1, <2>2 DEF Receives, a1, a2
<1>22. Advances(c, c.rbuf, e, n)
  <2> HIDE DEF s
  <2> QED
    BY <1>2, <1>17, <1>19, <1>21 DEF Advances, m
<1> HIDE DEF b, s
<1>23. Does(c, e, v)
  BY <1>16, <1>17, <1>21, <1>22, Advancing
<1> QED
  BY <1>3, <1>21, <1>23

Accepted(c, s) ==
  LET n == Len(s.data)
  IN [c EXCEPT !.rbuf = ConsumeWriteBuffer(WriteOffset(@, s.data, 0), n), !.rcv_nxt = @ + n, !.rcv_wnd = @ - n]

LEMMA FreshTypes ==
  ASSUME NEW v, View(v), NEW c, Sound(c, v), NEW s, Fresh(c, s, v)
  PROVE  /\ s.data \in Seq(Int) /\ Len(s.data) \in Nat /\ Len(s.data) > 0 /\ s.seq \in Nat /\ s.seq >= c.rcv_nxt
         /\ After(s) = s.seq + Len(s.data) /\ s.seq + Len(s.data) <= c.rcv_nxt + c.rcv_wnd
         /\ c.rcv_nxt \in Nat /\ c.rcv_wnd \in Nat /\ Len(c.rbuf.data) \in Nat /\ RcvBufLen \in Nat
         /\ c.rbuf \in Fifos(RcvBufLen) /\ Len(c.rbuf.data) + c.rcv_wnd <= RcvBufLen
         /\ Len(c.rbuf.data) + (s.seq - c.rcv_nxt) + Len(s.data) <= RcvBufLen
<1>1. c \in Tcbs /\ Window(c) /\ s \in Packets
  BY DEF Sound, Receiver, Fresh
<1>2. s.data \in Seq(Int) /\ Len(s.data) \in Nat
  BY <1>1, PacketTypes
<1>3. Len(s.data) > 0 /\ s.seq \in Nat /\ s.seq >= c.rcv_nxt /\ s.seq + Len(s.data) <= c.rcv_nxt + c.rcv_wnd
  BY DEF Fresh, After, Edge
<1>4. /\ c.rcv_nxt \in Nat /\ c.rcv_wnd \in Nat /\ Len(c.rbuf.data) \in Nat /\ RcvBufLen \in Nat
      /\ c.rbuf \in Fifos(RcvBufLen)
  BY <1>1, ReceiverTypes, Constants
<1>5. Len(c.rbuf.data) + c.rcv_wnd <= RcvBufLen
  BY <1>1 DEF Window
<1>6. \A a, l, q, w, z, m \in Nat : a + l <= q + w /\ z + w <= m /\ a >= q => z + (a - q) + l <= m
  OBVIOUS
<1> QED
  BY <1>2, <1>3, <1>4, <1>5, <1>6 DEF After

LEMMA Accepting ==
  ASSUME NEW v, View(v), NEW c, Sound(c, v), NEW s, Fresh(c, s, v), s.seq = c.rcv_nxt, c.rcv_nxt # 0,
         c.shutdown = "NONE", c.state # "DESTROYED"
  PROVE  LET e == Accepted(c, s) IN
         Does(c, e, v) /\ e.state = c.state /\ e.shutdown = c.shutdown /\ e.rcv_nxt = c.rcv_nxt + Len(s.data)
<1> DEFINE n == Len(s.data)
           b == WriteOffset(c.rbuf, s.data, 0)
           f == ConsumeWriteBuffer(b, n)
           x1 == c.rcv_nxt + n
           w1 == c.rcv_wnd - n
           e == [c EXCEPT !.rbuf = f, !.rcv_nxt = x1, !.rcv_wnd = w1]
<1>1. c \in Tcbs
  BY DEF Sound
<1>2. /\ s.data \in Seq(Int) /\ n \in Nat /\ c.rcv_nxt \in Nat /\ c.rcv_wnd \in Nat
      /\ Len(c.rbuf.data) \in Nat /\ RcvBufLen \in Nat /\ c.rbuf \in Fifos(RcvBufLen)
      /\ Len(c.rbuf.data) + c.rcv_wnd <= RcvBufLen /\ c.rcv_nxt + n <= c.rcv_nxt + c.rcv_wnd
      /\ After(s) = c.rcv_nxt + n
  BY FreshTypes
<1>3. Accepted(c, s) = e
  BY DEF Accepted
<1> HIDE DEF n
<1>4. n <= c.rcv_wnd /\ Len(c.rbuf.data) + n <= RcvBufLen /\ x1 \in Nat /\ w1 \in Nat
  BY <1>2
<1>5. /\ b \in Fifos(RcvBufLen) /\ b.data = c.rbuf.data
      /\ \A j \in 0 .. RcvBufLen - 1 : b.ahead[j] = IF j \in 0 .. n - 1 THEN s.data[j + 1] ELSE c.rbuf.ahead[j]
  <2> DEFINE o == 0
             t == s.data
  <2>1. o \in Nat /\ t \in Seq(Int) /\ c.rbuf \in Fifos(RcvBufLen) /\ RcvBufLen \in Nat /\ b = WriteOffset(c.rbuf, t, o)
    BY <1>2
  <2>2. Len(c.rbuf.data) + o + Len(t) <= RcvBufLen
    <3>1. \A z \in Nat : z + 0 = z
      OBVIOUS
    <3> QED
      BY <1>2, <1>4, <3>1 DEF n
  <2>3. \A j \in 0 .. RcvBufLen - 1 : j - o + 1 = j + 1 /\ o .. o + Len(t) - 1 = 0 .. n - 1
    BY <1>2 DEF n
  <2> HIDE DEF o, t, b
  <2>4. /\ b \in Fifos(RcvBufLen) /\ b.data = c.rbuf.data
        /\ \A j \in 0 .. RcvBufLen - 1 :
             b.ahead[j] = IF j \in o .. o + Len(t) - 1 THEN t[j - o + 1] ELSE c.rbuf.ahead[j]
    BY <2>1, <2>2, WriteOffsetIs
  <2> QED
    BY <2>3, <2>4 DEF t
<1> HIDE DEF b
<1>6. f \in Fifos(RcvBufLen)
  BY <1>2, <1>4, <1>5, ConsumeWriteIs
<1> HIDE DEF f, x1, w1
<1>7. /\ e \in Tcbs /\ SameSender(c, e) /\ e.slist = c.slist /\ e.out = c.out
      /\ e.state = c.state /\ e.shutdown = c.shutdown
      /\ e.rbuf = f /\ e.rcv_nxt = x1 /\ e.rcv_wnd = w1 /\ e.rlist = c.rlist
  BY <1>1, <1>4, <1>6 DEF Tcbs, SameSender
<1> HIDE DEF e
<1>8. Receives(c, e)
  BY <1>7 DEF Receives
<1>9. \A x \in c.rcv_nxt .. c.rcv_nxt + n - 1 : b.ahead[x - c.rcv_nxt] = Byte(x)
  <2> SUFFICES ASSUME NEW x \in c.rcv_nxt .. c.rcv_nxt + n - 1 PROVE b.ahead[x - c.rcv_nxt] = Byte(x)
    OBVIOUS
  <2> DEFINE j == x - c.rcv_nxt
  <2>1. j \in 0 .. RcvBufLen - 1 /\ j \in 0 .. n - 1 /\ j + 1 \in 1 .. n /\ c.rcv_nxt + (j + 1) - 1 = x
    <3>1. \A q, z, m, l \in Nat : l + z <= m =>
            \A y \in q .. q + z - 1 : y - q \in 0 .. m - 1 /\ y - q \in 0 .. z - 1 /\ (y - q) + 1 \in 1 .. z
                                    /\ q + ((y - q) + 1) - 1 = y
      OBVIOUS
    <3> QED
      BY <1>2, <1>4, <3>1
  <2> HIDE DEF j
  <2>2. b.ahead[j] = s.data[j + 1]
    BY <1>5, <2>1
  <2>3. s.data[j + 1] = Byte(c.rcv_nxt + (j + 1) - 1)
    BY <2>1 DEF Fresh, n
  <2> QED
    BY <2>1, <2>2, <2>3 DEF j
<1>10. \A j \in n .. RcvBufLen - 1 : b.ahead[j] = c.rbuf.ahead[j]
  <2>1. \A j \in n .. RcvBufLen - 1 : j \in 0 .. RcvBufLen - 1 /\ ~(j \in 0 .. n - 1)
    BY <1>2
  <2> QED
    BY <1>5, <2>1
<1>11. Advances(c, b, e, n)
  BY <1>5, <1>7, <1>9, <1>10 DEF Advances, f, x1, w1
<1>12. c.rcv_nxt + n \in v.cuts /\ c.rcv_nxt + n <= ConnectLen + v.W
  BY <1>2 DEF Fresh
<1>13. Does(c, e, v)
  BY <1>2, <1>4, <1>8, <1>11, <1>12, Advancing
<1> QED
  BY <1>3, <1>7, <1>13 DEF n, x1

LEMMA InOrderData ==
  ASSUME NEW v, View(v), NEW c, Sound(c, v), NEW s, Fresh(c, s, v), s.seq = c.rcv_nxt, c.rcv_nxt # 0,
         c.shutdown = "NONE", c.state # "DESTROYED"
  PROVE  Does(c, InOrder(c, s), v) /\ InOrder(c, s).state = c.state
<1> DEFINE d == Accepted(c, s)
<1>1. InOrder(c, s) = Recover(d)
  BY DEF InOrder, Accepted
<1>2. Does(c, d, v) /\ d.state = c.state /\ d.shutdown = c.shutdown /\ d.rcv_nxt = c.rcv_nxt + Len(s.data)
  BY Accepting
<1>3. c.rcv_nxt \in Nat /\ Len(s.data) \in Nat
  BY FreshTypes
<1> HIDE DEF d
<1>4. d.rcv_nxt # 0 /\ Sound(d, v)
  BY <1>2, <1>3 DEF Does
<1>5. Does(d, Recover(d), v) /\ Recover(d).state = d.state
  BY <1>2, <1>4, Recovering
<1>6. Does(c, Recover(d), v)
  BY <1>2, <1>5, DoesTrans
<1> QED
  BY <1>1, <1>2, <1>5, <1>6

LEMMA OutOfOrderData ==
  ASSUME NEW v, View(v), NEW c, Sound(c, v), NEW s, Fresh(c, s, v), c.rcv_nxt # 0, s.seq >= ConnectLen
  PROVE  Does(c, OutOfOrder(c, s), v) /\ OutOfOrder(c, s).state = c.state /\ OutOfOrder(c, s).rcv_nxt = c.rcv_nxt
<1> DEFINE n == Len(s.data)
           m == Len(c.rlist)
           o == s.seq - c.rcv_nxt
           place == Min({m + 1} \cup {j \in 1 .. m : c.rlist[j].seq >= s.seq})
           new == [seq |-> s.seq, len |-> n]
           b == WriteOffset(c.rbuf, s.data, o)
           t == InsertAt(c.rlist, place, new)
           e == [c EXCEPT !.rbuf = b, !.rlist = t]
<1>1. c \in Tcbs /\ RightReceived(c, v.rd) /\ RightAhead(c) /\ Window(c) /\ Bounded(c, v.rd, v.W) /\ Joined(c, v)
  BY DEF Sound, Receiver
<1>2. /\ s.data \in Seq(Int) /\ n \in Nat /\ s.seq \in Nat /\ s.seq >= c.rcv_nxt
      /\ c.rcv_nxt \in Nat /\ c.rcv_wnd \in Nat /\ Len(c.rbuf.data) \in Nat /\ RcvBufLen \in Nat
      /\ c.rbuf \in Fifos(RcvBufLen) /\ Len(c.rbuf.data) + c.rcv_wnd <= RcvBufLen
      /\ Len(c.rbuf.data) + o + n <= RcvBufLen /\ After(s) = s.seq + n
  BY FreshTypes
<1>3. /\ m \in Nat /\ c.rlist \in Seq(RSegments)
      /\ \A i \in 1 .. m : c.rlist[i].seq \in Nat /\ c.rlist[i].len \in Nat
  BY <1>1, ReceiverTypes
<1>4. OutOfOrder(c, s) = e
  BY DEF OutOfOrder
<1>5. o \in Nat
  BY <1>2
<1>6. /\ b \in Fifos(RcvBufLen) /\ b.data = c.rbuf.data
      /\ \A j \in 0 .. RcvBufLen - 1 : b.ahead[j] = IF j \in o .. o + n - 1 THEN s.data[j - o + 1] ELSE c.rbuf.ahead[j]
  <2> DEFINE d == s.data
  <2>1. o \in Nat /\ d \in Seq(Int) /\ c.rbuf \in Fifos(RcvBufLen) /\ RcvBufLen \in Nat /\ b = WriteOffset(c.rbuf, d, o)
    BY <1>2, <1>5
  <2>2. Len(c.rbuf.data) + o + Len(d) <= RcvBufLen
    BY <1>2
  <2>4. n = Len(d)
    OBVIOUS
  <2> HIDE DEF o, d, b, n
  <2> DEFINE a == c.rbuf
  <2>3. ASSUME a \in Fifos(RcvBufLen), Len(a.data) + o + Len(d) <= RcvBufLen
        PROVE  LET e1 == WriteOffset(a, d, o) IN
               /\ e1 \in Fifos(RcvBufLen) /\ e1.data = a.data
               /\ \A j \in 0 .. RcvBufLen - 1 :
                    e1.ahead[j] = IF j \in o .. o + Len(d) - 1 THEN d[j - o + 1] ELSE a.ahead[j]
    <3> HIDE DEF a
    <3> QED
      BY <2>1, <2>3, WriteOffsetIs, SMT
  <2>5. /\ b \in Fifos(RcvBufLen) /\ b.data = c.rbuf.data
        /\ \A j \in 0 .. RcvBufLen - 1 :
             b.ahead[j] = IF j \in o .. o + Len(d) - 1 THEN d[j - o + 1] ELSE c.rbuf.ahead[j]
    BY <2>1, <2>2, <2>3
  <2> QED
    BY <2>4, <2>5 DEF d
<1> HIDE DEF n, o
<1>7. place \in 1 .. m + 1
  <2> DEFINE P == {m + 1} \cup {j \in 1 .. m : c.rlist[j].seq >= s.seq}
  <2>1. P \in SUBSET Nat /\ P # {} /\ P \subseteq 1 .. m + 1
    BY <1>3
  <2>2. Min(P) \in P
    <3> HIDE DEF P
    <3> QED
      BY <2>1, MinOfSet
  <2> QED
    BY <2>1, <2>2
<1> HIDE DEF place
<1>8. new \in RSegments /\ new.seq = s.seq /\ new.len = n
  BY <1>2 DEF RSegments
<1> HIDE DEF new, b
<1>9. /\ t \in Seq(RSegments) /\ Len(t) = m + 1
      /\ \A j \in 1 .. m + 1 : t[j] = IF j < place THEN c.rlist[j] ELSE IF j = place THEN new ELSE c.rlist[j - 1]
  <2> DEFINE l == c.rlist
  <2>1. l \in Seq(RSegments) /\ new \in RSegments /\ place \in 1 .. Len(l) + 1 /\ t = InsertAt(l, place, new)
    BY <1>3, <1>7, <1>8
  <2> HIDE DEF l, t
  <2>2. /\ t \in Seq(RSegments) /\ Len(t) = Len(l) + 1
        /\ \A j \in 1 .. Len(l) + 1 : t[j] = IF j < place THEN l[j] ELSE IF j = place THEN new ELSE l[j - 1]
    BY <2>1, InsertedAt
  <2> QED
    BY <2>2 DEF l
<1> HIDE DEF t
<1>10. \A j \in 1 .. Len(t) : t[j] = new \/ \E i \in 1 .. m : t[j] = c.rlist[i]
  <2> SUFFICES ASSUME NEW j \in 1 .. m + 1 PROVE t[j] = new \/ \E i \in 1 .. m : t[j] = c.rlist[i]
    BY <1>9
  <2>1. CASE j < place
    <3>1. j \in 1 .. m
      BY <1>3, <1>7, <2>1
    <3> QED
      BY <1>9, <2>1, <3>1
  <2>2. CASE j = place
    <3>1. ~(j < place)
      BY <1>3, <2>2
    <3> QED
      BY <1>9, <2>2, <3>1
  <2>3. CASE ~(j < place) /\ j # place
    <3>1. j - 1 \in 1 .. m
      BY <1>3, <1>7, <2>3
    <3> QED
      BY <1>9, <2>3, <3>1
  <2> QED
    BY <2>1, <2>2, <2>3
<1>11. /\ e \in Tcbs /\ SameSender(c, e) /\ e.slist = c.slist /\ e.out = c.out
       /\ e.state = c.state /\ e.shutdown = c.shutdown
       /\ e.rbuf = b /\ e.rcv_nxt = c.rcv_nxt /\ e.rcv_wnd = c.rcv_wnd /\ e.rlist = t
  BY <1>1, <1>6, <1>9 DEF Tcbs, SameSender
<1> HIDE DEF e
<1>12. Receives(c, e)
  BY <1>11 DEF Receives
<1>13. Edge(e) = Edge(c) /\ Taken(e) = Taken(c)
  BY <1>11 DEF Edge, Taken
<1>14. RightReceived(e, v.rd)
  BY <1>1, <1>6, <1>11, <1>13 DEF RightReceived
<1>15. s.seq + n <= Edge(c) /\ s.seq + n <= ConnectLen + v.W /\ s.seq + n \in v.cuts
  BY <1>2 DEF Fresh
<1>16. RightAhead(e)
  <2> SUFFICES ASSUME c.shutdown = "NONE", NEW i \in 1 .. Len(t),
                      NEW x \in t[i].seq .. t[i].seq + t[i].len - 1, x >= c.rcv_nxt
               PROVE  b.ahead[x - c.rcv_nxt] = Byte(x)
    BY <1>11 DEF RightAhead
  <2> DEFINE j == x - c.rcv_nxt
  <2>1. ASSUME x \in Int, x < c.rcv_nxt + c.rcv_wnd PROVE j \in 0 .. RcvBufLen - 1 /\ c.rcv_nxt + j = x
    <3>1. c.rcv_nxt \in Nat /\ c.rcv_wnd \in Nat /\ RcvBufLen \in Nat /\ c.rcv_wnd <= RcvBufLen
      BY <1>2
    <3>2. \A a, w, g \in Nat : \A y \in Int :
            y >= a /\ y < a + w /\ w <= g => y - a \in 0 .. g - 1 /\ a + (y - a) = y
      OBVIOUS
    <3> QED
      BY <2>1, <3>1, <3>2
  <2>2. ASSUME x \in s.seq .. s.seq + n - 1 PROVE b.ahead[j] = Byte(x)
    <3>1. x \in Int /\ x < s.seq + n /\ x >= s.seq
      BY <1>2, <2>2
    <3>2. x < c.rcv_nxt + c.rcv_wnd
      <4>1. s.seq + n <= c.rcv_nxt + c.rcv_wnd
        BY <1>15 DEF Edge
      <4>2. s.seq + n \in Int /\ c.rcv_nxt + c.rcv_wnd \in Int
        BY <1>2
      <4> QED
        BY <3>1, <4>1, <4>2
    <3>3. j \in 0 .. RcvBufLen - 1
      BY <2>1, <3>1, <3>2
    <3>4. j \in o .. o + n - 1 /\ j - o + 1 \in 1 .. n /\ s.seq + (j - o + 1) - 1 = x
      <4>1. \A q, a, z, l \in Int : q >= a /\ z >= q /\ z < q + l =>
              /\ z - a \in q - a .. (q - a) + l - 1 /\ (z - a) - (q - a) + 1 \in 1 .. l
              /\ q + ((z - a) - (q - a) + 1) - 1 = z
        OBVIOUS
      <4>2. s.seq \in Int /\ c.rcv_nxt \in Int /\ x \in Int /\ n \in Int /\ s.seq >= c.rcv_nxt /\ o = s.seq - c.rcv_nxt
        BY <1>2, <3>1 DEF o
      <4> QED
        BY <3>1, <4>1, <4>2
    <3> HIDE DEF j
    <3>5. b.ahead[j] = s.data[j - o + 1]
      BY <1>6, <3>3, <3>4
    <3>6. s.data[j - o + 1] = Byte(s.seq + (j - o + 1) - 1)
      BY <3>4 DEF Fresh, n
    <3> QED
      BY <3>4, <3>5, <3>6
  <2>3. CASE t[i] = new
    BY <1>8, <2>2, <2>3
  <2>4. ASSUME NEW g \in 1 .. m, t[i] = c.rlist[g] PROVE b.ahead[j] = Byte(x)
    <3>1. c.rlist[g].seq \in Nat /\ c.rlist[g].len \in Nat /\ x \in c.rlist[g].seq .. c.rlist[g].seq + c.rlist[g].len - 1
      BY <1>3, <2>4
    <3>2. c.rlist[g].seq + c.rlist[g].len <= c.rcv_nxt + c.rcv_wnd
      BY <1>1 DEF Window, Edge
    <3>3. x \in Int /\ x < c.rcv_nxt + c.rcv_wnd
      <4>1. \A a, z, h \in Nat : a + z <= h => \A y \in a .. a + z - 1 : y \in Int /\ y < h
        OBVIOUS
      <4>2. c.rcv_nxt + c.rcv_wnd \in Nat
        BY <1>2
      <4> QED
        BY <3>1, <3>2, <4>1, <4>2
    <3>4. j \in 0 .. RcvBufLen - 1
      BY <2>1, <3>3
    <3>5. c.rbuf.ahead[j] = Byte(x)
      BY <1>1, <3>1 DEF RightAhead
    <3>6. CASE x \in s.seq .. s.seq + n - 1
      BY <2>2, <3>6
    <3>7. CASE ~(x \in s.seq .. s.seq + n - 1)
      <4>1. ~(j \in o .. o + n - 1)
        <5>1. \A q, a, z, l \in Int : z - a \in q - a .. (q - a) + l - 1 => z \in q .. q + l - 1
          OBVIOUS
        <5> QED
          BY <1>2, <3>3, <3>7, <5>1 DEF o
      <4> HIDE DEF j
      <4>2. b.ahead[j] = c.rbuf.ahead[j]
        BY <1>6, <3>4, <4>1
      <4> QED
        BY <3>5, <4>2
    <3> QED
      BY <3>6, <3>7
  <2> QED
    BY <1>10, <2>3, <2>4
<1>17. Window(e)
  <2>1. Len(e.rbuf.data) + e.rcv_wnd <= RcvBufLen /\ e.rcv_nxt # 0 /\ e.rcv_nxt >= ConnectLen
    BY <1>1, <1>2, <1>6, <1>11 DEF Window
  <2>2. ASSUME NEW i \in 1 .. Len(t) PROVE t[i].seq >= ConnectLen /\ t[i].seq + t[i].len <= Edge(e)
    BY <1>1, <1>8, <1>10, <1>13, <1>15 DEF Window
  <2> QED
    BY <1>11, <2>1, <2>2 DEF Window
<1>18. Bounded(e, v.rd, v.W)
  <2>1. Len(v.rd) <= v.W /\ e.rcv_nxt <= ConnectLen + v.W
    BY <1>1, <1>11 DEF Bounded
  <2>2. ASSUME NEW i \in 1 .. Len(t) PROVE t[i].seq + t[i].len <= ConnectLen + v.W
    BY <1>1, <1>8, <1>10, <1>15 DEF Bounded
  <2> QED
    BY <1>11, <2>1, <2>2 DEF Bounded
<1>19. Receiver(e, v.rd, v.W)
  BY <1>14, <1>16, <1>17, <1>18 DEF Receiver
<1>20. c.rcv_nxt <= e.rcv_nxt /\ Edge(c) <= Edge(e) /\ e.rcv_nxt \in v.cuts
  BY <1>1, <1>2, <1>11, <1>13, GrowsTypes DEF Joined
<1>21. ASSUME NEW i \in 1 .. Len(e.rlist) PROVE e.rlist[i].seq + e.rlist[i].len \in v.cuts
  BY <1>1, <1>8, <1>10, <1>11, <1>15 DEF Joined
<1>22. Does(c, e, v)
  BY <1>12, <1>19, <1>20, <1>21, ReceivesSound
<1> QED
  BY <1>4, <1>11, <1>22

Skipped(c, s) == [c EXCEPT !.rcv_nxt = @ + Len(s.data)]

LEMMA Skipping ==
  ASSUME NEW v, View(v), NEW c, Sound(c, v), NEW s, Fresh(c, s, v), s.seq = c.rcv_nxt,
         s.ctl \/ c.shutdown # "NONE"
  PROVE  LET e == Skipped(c, s) IN Does(c, e, v) /\ e.state = c.state /\ e.rcv_nxt # 0
<1> DEFINE n == Len(s.data)
           x1 == c.rcv_nxt + n
           e == [c EXCEPT !.rcv_nxt = x1]
<1>1. c \in Tcbs /\ RightReceived(c, v.rd) /\ RightAhead(c) /\ Window(c) /\ Bounded(c, v.rd, v.W) /\ Joined(c, v)
  BY DEF Sound, Receiver
<1>2. /\ n \in Nat /\ n > 0 /\ c.rcv_nxt \in Nat /\ c.rcv_wnd \in Nat /\ ConnectLen \in Nat /\ ConnectLen > 0
      /\ After(s) = x1
  BY FreshTypes, Constants
<1>3. /\ x1 <= ConnectLen + v.W /\ x1 \in v.cuts
      /\ IF s.ctl THEN c.rcv_nxt = 0 /\ n = ConnectLen ELSE c.rcv_nxt # 0
  BY <1>2 DEF Fresh
<1>4. Skipped(c, s) = e
  BY DEF Skipped
<1> HIDE DEF n
<1>5. x1 \in Nat /\ x1 # 0 /\ c.rcv_nxt <= x1 /\ x1 >= ConnectLen
  <2>1. c.rcv_nxt # 0 => c.rcv_nxt >= ConnectLen
    BY <1>1 DEF Window
  <2> QED
    BY <1>2, <1>3, <2>1
<1> HIDE DEF x1
<1>6. /\ e \in Tcbs /\ SameSender(c, e) /\ e.slist = c.slist /\ e.out = c.out
      /\ e.state = c.state /\ e.shutdown = c.shutdown
      /\ e.rbuf = c.rbuf /\ e.rcv_nxt = x1 /\ e.rcv_wnd = c.rcv_wnd /\ e.rlist = c.rlist
  BY <1>1, <1>5 DEF Tcbs, SameSender
<1> HIDE DEF e
<1>7. Receives(c, e)
  BY <1>6 DEF Receives
<1>8. Edge(c) \in Nat /\ Edge(e) \in Nat /\ Edge(c) <= Edge(e)
  BY <1>2, <1>5, <1>6 DEF Edge
<1>9. /\ Taken(c) \in Int /\ Taken(e) \in Int /\ Taken(c) <= Taken(e)
      /\ c.shutdown = "NONE" => Taken(e) = Taken(c)
  <2>1. CASE s.ctl
    BY <1>2, <1>3, <1>5, <1>6, <2>1 DEF Taken, x1
  <2>2. CASE ~s.ctl
    BY <1>2, <1>3, <1>5, <1>6, <2>2 DEF Taken
  <2> QED
    BY <2>1, <2>2
<1>10. RightReceived(e, v.rd)
  <2>1. Len(v.rd) \in Nat /\ Len(c.rbuf.data) \in Nat
    BY <1>1, ReceiverTypes DEF View
  <2>2. ASSUME c.state # "DESTROYED" PROVE Len(v.rd) + Len(c.rbuf.data) <= Taken(e)
    <3>1. Len(v.rd) + Len(c.rbuf.data) <= Taken(c)
      BY <1>1, <2>2 DEF RightReceived
    <3>2. \A a, b \in Nat : \A x, y \in Int : a + b <= x /\ x <= y => a + b <= y
      OBVIOUS
    <3>3. Taken(c) \in Int /\ Taken(e) \in Int /\ Taken(c) <= Taken(e)
      BY <1>9
    <3> QED
      BY <2>1, <3>1, <3>2, <3>3
  <2>3. ASSUME c.state # "DESTROYED", c.shutdown = "NONE" PROVE Len(v.rd) + Len(c.rbuf.data) = Taken(e)
    BY <1>1, <1>9, <2>3 DEF RightReceived
  <2>4. /\ \A i \in 1 .. Len(v.rd) : v.rd[i] = i
        /\ \A i \in 1 .. Len(c.rbuf.data) : c.rbuf.data[i] = Len(v.rd) + i
    BY <1>1 DEF RightReceived
  <2> QED
    BY <1>6, <2>2, <2>3, <2>4 DEF RightReceived
<1>11. c.rcv_nxt = 0 => c.rlist = << >>
  BY <1>1 DEF Window
<1>12. RightAhead(e)
  <2>1. CASE s.ctl
    <3>1. e.rlist = << >>
      BY <1>3, <1>6, <1>11, <2>1
    <3>2. 1 .. Len(e.rlist) = {}
      BY <3>1
    <3> QED
      BY <3>2 DEF RightAhead
  <2>2. CASE c.shutdown # "NONE"
    BY <1>6, <2>2 DEF RightAhead
  <2> QED
    BY <2>1, <2>2
<1>13. \A i \in 1 .. Len(c.rlist) : c.rlist[i].seq + c.rlist[i].len \in Nat
  BY <1>1, ReceiverTypes
<1>14. Window(e)
  <2>1. Len(e.rbuf.data) + e.rcv_wnd <= RcvBufLen
    BY <1>1, <1>6 DEF Window
  <2>2. ASSUME NEW i \in 1 .. Len(c.rlist)
        PROVE  c.rlist[i].seq >= ConnectLen /\ c.rlist[i].seq + c.rlist[i].len <= Edge(e)
    <3>1. c.rlist[i].seq >= ConnectLen /\ c.rlist[i].seq + c.rlist[i].len <= Edge(c)
      BY <1>1 DEF Window
    <3>2. c.rlist[i].seq + c.rlist[i].len \in Nat
      BY <1>13
    <3> QED
      BY <1>8, <3>1, <3>2
  <2> QED
    BY <1>5, <1>6, <2>1, <2>2 DEF Window
<1>15. Bounded(e, v.rd, v.W)
  BY <1>1, <1>3, <1>6 DEF Bounded
<1>16. Receiver(e, v.rd, v.W)
  BY <1>10, <1>12, <1>14, <1>15 DEF Receiver
<1>17. \A i \in 1 .. Len(e.rlist) : e.rlist[i].seq + e.rlist[i].len \in v.cuts
  BY <1>1, <1>6 DEF Joined
<1>18. Does(c, e, v)
  BY <1>3, <1>5, <1>6, <1>7, <1>8, <1>16, <1>17, ReceivesSound
<1> QED
  BY <1>4, <1>5, <1>6, <1>18

LEMMA ProcessingData ==
  ASSUME NEW v, View(v), NEW c, Sound(c, v), c.state # "DESTROYED", NEW s, s.data # << >> => Fresh(c, s, v)
  PROVE  LET e == ProcessData(c, s) IN
         Does(c, e, v) /\ e.state = c.state /\ (c.rcv_nxt # 0 => e.rcv_nxt # 0)
           /\ (s.data # << >> /\ c.rcv_nxt = 0 => e.rcv_nxt # 0)
<1> DEFINE e == ProcessData(c, s)
<1>0. c.rcv_nxt \in Nat /\ c \in Tcbs
  BY TcbTypes DEF Sound
<1>1. CASE s.data = << >>
  <2>1. e = c
    BY <1>1 DEF ProcessData
  <2> QED
    BY <1>1, <2>1, DoesSelf
<1>2. CASE s.data # << >>
  <2>1. Fresh(c, s, v)
    BY <1>2
  <2>2. /\ s.seq >= c.rcv_nxt
        /\ IF s.ctl THEN c.rcv_nxt = 0 /\ s.seq = 0 ELSE c.rcv_nxt # 0 /\ s.seq >= ConnectLen
    BY <2>1 DEF Fresh
  <2>3. CASE s.seq # c.rcv_nxt /\ (s.ctl \/ c.shutdown # "NONE")
    <3>1. e = c /\ c.rcv_nxt # 0
      BY <1>2, <2>2, <2>3 DEF ProcessData
    <3> QED
      BY <3>1, DoesSelf
  <2>4. CASE s.seq # c.rcv_nxt /\ ~(s.ctl \/ c.shutdown # "NONE")
    <3>1. e = OutOfOrder(c, s) /\ c.rcv_nxt # 0 /\ s.seq >= ConnectLen
      BY <1>2, <2>2, <2>4 DEF ProcessData
    <3> QED
      BY <2>1, <3>1, OutOfOrderData
  <2>5. CASE s.seq = c.rcv_nxt /\ (s.ctl \/ c.shutdown # "NONE")
    <3>1. e = Skipped(c, s)
      BY <1>2, <2>5 DEF ProcessData, Skipped
    <3> QED
      BY <2>1, <2>5, <3>1, Skipping
  <2>6. CASE s.seq = c.rcv_nxt /\ ~(s.ctl \/ c.shutdown # "NONE")
    <3>1. e = InOrder(c, s) /\ c.rcv_nxt # 0 /\ c.shutdown = "NONE"
      BY <1>2, <2>2, <2>6 DEF ProcessData
    <3>2. Does(c, e, v) /\ e.state = c.state
      BY <2>1, <2>6, <3>1, InOrderData
    <3>3. e \in Tcbs /\ c.rcv_nxt <= e.rcv_nxt
      BY <3>2 DEF Does, Sound, Grows
    <3>4. e.rcv_nxt \in Nat
      BY <3>3, TcbTypes
    <3>5. \A a, b \in Nat : a # 0 /\ a <= b => b # 0
      OBVIOUS
    <3>6. e.rcv_nxt # 0
      BY <1>0, <3>1, <3>3, <3>4, <3>5
    <3> QED
      BY <3>2, <3>6
  <2> QED
    BY <2>3, <2>4, <2>5, <2>6
<1> QED
  BY <1>1, <1>2

\* The state of a connection while the packet k is processed: the connect message of
\* the other side counts as received when k holds it.
PhaseWith(c, k) ==
  /\ c.state \in {"LISTEN", "SYN_SENT"} => c.rcv_nxt = 0 /\ ~k.ctl
  /\ c.state \in {"SYN_RECEIVED", "ESTABLISHED"} => c.rcv_nxt # 0 \/ k.ctl

LEMMA ProcessingConnect ==
  ASSUME NEW v, View(v), NEW c, Sound(c, v), c.state = "LISTEN" => v.w = 0, Phase(c), NEW k \in Packets
  PROVE  LET e == ProcessConnect(c, k) IN
         Does(c, e, v) /\ e.rcv_nxt = c.rcv_nxt /\ PhaseWith(e, k) /\ (e.state = "LISTEN" => c.state = "LISTEN")
<1> DEFINE e == ProcessConnect(c, k)
<1>1. "SYN_RECEIVED" \in Opened /\ (c.state = "SYN_SENT" => c.state \in Opened)
  BY DEF Opened
<1>2. CASE ~k.ctl
  <2>1. e = c
    BY <1>2 DEF ProcessConnect
  <2> QED
    BY <1>2, <2>1, DoesSelf DEF Phase, PhaseWith
<1>3. CASE k.ctl /\ c.state = "LISTEN"
  <2>1. e = queueConnectMessage([c EXCEPT !.state = "SYN_RECEIVED"])
    BY <1>3 DEF ProcessConnect
  <2>2. Does(c, e, v) /\ e.state = "SYN_RECEIVED" /\ e.rcv_nxt = c.rcv_nxt
    BY <1>1, <1>3, <2>1, Connecting
  <2> HIDE DEF e
  <2>3. e.state \notin {"LISTEN", "SYN_SENT"} /\ e.state # "LISTEN"
    BY <2>2
  <2>4. PhaseWith(e, k)
    BY <1>3, <2>3, Zenon DEF PhaseWith
  <2> QED
    BY <2>2, <2>3, <2>4 DEF e
<1>4. CASE k.ctl /\ c.state = "SYN_SENT"
  <2>1. e = Establish(c)
    BY <1>4 DEF ProcessConnect
  <2>2. Does(c, e, v) /\ e.state = "ESTABLISHED" /\ e.rcv_nxt = c.rcv_nxt
    BY <1>1, <1>4, <2>1, Establishing
  <2> HIDE DEF e
  <2>3. e.state \notin {"LISTEN", "SYN_SENT"} /\ e.state # "LISTEN"
    BY <2>2
  <2>4. PhaseWith(e, k)
    BY <1>4, <2>3, Zenon DEF PhaseWith
  <2> QED
    BY <2>2, <2>3, <2>4 DEF e
<1>5. CASE k.ctl /\ c.state \notin {"LISTEN", "SYN_SENT"}
  <2>1. e = c
    BY <1>5 DEF ProcessConnect
  <2> QED
    BY <1>5, <2>1, DoesSelf DEF Phase, PhaseWith
<1> QED
  BY <1>2, <1>3, <1>4, <1>5

LEMMA WritingAgain ==
  ASSUME NEW v, NEW c, Sound(c, v)
  PROVE  LET e == Writeable(c) IN Does(c, e, v) /\ e.state = c.state /\ e.rcv_nxt = c.rcv_nxt
<1> DEFINE w == c.bWriteEnable /\ GetBuffered(c.sbuf) >= (SndBufLen + RcvBufLen) \div 2
           e == [c EXCEPT !.bWriteEnable = w]
<1>1. c \in Tcbs /\ w \in BOOLEAN
  BY TcbTypes DEF Sound
<1>2. Writeable(c) = e
  BY DEF Writeable
<1> HIDE DEF w
<1>3. e \in Tcbs /\ SameSender(c, e) /\ e.slist = c.slist /\ SameReceiver(c, e) /\ e.out = c.out /\ e.state = c.state
        /\ e.rcv_nxt = c.rcv_nxt
  BY <1>1 DEF Tcbs, SameSender, SameReceiver
<1> HIDE DEF e
<1>4. SameCore(c, e)
  BY <1>3 DEF SameCore
<1> QED
  BY <1>2, <1>3, <1>4, DoesCore

LEMMA Reading ==
  ASSUME NEW v, NEW c, Sound(c, v), NEW r \in BOOLEAN
  PROVE  LET e == [c EXCEPT !.bReadEnable = r] IN Does(c, e, v) /\ e.state = c.state /\ e.rcv_nxt = c.rcv_nxt
<1> DEFINE e == [c EXCEPT !.bReadEnable = r]
<1>1. c \in Tcbs
  BY DEF Sound
<1>2. e \in Tcbs /\ SameSender(c, e) /\ e.slist = c.slist /\ SameReceiver(c, e) /\ e.out = c.out /\ e.state = c.state
        /\ e.rcv_nxt = c.rcv_nxt
  BY <1>1 DEF Tcbs, SameSender, SameReceiver
<1> HIDE DEF e
<1>3. SameCore(c, e)
  BY <1>2 DEF SameCore
<1>4. Does(c, e, v) /\ e.state = c.state /\ e.rcv_nxt = c.rcv_nxt
  BY <1>1, <1>2, <1>3, DoesCore
<1> QED
  BY <1>4 DEF e

LEMMA Attempting ==
  ASSUME NEW v, View(v), NEW c, Sound(c, v), NEW flags \in Flags, NEW idle \in BOOLEAN
  PROVE  LET e == attemptSend(c, flags, idle) IN
         /\ Does(c, e, v) /\ e.state = c.state /\ e.rcv_nxt = c.rcv_nxt /\ e.shutdown = c.shutdown
         /\ e.bReadEnable \in BOOLEAN
<1> DEFINE e == attemptSend(c, flags, idle)
<1>1. Sends(c, e)
  BY ReadySound, AttemptSendIs
<1>2. Does(c, e, v)
  BY <1>1, DoesSend
<1>3. e.state = c.state /\ e.rcv_nxt = c.rcv_nxt /\ e.shutdown = c.shutdown /\ e \in Tcbs
  BY <1>1, <1>2 DEF Sends, SameRest, Does, Sound
<1>4. e.bReadEnable \in BOOLEAN
  BY <1>3 DEF Tcbs
<1> QED
  BY <1>2, <1>3, <1>4

LEMMA Responding ==
  ASSUME NEW v, View(v), NEW b, Sound(b, v), NEW d, Sound(d, v), NEW k \in Packets, NEW s, NEW idle \in BOOLEAN
  PROVE  LET e == Respond(b, k, s, d, idle) IN Does(d, e, v) /\ e.state = d.state /\ e.rcv_nxt = d.rcv_nxt
<1> DEFINE new == GetBuffered(d.rbuf) > GetBuffered(b.rbuf)
           recovered == new /\ d.rcv_nxt > s.seq + Len(s.data)
           flags == IF recovered THEN "ImmediateAck" ELSE AckFlags(b, k)
           f == attemptSend(d, flags, idle)
           r == f.bReadEnable /\ ~new
           e == [f EXCEPT !.bReadEnable = r]
<1>1. flags \in Flags
  BY DEF AckFlags, Flags
<1>2. Respond(b, k, s, d, idle) = e
  BY DEF Respond
<1> HIDE DEF flags
<1>3. Does(d, f, v) /\ f.state = d.state /\ f.rcv_nxt = d.rcv_nxt /\ f.bReadEnable \in BOOLEAN
  BY <1>1, Attempting
<1> HIDE DEF f
<1>4. r \in BOOLEAN /\ Sound(f, v)
  BY <1>3 DEF Does
<1> HIDE DEF r
<1>5. Does(f, e, v) /\ e.state = f.state /\ e.rcv_nxt = f.rcv_nxt
  BY <1>4, Reading
<1> HIDE DEF e
<1>6. Does(d, e, v)
  BY <1>3, <1>5, DoesTrans
<1> QED
  BY <1>2, <1>3, <1>5, <1>6

\* The parts of process after the acknowledgement, until data is processed.
LEMMA TakingData ==
  ASSUME NEW v, View(v), NEW c, Sound(c, v), c.state # "DESTROYED", NEW k, Arrives(c, k, v), PhaseWith(c, k),
         c.rcv_nxt = 0 /\ k.data # << >> => k.ctl
  PROVE  LET e == ProcessData(c, Trimmed(c, k)) IN
         Does(c, e, v) /\ e.state = c.state /\ Phase(e) /\ (k.ctl => e.rcv_nxt # 0)
<1> DEFINE s == Trimmed(c, k)
           e == ProcessData(c, s)
<1>1. (s.data # << >> => Fresh(c, s, v)) /\ (k.ctl /\ c.rcv_nxt = 0 => s.data # << >>)
  BY Trimming
<1>2. k \in Packets
  BY DEF Arrives
<1>3. s.ctl = k.ctl
  BY <1>2 DEF Trimmed, Packets
<1> HIDE DEF s
<1>4. /\ Does(c, e, v) /\ e.state = c.state /\ (c.rcv_nxt # 0 => e.rcv_nxt # 0)
      /\ s.data # << >> /\ c.rcv_nxt = 0 => e.rcv_nxt # 0
  BY <1>1, ProcessingData
<1>5. ASSUME c.rcv_nxt = 0, ~k.ctl PROVE e.rcv_nxt = 0
  <2>1. ~Fresh(c, s, v)
    BY <1>3, <1>5 DEF Fresh
  <2>2. e = c
    BY <1>1, <2>1 DEF ProcessData
  <2> QED
    BY <1>5, <2>2
<1> HIDE DEF e
<1>6. k.ctl => e.rcv_nxt # 0
  BY <1>1, <1>4
<1>7. c.state \in {"LISTEN", "SYN_SENT"} => c.rcv_nxt = 0 /\ ~k.ctl
  BY DEF PhaseWith
<1>8. c.state \in {"SYN_RECEIVED", "ESTABLISHED"} => c.rcv_nxt # 0 \/ k.ctl
  BY DEF PhaseWith
<1>9. Phase(e)
  BY <1>4, <1>5, <1>6, <1>7, <1>8, Zenon DEF Phase
<1> QED
  BY <1>4, <1>6, <1>9 DEF s, e

LEMMA AfterAcking ==
  ASSUME NEW v, View(v), NEW c, Sound(c, v), c.state # "DESTROYED", NEW k, Arrives(c, k, v), PhaseWith(c, k),
         c.rcv_nxt = 0 /\ k.data # << >> => k.ctl, NEW idle \in BOOLEAN
  PROVE  LET e == AfterAck(Good(c), k, idle) IN
         /\ Does(c, e, v) /\ Phase(e) /\ (k.ctl => e.rcv_nxt # 0)
         /\ e.state = "LISTEN" => c.state = "LISTEN"
<1> DEFINE a == Good(c)
           b == IF c.state = "SYN_RECEIVED" /\ ~k.ctl THEN Establish(c) ELSE c
           g == Writeable(b)
           s == Trimmed(g, k)
           d == ProcessData(g, s)
           e == Respond(g, k, s, d, idle)
<1>0. k \in Packets /\ c \in Tcbs
  BY DEF Arrives, Sound
<1>1. AfterAck(a, k, idle) = e
  <2>1. a.ok /\ a.c = c
    BY DEF Good
  <2> QED
    BY <2>1 DEF AfterAck, Take
<1>2. /\ Does(c, b, v) /\ b.rcv_nxt = c.rcv_nxt /\ PhaseWith(b, k) /\ b.state # "DESTROYED"
      /\ b.state = "LISTEN" => c.state = "LISTEN"
  <2>1. CASE c.state = "SYN_RECEIVED" /\ ~k.ctl
    <3>1. b = Establish(c) /\ c.state \in Opened
      BY <2>1 DEF Opened
    <3>2. Does(c, b, v) /\ b.state = "ESTABLISHED" /\ b.rcv_nxt = c.rcv_nxt
      BY <3>1, Establishing
    <3> HIDE DEF b
    <3>3. b.state \notin {"LISTEN", "SYN_SENT"} /\ c.rcv_nxt # 0
      BY <2>1, <3>2 DEF PhaseWith
    <3>4. PhaseWith(b, k)
      BY <3>2, <3>3, Zenon DEF PhaseWith
    <3> QED
      BY <3>2, <3>3, <3>4
  <2>2. CASE ~(c.state = "SYN_RECEIVED" /\ ~k.ctl)
    <3>1. b = c
      BY <2>2
    <3> QED
      BY <3>1, DoesSelf
  <2> QED
    BY <2>1, <2>2
<1> HIDE DEF b
<1>3. Does(b, g, v) /\ g.state = b.state /\ g.rcv_nxt = b.rcv_nxt
  BY <1>2, WritingAgain DEF Does
<1> HIDE DEF g
<1>4. Does(c, g, v) /\ Sound(g, v)
  BY <1>2, <1>3, DoesTrans DEF Does
<1>5. Arrives(g, k, v) /\ PhaseWith(g, k) /\ g.state # "DESTROYED"
  <2>1. g \in Tcbs /\ Grows(c, g)
    BY <1>4 DEF Does, Sound
  <2> QED
    BY <1>0, <1>2, <1>3, <2>1, ArrivesGrows DEF PhaseWith
<1>6. g.rcv_nxt = 0 /\ k.data # << >> => k.ctl
  BY <1>2, <1>3
<1>7. Does(g, d, v) /\ d.state = g.state /\ Phase(d) /\ (k.ctl => d.rcv_nxt # 0)
  BY <1>4, <1>5, <1>6, TakingData
<1> HIDE DEF s, d
<1>8. Does(d, e, v) /\ e.state = d.state /\ e.rcv_nxt = d.rcv_nxt
  BY <1>0, <1>4, <1>7, Responding DEF Does
<1> HIDE DEF e
<1>9. Does(c, d, v)
  BY <1>4, <1>7, DoesTrans
<1>10. Does(c, e, v)
  BY <1>8, <1>9, DoesTrans
<1>11. Phase(e) /\ (k.ctl => e.rcv_nxt # 0) /\ (e.state = "LISTEN" => c.state = "LISTEN")
  BY <1>2, <1>3, <1>7, <1>8 DEF Phase
<1> QED
  BY <1>1, <1>10, <1>11

\* process: what arrives is taken, whatever the state.
LEMMA Processing ==
  ASSUME NEW v, View(v), NEW c, Sound(c, v), c.state # "DESTROYED", Phase(c), c.state = "LISTEN" => v.w = 0,
         NEW k, Arrives(c, k, v), c.rcv_nxt = 0 /\ c.state # "CLOSED" /\ k.data # << >> => k.ctl, NEW idle \in BOOLEAN
  PROVE  LET e == process(c, k, idle) IN
         /\ Does(c, e, v) /\ Phase(e) /\ (e.state = "LISTEN" => c.state = "LISTEN")
         /\ c.state = "CLOSED" => e.state = "CLOSED"
         /\ k.ctl => e.rcv_nxt # 0 \/ e.state = "CLOSED"
<1> DEFINE b == ProcessConnect(c, k)
           a == ProcessAck(b, k)
           e == AfterAck(a, k, idle)
<1>0. k \in Packets /\ c \in Tcbs
  BY DEF Arrives, Sound
<1>1. CASE c.state = "CLOSED"
  <2>1. process(c, k, idle) = c
    BY <1>1 DEF process
  <2> QED
    BY <1>1, <2>1, DoesSelf
<1>2. CASE c.state # "CLOSED"
  <2>1. process(c, k, idle) = e
    BY <1>2 DEF process
  <2>2. Does(c, b, v) /\ b.rcv_nxt = c.rcv_nxt /\ PhaseWith(b, k) /\ (b.state = "LISTEN" => c.state = "LISTEN")
    BY <1>0, ProcessingConnect
  <2> HIDE DEF b
  <2>3. Sound(b, v) /\ b.state # "DESTROYED" /\ b \in Tcbs /\ Grows(c, b)
    BY <2>2 DEF Does, Grows, Sound
  <2>4. Arrives(b, k, v)
    BY <1>0, <2>3, ArrivesGrows
  <2>5. Answers(b, a, v)
    BY <2>3, <2>4, ProcessingAck
  <2>6. /\ Does(b, a.c, v) /\ a.c.rcv_nxt = b.rcv_nxt /\ a.c.state = IF a.ok THEN b.state ELSE "CLOSED"
        /\ a.ok \in BOOLEAN
    BY <2>5 DEF Answers
  <2>7. Does(c, a.c, v)
    BY <2>2, <2>6, DoesTrans
  <2>8. CASE ~a.ok
    <3>1. e = a.c /\ e.state = "CLOSED"
      BY <2>6, <2>8 DEF AfterAck
    <3>2. Phase(e)
      BY <3>1 DEF Phase
    <3> HIDE DEF e
    <3> QED
      BY <1>2, <2>1, <2>7, <3>1, <3>2
  <2>9. CASE a.ok
    <3> DEFINE d == a.c
    <3>1. e = AfterAck(Good(d), k, idle)
      BY <2>9 DEF AfterAck, Good
    <3>2. Does(c, d, v) /\ Sound(d, v) /\ d.state = b.state /\ d.rcv_nxt = b.rcv_nxt /\ Grows(c, d) /\ d \in Tcbs
      BY <2>6, <2>7, <2>9 DEF Does, Sound
    <3> HIDE DEF d, e
    <3>3. Arrives(d, k, v) /\ PhaseWith(d, k) /\ d.state # "DESTROYED" /\ (d.rcv_nxt = 0 /\ k.data # << >> => k.ctl)
      BY <1>0, <1>2, <2>2, <2>3, <3>2, ArrivesGrows DEF PhaseWith
    <3>4. Does(d, e, v) /\ Phase(e) /\ (k.ctl => e.rcv_nxt # 0) /\ (e.state = "LISTEN" => d.state = "LISTEN")
      BY <3>1, <3>2, <3>3, AfterAcking
    <3>5. Does(c, e, v)
      BY <3>2, <3>4, DoesTrans
    <3> QED
      BY <1>2, <2>1, <2>2, <3>2, <3>4, <3>5
  <2> QED
    BY <2>6, <2>8, <2>9
<1> QED
  BY <1>1, <1>2

-----------------------------------------------------------------------------
(* Recv, NotifyClock and Send *)

Delivered(c, m) == [c EXCEPT !.rbuf = ConsumeReadData(@, m)]

\* The first m bytes of the buffer, r, are added to what was read.
Hands(c, m, r, v, u) ==
  /\ m \in 0 .. Len(c.rbuf.data) /\ r \in Seq(Int) /\ Len(r) = m /\ \A i \in 1 .. m : r[i] = c.rbuf.data[i]
  /\ u.rd = v.rd \o r
  /\ u.w = v.w /\ u.W = v.W /\ u.cuts = v.cuts /\ u.acked = v.acked /\ u.edge = v.edge

LEMMA Delivering ==
  ASSUME NEW v, View(v), NEW c, Sound(c, v), c.state # "DESTROYED", c.rcv_nxt # 0,
         NEW m, NEW r, NEW u, Hands(c, m, r, v, u)
  PROVE  LET e == Delivered(c, m) IN
         /\ View(u) /\ Does(c, e, u) /\ e.state = c.state /\ e.rcv_nxt = c.rcv_nxt /\ e.rcv_wnd = c.rcv_wnd
         /\ e.level = c.level /\ e.shutdown = c.shutdown
<1> DEFINE b == ConsumeReadData(c.rbuf, m)
           e == [c EXCEPT !.rbuf = b]
<1>1. c \in Tcbs /\ RightReceived(c, v.rd) /\ RightAhead(c) /\ Window(c) /\ Bounded(c, v.rd, v.W) /\ Joined(c, v)
  BY DEF Sound, Receiver
<1>2. /\ c.rbuf \in Fifos(RcvBufLen) /\ c.rbuf.data \in Seq(Int) /\ Len(c.rbuf.data) \in Nat /\ RcvBufLen \in Nat
      /\ c.rcv_nxt \in Nat /\ c.rcv_wnd \in Nat /\ ConnectLen \in Nat
  BY <1>1, ReceiverTypes, Constants
<1>3. v.rd \in Seq(Int) /\ Len(v.rd) \in Nat /\ v.W \in Nat /\ m \in Nat /\ m \in 0 .. Len(c.rbuf.data) /\ m <= Len(c.rbuf.data)
  BY <1>2 DEF View, Hands
<1>0. /\ \A i \in 1 .. m : r[i] = c.rbuf.data[i]
      /\ u.w = v.w /\ u.W = v.W /\ u.cuts = v.cuts /\ u.acked = v.acked /\ u.edge = v.edge
  BY DEF Hands
<1>4. Delivered(c, m) = e
  BY DEF Delivered
<1>5. /\ b \in Fifos(RcvBufLen) /\ b.ahead = c.rbuf.ahead /\ Len(b.data) = Len(c.rbuf.data) - m
      /\ \A i \in 1 .. Len(b.data) : b.data[i] = c.rbuf.data[m + i]
  BY <1>2, <1>3, ConsumeReadIs
<1> HIDE DEF b
<1>6. /\ e \in Tcbs /\ SameSender(c, e) /\ e.slist = c.slist /\ e.out = c.out
      /\ e.state = c.state /\ e.shutdown = c.shutdown /\ e.level = c.level
      /\ e.rbuf = b /\ e.rcv_nxt = c.rcv_nxt /\ e.rcv_wnd = c.rcv_wnd /\ e.rlist = c.rlist
  BY <1>1, <1>5 DEF Tcbs, SameSender
<1> HIDE DEF e
<1>7. Receives(c, e)
  BY <1>6 DEF Receives
<1>8. /\ u.rd \in Seq(Int) /\ Len(u.rd) = Len(v.rd) + m
      /\ \A i \in 1 .. Len(v.rd) : u.rd[i] = v.rd[i]
      /\ \A i \in 1 .. m : u.rd[Len(v.rd) + i] = r[i]
  <2> DEFINE a == v.rd
             t == a \o r
  <2>1. a \in Seq(Int) /\ u.rd = t /\ Len(r) = m
    BY <1>3 DEF Hands
  <2>3. r \in Seq(Int)
    BY DEF Hands
  <2> HIDE DEF a
  <2>2. /\ t \in Seq(Int) /\ Len(t) = Len(a) + Len(r)
        /\ \A i \in 1 .. Len(a) : t[i] = a[i]
        /\ \A i \in 1 .. Len(r) : t[Len(a) + i] = r[i]
    <3>1. a \in Seq(Int) /\ r \in Seq(Int)
      BY <2>1, <2>3
    <3> QED
      BY <3>1, ConcatIs
  <2> HIDE DEF t
  <2> QED
    BY <2>1, <2>2 DEF a
<1>9. View(u)
  BY <1>0, <1>8 DEF View
<1>10. Edge(e) = Edge(c) /\ Taken(e) = Taken(c) /\ Edge(c) \in Nat
  BY <1>1, <1>6, GrowsTypes DEF Edge, Taken
<1>11. /\ \A i \in 1 .. Len(v.rd) : v.rd[i] = i
       /\ \A i \in 1 .. Len(c.rbuf.data) : c.rbuf.data[i] = Len(v.rd) + i
       /\ Len(v.rd) + Len(c.rbuf.data) <= Taken(c)
       /\ c.shutdown = "NONE" => Len(v.rd) + Len(c.rbuf.data) = Taken(c)
  BY <1>1 DEF RightReceived
<1> DEFINE x == Len(v.rd)
           y == Len(c.rbuf.data)
           x1 == Len(u.rd)
           y1 == Len(b.data)
<1>30. x \in Nat /\ y \in Nat /\ m \in Nat /\ m <= y /\ x1 = x + m /\ y1 = y - m
  BY <1>2, <1>3, <1>5, <1>8
<1> HIDE DEF x, y, x1, y1
<1>31. x1 + y1 = x + y /\ \A i \in 1 .. y1 : m + i \in 1 .. y /\ x + (m + i) = x1 + i
  BY <1>30
<1>12. Len(u.rd) + Len(b.data) = Len(v.rd) + Len(c.rbuf.data)
  BY <1>31 DEF x, y, x1, y1
<1>13. \A i \in 1 .. Len(u.rd) : u.rd[i] = i
  <2> SUFFICES ASSUME NEW i \in 1 .. Len(u.rd) PROVE u.rd[i] = i
    OBVIOUS
  <2>1. CASE i <= Len(v.rd)
    <3>1. i \in 1 .. Len(v.rd)
      BY <1>3, <1>8, <2>1
    <3> QED
      BY <1>8, <1>11, <3>1
  <2>2. CASE ~(i <= Len(v.rd))
    <3> DEFINE j == i - Len(v.rd)
    <3>1. j \in 1 .. m /\ Len(v.rd) + j = i /\ j \in 1 .. Len(c.rbuf.data)
      BY <1>2, <1>3, <1>8, <2>2
    <3> HIDE DEF j
    <3> QED
      BY <1>0, <1>8, <1>11, <3>1
  <2> QED
    BY <2>1, <2>2
<1>14. \A i \in 1 .. Len(b.data) : b.data[i] = Len(u.rd) + i
  <2> SUFFICES ASSUME NEW i \in 1 .. Len(b.data) PROVE b.data[i] = Len(u.rd) + i
    OBVIOUS
  <2>1. m + i \in 1 .. Len(c.rbuf.data) /\ Len(v.rd) + (m + i) = Len(u.rd) + i
    BY <1>31 DEF x, y, x1, y1
  <2> QED
    BY <1>5, <1>11, <2>1
<1>15. RightReceived(e, u.rd)
  BY <1>6, <1>10, <1>11, <1>12, <1>13, <1>14 DEF RightReceived
<1>16. RightAhead(e)
  BY <1>1, <1>5, <1>6 DEF RightAhead
<1>17. Window(e)
  <2>1. Len(c.rbuf.data) + c.rcv_wnd <= RcvBufLen /\ c.rcv_nxt >= ConnectLen
    BY <1>1 DEF Window
  <2>2. Len(b.data) + c.rcv_wnd <= RcvBufLen
    BY <1>2, <1>3, <1>5, <2>1
  <2> QED
    BY <1>1, <1>6, <1>10, <2>1, <2>2 DEF Window
<1>18. Bounded(e, u.rd, u.W)
  <2>1. c.rcv_nxt <= ConnectLen + v.W
    BY <1>1 DEF Bounded
  <2>2. Taken(c) = c.rcv_nxt - ConnectLen
    BY DEF Taken
  <2>3. Len(u.rd) <= v.W
    <3>1. x + y <= Taken(c)
      BY <1>11 DEF x, y
    <3>2. x1 <= v.W
      BY <1>2, <1>3, <1>30, <2>1, <2>2, <3>1
    <3> QED
      BY <3>2 DEF x1
  <2> QED
    BY <1>0, <1>1, <1>6, <2>3 DEF Bounded
<1>19. Receiver(e, u.rd, u.W)
  BY <1>15, <1>16, <1>17, <1>18 DEF Receiver
<1>20. c.rcv_nxt <= e.rcv_nxt /\ Edge(c) <= Edge(e) /\ e.rcv_nxt \in v.cuts
       /\ \A i \in 1 .. Len(e.rlist) : e.rlist[i].seq + e.rlist[i].len \in v.cuts
  BY <1>1, <1>2, <1>6, <1>10 DEF Joined
<1>21. Does(c, e, u)
  BY <1>0, <1>7, <1>19, <1>20, ReceivesWith
<1> QED
  BY <1>4, <1>6, <1>9, <1>21

LEMMA OpeningWindow ==
  ASSUME NEW v, View(v), NEW c, Sound(c, v), c.rcv_nxt # 0, NEW w \in Nat, w >= c.rcv_wnd,
         Len(c.rbuf.data) + w <= RcvBufLen
  PROVE  LET e == [c EXCEPT !.rcv_wnd = w] IN Does(c, e, v) /\ e.state = c.state /\ e.rcv_nxt = c.rcv_nxt
<1> DEFINE e == [c EXCEPT !.rcv_wnd = w]
<1>1. c \in Tcbs /\ RightReceived(c, v.rd) /\ RightAhead(c) /\ Window(c) /\ Bounded(c, v.rd, v.W) /\ Joined(c, v)
  BY DEF Sound, Receiver
<1>2. /\ e \in Tcbs /\ SameSender(c, e) /\ e.slist = c.slist /\ e.out = c.out
      /\ e.state = c.state /\ e.shutdown = c.shutdown
      /\ e.rbuf = c.rbuf /\ e.rcv_nxt = c.rcv_nxt /\ e.rcv_wnd = w /\ e.rlist = c.rlist
  BY <1>1 DEF Tcbs, SameSender
<1> HIDE DEF e
<1>3. Receives(c, e)
  BY <1>2 DEF Receives
<1>4. c.rcv_nxt \in Nat /\ c.rcv_wnd \in Nat /\ \A i \in 1 .. Len(c.rlist) : c.rlist[i].seq + c.rlist[i].len \in Nat
  BY <1>1, ReceiverTypes
<1>5. Edge(c) \in Nat /\ Edge(e) \in Nat /\ Edge(c) <= Edge(e) /\ Taken(e) = Taken(c)
  BY <1>2, <1>4 DEF Edge, Taken
<1>6. RightReceived(e, v.rd) /\ RightAhead(e) /\ Bounded(e, v.rd, v.W)
  BY <1>1, <1>2, <1>5 DEF RightReceived, RightAhead, Bounded
<1>7. Window(e)
  <2>1. ASSUME NEW i \in 1 .. Len(c.rlist) PROVE c.rlist[i].seq >= ConnectLen /\ c.rlist[i].seq + c.rlist[i].len <= Edge(e)
    <3>1. c.rlist[i].seq >= ConnectLen /\ c.rlist[i].seq + c.rlist[i].len <= Edge(c)
      BY <1>1 DEF Window
    <3>2. c.rlist[i].seq + c.rlist[i].len \in Nat
      BY <1>4
    <3> QED
      BY <1>5, <3>1, <3>2
  <2>2. c.rcv_nxt >= ConnectLen
    BY <1>1 DEF Window
  <2> QED
    BY <1>2, <2>1, <2>2 DEF Window
<1>8. Receiver(e, v.rd, v.W)
  BY <1>6, <1>7 DEF Receiver
<1>9. c.rcv_nxt <= e.rcv_nxt /\ e.rcv_nxt \in v.cuts /\ \A i \in 1 .. Len(e.rlist) : e.rlist[i].seq + e.rlist[i].len \in v.cuts
  BY <1>1, <1>2, <1>4 DEF Joined
<1>10. Does(c, e, v)
  BY <1>3, <1>5, <1>8, <1>9, ReceivesSound
<1> QED
  BY <1>2, <1>10 DEF e

\* The view of a connection whose application read r.
Reads(v, u, r) ==
  /\ u.rd = v.rd \o r
  /\ u.w = v.w /\ u.W = v.W /\ u.cuts = v.cuts /\ u.acked = v.acked /\ u.edge = v.edge

LEMMA Handing ==
  ASSUME NEW c \in Tcbs, NEW n \in Nat, NEW v, NEW u, Reads(v, u, ReadOffset(c.rbuf, n, 0))
  PROVE  \E m \in 0 .. Len(c.rbuf.data) :
           /\ Min({n, GetBuffered(c.rbuf)}) = m
           /\ Hands(c, m, ReadOffset(c.rbuf, n, 0), v, u)
           /\ n > 0 /\ Len(c.rbuf.data) > 0 => m > 0
<1> DEFINE l == Len(c.rbuf.data)
           m == IF n <= l THEN n ELSE l
           b == c.rbuf
           o == 0
           r == ReadOffset(b, n, o)
<1>1. b \in Fifos(RcvBufLen) /\ b.data \in Seq(Int) /\ l \in Nat /\ RcvBufLen \in Nat
  BY ReceiverTypes, Constants
<1>2. Min({n, GetBuffered(c.rbuf)}) = m
  <2>1. n \in Int /\ l \in Int /\ GetBuffered(c.rbuf) = l
    BY <1>1, CapacityIs
  <2> HIDE DEF l
  <2> QED
    BY <2>1, MinTwo
<1>3. m \in Nat /\ m \in 0 .. l /\ o \in Nat /\ o + m <= l /\ l = Len(b.data)
  BY <1>1
<1>4. r = ReadOffset(b, m, o)
  <2>1. o + n \in Int /\ o + m \in Int /\ l \in Int
    BY <1>1, <1>3
  <2>2. Min({o + n, l}) = IF o + n <= l THEN o + n ELSE l
    <3> HIDE DEF l, o
    <3> QED
      BY <2>1, MinTwo
  <2>3. Min({o + m, l}) = IF o + m <= l THEN o + m ELSE l
    <3> HIDE DEF l, o, m
    <3> QED
      BY <2>1, MinTwo
  <2>4. Min({o + n, l}) = Min({o + m, l})
    BY <1>1, <2>2, <2>3
  <2> QED
    BY <1>3, <2>4 DEF ReadOffset
<1> HIDE DEF m, b, o
<1>5. /\ ReadOffset(b, m, o) \in Seq(Int) /\ Len(ReadOffset(b, m, o)) = m
      /\ \A i \in 1 .. m : ReadOffset(b, m, o)[i] = b.data[o + i]
  <2> HIDE DEF l
  <2>1. o + m <= Len(b.data)
    BY <1>3
  <2> QED
    BY <1>1, <1>3, <2>1, ReadOffsetIs
<1>6. \A i \in 1 .. m : o + i = i
  BY <1>3 DEF o
<1>7. r \in Seq(Int) /\ Len(r) = m /\ \A i \in 1 .. m : r[i] = c.rbuf.data[i]
  BY <1>4, <1>5, <1>6 DEF b
<1>8. r = ReadOffset(c.rbuf, n, 0)
  BY DEF b, o
<1> HIDE DEF r
<1>9. Hands(c, m, r, v, u)
  BY <1>3, <1>7, <1>8 DEF Hands, Reads
<1>10. n > 0 /\ l > 0 => m > 0
  BY DEF m
<1> QED
  BY <1>2, <1>3, <1>8, <1>9, <1>10

LEMMA Receiving ==
  ASSUME NEW v, View(v), NEW c, Sound(c, v), c.state # "DESTROYED", c.rcv_nxt # 0, NEW n \in Nat, NEW idle \in BOOLEAN,
         NEW u, Reads(v, u, ReadOffset(c.rbuf, n, 0))
  PROVE  LET e == RecvBytes(c, n, idle) IN
         View(u) /\ Does(c, e, u) /\ e.state = c.state /\ e.rcv_nxt = c.rcv_nxt
<1> DEFINE m == Min({n, GetBuffered(c.rbuf)})
           d == Delivered(c, m)
           free == GetWriteRemaining(d.rbuf)
           e == [d EXCEPT !.rcv_wnd = free]
           f == attemptSend(e, "ImmediateAck", idle)
           g == RecvBytes(c, n, idle)
<1>1. c \in Tcbs
  BY DEF Sound
<1>2. Hands(c, m, ReadOffset(c.rbuf, n, 0), v, u)
  BY <1>1, Handing
<1>3. g = IF free - c.rcv_wnd < Min({RcvBufLen \div 2, m_mss(c)}) THEN d ELSE IF c.rcv_wnd = 0 THEN f ELSE e
  BY DEF RecvBytes, Delivered
<1> HIDE DEF m
<1>4. View(u) /\ Does(c, d, u) /\ d.state = c.state /\ d.rcv_nxt = c.rcv_nxt /\ d.rcv_wnd = c.rcv_wnd
  BY <1>2, Delivering
<1> HIDE DEF d
<1>5. Sound(d, u) /\ d \in Tcbs /\ Window(d)
  BY <1>4 DEF Does, Sound, Receiver
<1>6. /\ d.rbuf \in Fifos(RcvBufLen) /\ Len(d.rbuf.data) \in Nat /\ RcvBufLen \in Nat /\ d.rcv_wnd \in Nat
      /\ Len(d.rbuf.data) + d.rcv_wnd <= RcvBufLen
  BY <1>5, ReceiverTypes, Constants DEF Window
<1>7. free = RcvBufLen - Len(d.rbuf.data)
  BY <1>6, CapacityIs
<1>8. free \in Nat /\ free >= d.rcv_wnd /\ Len(d.rbuf.data) + free <= RcvBufLen
  BY <1>6, <1>7
<1> HIDE DEF free
<1>9. Does(d, e, u) /\ e.state = d.state /\ e.rcv_nxt = d.rcv_nxt
  BY <1>4, <1>5, <1>8, OpeningWindow
<1> HIDE DEF e
<1>10. "ImmediateAck" \in Flags
  BY DEF Flags
<1>11. Does(e, f, u) /\ f.state = e.state /\ f.rcv_nxt = e.rcv_nxt
  BY <1>4, <1>9, <1>10, Attempting DEF Does
<1> HIDE DEF f
<1>12. g = d \/ g = e \/ g = f
  BY <1>3
<1> HIDE DEF g
<1>13. Grows(c, d) /\ Grows(d, e) /\ Grows(e, f) /\ Sound(d, u) /\ Sound(e, u) /\ Sound(f, u)
  BY <1>4, <1>9, <1>11 DEF Does
<1>14. e \in Tcbs /\ f \in Tcbs
  BY <1>13 DEF Sound
<1>15. Grows(c, e) /\ Grows(c, f)
  <2>1. Grows(c, e)
    BY <1>1, <1>5, <1>13, <1>14, GrowsTrans
  <2> QED
    BY <1>1, <1>13, <1>14, <2>1, GrowsTrans
<1> QED
  BY <1>4, <1>9, <1>11, <1>12, <1>13, <1>15 DEF Does, g

WithRoom(c, room) == [c EXCEPT !.room = room]

LEMMA Rooming ==
  ASSUME NEW v, NEW c, Sound(c, v), NEW room \in Nat
  PROVE  LET e == WithRoom(c, room) IN
         /\ Does(c, e, v) /\ e.state = c.state /\ e.rcv_nxt = c.rcv_nxt /\ e.rbuf = c.rbuf /\ e.sbuf = c.sbuf
         /\ e.out = c.out /\ e.shutdown = c.shutdown /\ e.snd_wnd = c.snd_wnd
<1> DEFINE e == WithRoom(c, room)
<1>1. c \in Tcbs
  BY DEF Sound
<1>2. e \in Tcbs /\ SameSender(c, e) /\ e.slist = c.slist /\ SameReceiver(c, e) /\ e.out = c.out /\ e.state = c.state
        /\ e.rcv_nxt = c.rcv_nxt /\ e.rbuf = c.rbuf /\ e.sbuf = c.sbuf /\ e.shutdown = c.shutdown /\ e.snd_wnd = c.snd_wnd
  BY <1>1 DEF Tcbs, SameSender, SameReceiver, WithRoom
<1> HIDE DEF e
<1>3. SameCore(c, e)
  BY <1>2 DEF SameCore
<1> QED
  BY <1>2, <1>3, DoesCore DEF e

\* A part of NotifyClock: it may close the connection.
Ticks(c, e, v) == Does(c, e, v) /\ e.rcv_nxt = c.rcv_nxt /\ (e.state = c.state \/ e.state = "CLOSED")

LEMMA TicksTrans ==
  ASSUME NEW v, NEW c, Sound(c, v), NEW d, Ticks(c, d, v), NEW e, Ticks(d, e, v)
  PROVE  Ticks(c, e, v)
<1>1. Does(c, e, v)
  BY DoesTrans DEF Ticks
<1> QED
  BY <1>1 DEF Ticks

LEMMA TicksSelf ==
  ASSUME NEW v, NEW c, Sound(c, v)
  PROVE  Ticks(c, c, v)
BY DoesSelf DEF Ticks

Slowed(c, x) == [c EXCEPT !.ssthresh = x]

LEMMA SlowingDown ==
  ASSUME NEW v, View(v), NEW c, Sound(c, v), c.snd_nxt # 0, NEW r, Answers(c, r, v), NEW n \in Nat
  PROVE  Ticks(c, SlowStart(n, r), v)
<1> DEFINE d == r.c
           x == Max({n \div 2, 2 * m_mss(d)})
           w == m_mss(d)
           f == Slowed(d, x)
           e == WithCwnd(f, w)
<1>1. CASE ~r.ok
  <2>1. SlowStart(n, r) = r.c
    BY <1>1 DEF SlowStart
  <2> QED
    BY <1>1, <2>1 DEF Answers, Ticks
<1>2. CASE r.ok
  <2>1. Sound(d, v) /\ Grows(c, d) /\ Does(c, d, v) /\ d.rcv_nxt = c.rcv_nxt /\ d.state = c.state
    BY <1>2 DEF Answers, Does
  <2>2. d \in Tcbs /\ Ready(d) /\ c \in Tcbs
    BY <2>1, ReadySound
  <2>3. m_mss(d) \in Nat /\ m_mss(d) > 0 /\ d.snd_nxt \in Nat /\ c.snd_nxt \in Nat
    BY <2>2, TcbTypes, MssIs
  <2>4. d.snd_nxt # 0
    BY <2>1, <2>3 DEF Grows
  <2>5. x \in Nat \ {0}
    <3>1. n \div 2 \in Int /\ 2 * m_mss(d) \in Int
      BY <2>3
    <3>2. x = IF n \div 2 >= 2 * m_mss(d) THEN n \div 2 ELSE 2 * m_mss(d)
      BY <3>1, MaxTwo
    <3> QED
      BY <2>3, <3>1, <3>2
  <2>6. SlowStart(n, r) = e
    BY <1>2 DEF SlowStart, Slowed
  <2> HIDE DEF x
  <2>7. w \in Nat /\ w > 0
    BY <2>3
  <2> HIDE DEF w, d
  <2>8. f \in Tcbs /\ Paces(d, f) /\ f.recover = d.recover
    BY <2>2, <2>5 DEF Tcbs, Paces, SameRest, Slowed
  <2> HIDE DEF f
  <2>9. Paces(f, e) /\ e.recover = f.recover
    BY <2>7, <2>8, WithCwndIs
  <2> HIDE DEF e
  <2>10. Paces(d, e)
    BY <2>8, <2>9 DEF Paces, SameRest
  <2>11. Sends(d, e)
    BY <2>2, <2>4, <2>8, <2>9, <2>10, Repaced
  <2>12. Does(d, e, v) /\ e.state = d.state /\ e.rcv_nxt = d.rcv_nxt
    BY <2>1, <2>11, DoesSend DEF Sends, SameRest
  <2>13. Does(c, e, v)
    BY <2>1, <2>12, DoesTrans
  <2> QED
    BY <2>1, <2>6, <2>12, <2>13 DEF Ticks
<1> QED
  BY <1>1, <1>2 DEF Answers

LEMMA TickRto ==
  ASSUME NEW v, View(v), NEW c, Sound(c, v), NEW expired
  PROVE  Ticks(c, AfterRto(c, expired), v)
<1>1. CASE ~("rto" \in expired /\ c.rto)
  <2>1. AfterRto(c, expired) = c
    BY <1>1 DEF AfterRto
  <2> QED
    BY <2>1, TicksSelf
<1>2. CASE "rto" \in expired /\ c.rto
  <2>1. c \in Tcbs /\ SentFirst(c)
    BY DEF Sound, Sender
  <2>2. c.snd_una \in Nat /\ c.snd_nxt \in Nat
    BY <2>1, TcbTypes
  <2>3. c.snd_nxt > c.snd_una
    BY <1>2, <2>1 DEF SentFirst
  <2>4. c.snd_una < c.snd_nxt /\ InFlight(c) \in Nat /\ c.snd_nxt # 0
    BY <2>2, <2>3 DEF InFlight
  <2>5. Answers(c, Retransmit(c), v)
    BY <2>4, Retransmitting
  <2>6. AfterRto(c, expired) = SlowStart(InFlight(c), Retransmit(c))
    BY <1>2 DEF AfterRto, ClockRetransmit
  <2> QED
    BY <2>4, <2>5, <2>6, SlowingDown
<1> QED
  BY <1>1, <1>2

\* A connection that has sent something was opened.
LEMMA SentOpened ==
  ASSUME NEW v, View(v), NEW c, Sound(c, v), c.snd_nxt # 0
  PROVE  c.state \in Opened
<1>1. c \in Tcbs /\ SentFirst(c) /\ Queued(c, v.w)
  BY DEF Sound, Sender
<1>2. c.snd_nxt \in Nat /\ End(c) \in Nat /\ c.state \in States
  BY <1>1, TcbTypes, SegmentTypes DEF Tcbs
<1>3. c.snd_nxt <= End(c)
  BY <1>1 DEF SentFirst
<1>4. End(c) # 0
  BY <1>2, <1>3
<1>5. c.state \notin {"LISTEN", "DESTROYED"}
  BY <1>1, <1>4 DEF Queued
<1> QED
  BY <1>2, <1>5 DEF States, Opened

LEMMA Acking ==
  ASSUME NEW v, View(v), NEW c, Sound(c, v), NEW seq \in Int
  PROVE  Ticks(c, packet(c, seq, FALSE, << >>), v)
<1> DEFINE e == packet(c, seq, FALSE, << >>)
<1>1. Sends(c, e)
  BY ReadySound, AckPacket
<1>2. Does(c, e, v)
  BY <1>1, DoesSend
<1>3. e.state = c.state /\ e.rcv_nxt = c.rcv_nxt
  BY <1>1 DEF Sends, SameRest
<1> HIDE DEF e
<1>4. Ticks(c, e, v)
  BY <1>2, <1>3 DEF Ticks
<1> QED
  BY <1>4 DEF e

LEMMA TickProbe ==
  ASSUME NEW v, View(v), NEW c, Sound(c, v), NEW expired, NEW gone
  PROVE  Ticks(c, AfterProbe(c, expired, gone), v)
<1>1. CASE ~(c.state # "CLOSED" /\ "probe" \in expired /\ c.snd_wnd = 0)
  <2>1. AfterProbe(c, expired, gone) = c
    BY <1>1 DEF AfterProbe
  <2> QED
    BY <2>1, TicksSelf
<1>2. CASE c.state # "CLOSED" /\ "probe" \in expired /\ c.snd_wnd = 0
  <2>1. c \in Tcbs /\ ConnectWhole(c)
    BY DEF Sound, Sender
  <2>2. c.snd_nxt \in Nat /\ c.snd_wnd \in Nat
    BY <2>1, TcbTypes
  <2>3. c.snd_nxt # 0
    BY <1>2, <2>1, <2>2 DEF ConnectWhole
  <2>4. c.state \in Opened
    BY <2>3, SentOpened
  <2>5. CASE gone
    <3>1. AfterProbe(c, expired, gone) = closedown(c)
      BY <1>2, <2>5 DEF AfterProbe, ClockProbe
    <3>2. Does(c, closedown(c), v) /\ closedown(c).state = "CLOSED"
      BY <2>4, Closing
    <3>3. closedown(c).rcv_nxt = c.rcv_nxt
      BY <2>1 DEF closedown, Tcbs
    <3> QED
      BY <3>1, <3>2, <3>3 DEF Ticks
  <2>6. CASE ~gone
    <3>1. AfterProbe(c, expired, gone) = packet(c, c.snd_nxt - 1, FALSE, << >>)
      BY <1>2, <2>6 DEF AfterProbe, ClockProbe
    <3>2. c.snd_nxt - 1 \in Int
      BY <2>2
    <3> QED
      BY <3>1, <3>2, Acking
  <2> QED
    BY <2>5, <2>6
<1> QED
  BY <1>1, <1>2

LEMMA TickDelay ==
  ASSUME NEW v, View(v), NEW c, Sound(c, v), NEW expired
  PROVE  Ticks(c, AfterDelay(c, expired), v)
<1>1. CASE ~(c.state # "CLOSED" /\ "ack" \in expired /\ c.t_ack)
  <2>1. AfterDelay(c, expired) = c
    BY <1>1 DEF AfterDelay
  <2> QED
    BY <2>1, TicksSelf
<1>2. CASE c.state # "CLOSED" /\ "ack" \in expired /\ c.t_ack
  <2>1. AfterDelay(c, expired) = packet(c, c.snd_nxt, FALSE, << >>)
    BY <1>2 DEF AfterDelay, ClockAck
  <2>2. c.snd_nxt \in Int
    BY TcbTypes DEF Sound
  <2> QED
    BY <2>1, <2>2, Acking
<1> QED
  BY <1>1, <1>2

LEMMA Ticking ==
  ASSUME NEW v, View(v), NEW c, Sound(c, v), NEW expired, NEW gone
  PROVE  Ticks(c, AfterDelay(AfterProbe(AfterRto(c, expired), expired, gone), expired), v)
<1> DEFINE d == AfterRto(c, expired)
           e == AfterProbe(d, expired, gone)
           f == AfterDelay(e, expired)
<1>1. Ticks(c, d, v) /\ Sound(d, v)
  BY TickRto DEF Ticks, Does
<1> HIDE DEF d
<1>2. Ticks(d, e, v) /\ Sound(e, v)
  BY <1>1, TickProbe DEF Ticks, Does
<1> HIDE DEF e
<1>3. Ticks(e, f, v)
  BY <1>2, TickDelay
<1> HIDE DEF f
<1>4. Ticks(c, e, v)
  BY <1>1, <1>2, TicksTrans
<1>5. Ticks(c, f, v)
  BY <1>3, <1>4, TicksTrans
<1> QED
  BY <1>5 DEF d, e, f

\* The view of a connection whose application wrote n bytes.
Writes(v, u, n) ==
  u.w = v.w + n /\ u.rd = v.rd /\ u.W = v.W /\ u.cuts = v.cuts /\ u.acked = v.acked /\ u.edge = v.edge

LEMMA QueueingData ==
  ASSUME NEW v, View(v), NEW c, Sound(c, v), c.state = "ESTABLISHED", NEW n \in Nat, n > 0,
         Len(c.sbuf.data) + n <= SndBufLen, NEW u, Writes(v, u, n)
  PROVE  LET e == queue(c, [i \in 1 .. n |-> v.w + i], FALSE) IN
         View(u) /\ Does(c, e, u) /\ e.state = c.state /\ e.rcv_nxt = c.rcv_nxt
<1> DEFINE data == [i \in 1 .. n |-> v.w + i]
           e == queue(c, data, FALSE)
<1>1. c \in Tcbs /\ Sender(c) /\ Queued(c, v.w) /\ Receiver(c, v.rd, v.W) /\ Joined(c, v) /\ RightOut(c, v)
  BY DEF Sound
<1>2. v.w \in Nat /\ ConnectLen \in Nat /\ End(c) = ConnectLen + v.w
  BY <1>1, Constants DEF View, Queued
<1>3. View(u)
  BY <1>2 DEF View, Writes
<1>4. data \in Seq(Int) /\ Len(data) = n /\ \A i \in 1 .. n : data[i] = v.w + i
  BY <1>2
<1> HIDE DEF data
<1>5. \A i \in 1 .. n : Byte(End(c) + i - 1) = v.w + i
  BY <1>2 DEF Byte
<1>6. MayQueue(c, data, FALSE)
  BY <1>2, <1>4, <1>5 DEF MayQueue
<1>7. e \in Tcbs /\ Sender(e) /\ SameButQueue(c, e) /\ KeepsCuts(c, e) /\ End(e) = End(c) + Len(data)
  BY <1>1, <1>6, Queueing
<1> HIDE DEF e
<1>8. /\ e.state = c.state /\ SameReceiver(c, e) /\ e.out = c.out /\ e.snd_una = c.snd_una
      /\ e.snd_nxt = c.snd_nxt /\ e.snd_wnd = c.snd_wnd /\ e.rcv_nxt = c.rcv_nxt /\ e.rlist = c.rlist
      /\ e.shutdown = c.shutdown
  BY <1>7 DEF SameButQueue, SameReceiver
<1>9. Queued(e, u.w)
  <2>1. End(e) = ConnectLen + (v.w + n)
    BY <1>2, <1>4, <1>7
  <2> QED
    BY <1>8, <2>1 DEF Queued, Writes
<1>10. Receiver(e, u.rd, u.W) /\ Edge(e) = Edge(c)
  BY <1>1, <1>8, SameReceiverKeeps DEF Writes
<1>11. Joined(e, u)
  BY <1>1, <1>8 DEF Joined, Writes
<1>12. c.rcv_nxt <= e.rcv_nxt /\ Edge(c) <= Edge(e) /\ c.snd_nxt <= e.snd_nxt
  BY <1>1, <1>8, <1>10, GrowsTypes
<1>13. RightOut(e, v)
  BY <1>1, <1>7, <1>8, <1>12, OutGrows
<1>14. RightOut(e, u)
  BY <1>13 DEF RightOut, Writes
<1>15. Grows(c, e)
  BY <1>7, <1>8, <1>12 DEF Grows
<1>16. Does(c, e, u)
  BY <1>7, <1>9, <1>10, <1>11, <1>14, <1>15 DEF Does, Sound
<1> QED
  BY <1>3, <1>8, <1>16 DEF e, data

LEMMA Sending ==
  ASSUME NEW v, View(v), NEW c, Sound(c, v), c.state = "ESTABLISHED", NEW n \in Nat, n > 0,
         Len(c.sbuf.data) + n <= SndBufLen, NEW idle \in BOOLEAN, NEW u, Writes(v, u, n)
  PROVE  LET e == attemptSend(queue(c, [i \in 1 .. n |-> v.w + i], FALSE), "None", idle) IN
         View(u) /\ Does(c, e, u) /\ e.state = c.state /\ e.rcv_nxt = c.rcv_nxt
<1> DEFINE d == queue(c, [i \in 1 .. n |-> v.w + i], FALSE)
           e == attemptSend(d, "None", idle)
<1>1. View(u) /\ Does(c, d, u) /\ d.state = c.state /\ d.rcv_nxt = c.rcv_nxt
  BY QueueingData
<1> HIDE DEF d
<1>2. "None" \in Flags /\ Sound(d, u)
  BY <1>1 DEF Flags, Does
<1>3. Does(d, e, u) /\ e.state = d.state /\ e.rcv_nxt = d.rcv_nxt
  BY <1>1, <1>2, Attempting
<1> HIDE DEF e
<1>4. c \in Tcbs /\ d \in Tcbs /\ e \in Tcbs /\ Grows(c, d) /\ Grows(d, e) /\ Sound(e, u)
  BY <1>1, <1>3 DEF Sound, Does
<1>5. Grows(c, e)
  BY <1>4, GrowsTrans
<1>6. Does(c, e, u)
  BY <1>4, <1>5 DEF Does
<1> QED
  BY <1>1, <1>3, <1>6 DEF d, e

-----------------------------------------------------------------------------
(* The two connections and the packets between them *)

Alive(c) == c.state # "DESTROYED"

\* What a connection may rely on when d is the other one: nothing once d is gone.
ViewOf(d, w, W, rd) ==
  [w |-> w, rd |-> rd, W |-> W,
   cuts |-> {x \in Nat : Alive(d) => Cut(d, x)},
   acked |-> {x \in Nat : Alive(d) => x <= d.rcv_nxt},
   edge |-> {x \in Nat : Alive(d) => x <= Edge(d)}]

\* Between two calls.
Idle(c, w) ==
  /\ Phase(c) /\ c.out = {} /\ c.room = 0
  /\ c.state = "LISTEN" => w = 0
  /\ c.state = "DESTROYED" => c.shutdown # "NONE"

\* The packets n on their way from d to c, W bytes being written at the side of d.
OnTheWay(c, d, n, W) ==
  \A k \in n : /\ k \in Packets /\ RightPacket(k) /\ Written(k, W)
               /\ Alive(c) => ForReceiver(c, k)
               /\ Alive(d) => FromSender(d, k)

\* Until c has it, the connect message is under way if d sent anything.
ConnectAhead(c, d, n) ==
  /\ c.rcv_nxt = 0 /\ c.state \notin {"CLOSED", "DESTROYED"}
  /\ (Alive(d) /\ d.snd_nxt > 0) \/ \E k \in n : k.data # << >>
  => \E k \in n : k.ctl

Side(c, d, n, w, W, rd) ==
  /\ Sound(c, ViewOf(d, w, W, rd)) /\ Idle(c, w) /\ OnTheWay(c, d, n, W) /\ ConnectAhead(c, d, n)

LEMMA ViewOfIs ==
  ASSUME NEW d, d \in Tcbs, Window(d), NEW w \in Nat, NEW W \in Nat, NEW rd \in Seq(Int)
  PROVE  LET v == ViewOf(d, w, W, rd) IN
         /\ View(v) /\ v.w = w /\ v.W = W /\ v.rd = rd
         /\ \A x \in Nat : x \in v.cuts <=> (Alive(d) => Cut(d, x))
         /\ \A x \in Nat : x \in v.acked <=> (Alive(d) => x <= d.rcv_nxt)
         /\ \A x \in Nat : x \in v.edge <=> (Alive(d) => x <= Edge(d))
         /\ v.cuts \subseteq Nat /\ v.acked \subseteq Nat /\ v.edge \subseteq Nat
<1> DEFINE v == ViewOf(d, w, W, rd)
<1>1. /\ v.w = w /\ v.W = W /\ v.rd = rd
      /\ v.cuts = {x \in Nat : Alive(d) => Cut(d, x)}
      /\ v.acked = {x \in Nat : Alive(d) => x <= d.rcv_nxt}
      /\ v.edge = {x \in Nat : Alive(d) => x <= Edge(d)}
  BY DEF ViewOf
<1> HIDE DEF v
<1>2. v.cuts \subseteq Nat /\ v.acked \subseteq Nat /\ v.edge \subseteq Nat
  BY <1>1
<1>3. Edge(d) \in Nat /\ ConnectLen \in Nat /\ ConnectLen <= Edge(d)
  <2>1. d.rcv_nxt \in Nat /\ d.rcv_wnd \in Nat /\ Edge(d) \in Nat
    BY GrowsTypes
  <2> QED
    BY <2>1, Constants DEF Window, Edge
<1>4. ConnectLen \in v.edge /\ \A x \in v.edge : \A y \in Nat : y <= x => y \in v.edge
  BY <1>1, <1>3
<1>5. View(v)
  BY <1>1, <1>2, <1>4 DEF View
<1> QED
  BY <1>1, <1>2, <1>5 DEF v

\* A connection may rely on less.
LEMMA SoundWith ==
  ASSUME NEW c, NEW v, View(v), Sound(c, v), NEW u, View(u), u.w = v.w, u.rd = v.rd, v.W <= u.W,
         v.cuts \subseteq u.cuts, v.acked \subseteq u.acked, v.edge \subseteq u.edge
  PROVE  Sound(c, u)
<1>1. c \in Tcbs /\ Sender(c) /\ Queued(c, v.w) /\ Receiver(c, v.rd, v.W) /\ Joined(c, v) /\ RightOut(c, v)
  BY DEF Sound
<1>2. v.W \in Nat /\ u.W \in Nat /\ ConnectLen \in Nat /\ v.rd \in Seq(Int) /\ Len(v.rd) \in Nat
  BY Constants DEF View
<1>3. Bounded(c, v.rd, v.W)
  BY <1>1 DEF Receiver
<1>4. c.rcv_nxt \in Nat /\ \A i \in 1 .. Len(c.rlist) : c.rlist[i].seq + c.rlist[i].len \in Nat
  BY <1>1, ReceiverTypes
<1>5. Bounded(c, u.rd, u.W)
  <2>1. Len(u.rd) <= u.W
    <3>1. Len(v.rd) <= v.W
      BY <1>3 DEF Bounded
    <3> QED
      BY <1>2, <3>1
  <2>2. \A x \in Nat : x <= ConnectLen + v.W => x <= ConnectLen + u.W
    BY <1>2
  <2>3. c.rcv_nxt <= ConnectLen + u.W
    BY <1>3, <1>4, <2>2 DEF Bounded
  <2>4. ASSUME NEW i \in 1 .. Len(c.rlist) PROVE c.rlist[i].seq + c.rlist[i].len <= ConnectLen + u.W
    BY <1>3, <1>4, <2>2 DEF Bounded
  <2> QED
    BY <2>1, <2>3, <2>4 DEF Bounded
<1>6. Receiver(c, u.rd, u.W)
  BY <1>1, <1>5 DEF Receiver
<1>7. Joined(c, u) /\ RightOut(c, u)
  BY <1>1 DEF Joined, RightOut
<1> QED
  BY <1>1, <1>6, <1>7 DEF Sound

Settled(c) == [c EXCEPT !.out = {}, !.room = 0]

LEMMA Settling ==
  ASSUME NEW v, NEW c, Sound(c, v)
  PROVE  LET e == Settled(c) IN
         /\ Sound(e, v) /\ e \in Tcbs /\ KeepsCuts(c, e) /\ e.rcv_nxt = c.rcv_nxt /\ Edge(e) = Edge(c)
         /\ e.snd_nxt = c.snd_nxt /\ e.state = c.state /\ e.shutdown = c.shutdown /\ e.out = {} /\ e.room = 0
<1> DEFINE e == Settled(c)
<1>1. c \in Tcbs /\ Sender(c) /\ Queued(c, v.w) /\ Receiver(c, v.rd, v.W) /\ Joined(c, v)
  BY DEF Sound
<1>2. /\ e \in Tcbs /\ SameSender(c, e) /\ e.slist = c.slist /\ SameReceiver(c, e) /\ e.state = c.state
      /\ e.out = {} /\ e.room = 0 /\ e.rcv_nxt = c.rcv_nxt /\ e.snd_nxt = c.snd_nxt /\ e.shutdown = c.shutdown
      /\ e.sbuf = c.sbuf /\ e.snd_una = c.snd_una /\ e.snd_wnd = c.snd_wnd /\ e.rlist = c.rlist
  BY <1>1 DEF Tcbs, SameSender, SameReceiver, Settled
<1> HIDE DEF e
<1>3. Sender(e) /\ KeepsCuts(c, e)
  BY <1>1, <1>2, SameSenderKeeps
<1>4. Receiver(e, v.rd, v.W) /\ Edge(e) = Edge(c)
  BY <1>1, <1>2, SameReceiverKeeps
<1>5. Queued(e, v.w) /\ Joined(e, v) /\ RightOut(e, v)
  BY <1>1, <1>2 DEF Queued, End, Joined, RightOut
<1>6. Sound(e, v)
  BY <1>2, <1>3, <1>4, <1>5 DEF Sound
<1> QED
  BY <1>2, <1>3, <1>4, <1>6 DEF e

\* What the other side relies on only grows.
Outgrows(c, e) ==
  /\ KeepsCuts(c, e) /\ c.rcv_nxt <= e.rcv_nxt /\ Edge(c) <= Edge(e) /\ c.snd_nxt <= e.snd_nxt
  /\ c.snd_nxt = 0 /\ e.snd_nxt > 0 => \E k \in e.out : k.ctl

\* The side of the connection that moved from c to e and sent e.out.
LEMMA OwnSide ==
  ASSUME NEW d, NEW w, NEW W, NEW rd, NEW c \in Tcbs, NEW e, Sound(e, ViewOf(d, w, W, rd)), Outgrows(c, e),
         Alive(c), Alive(e), Phase(e), e.state = "LISTEN" => w = 0,
         NEW n, OnTheWay(c, d, n, W), NEW n2 \in SUBSET n, ConnectAhead(e, d, n2)
  PROVE  Side(Settled(e), d, n2, w, W, rd)
<1> DEFINE f == Settled(e)
           v == ViewOf(d, w, W, rd)
<1>1. /\ Sound(f, v) /\ f \in Tcbs /\ KeepsCuts(e, f) /\ f.rcv_nxt = e.rcv_nxt /\ Edge(f) = Edge(e)
      /\ f.snd_nxt = e.snd_nxt /\ f.state = e.state /\ f.shutdown = e.shutdown /\ f.out = {} /\ f.room = 0
  BY Settling
<1> HIDE DEF f, v
<1>2. Idle(f, w)
  BY <1>1 DEF Idle, Phase, Alive
<1>3. e \in Tcbs
  BY DEF Sound
<1>4. OnTheWay(f, d, n2, W)
  <2> SUFFICES ASSUME NEW k \in n2
               PROVE  /\ k \in Packets /\ RightPacket(k) /\ Written(k, W)
                      /\ Alive(f) => ForReceiver(f, k)
                      /\ Alive(d) => FromSender(d, k)
    BY DEF OnTheWay
  <2>1. k \in Packets /\ RightPacket(k) /\ Written(k, W) /\ ForReceiver(c, k) /\ (Alive(d) => FromSender(d, k))
    BY DEF OnTheWay
  <2>2. k.ack \in Nat /\ After(k) \in Int
    BY <2>1, PacketTypes
  <2>3. Cut(f, k.ack)
    BY <1>1, <2>1, <2>2 DEF ForReceiver, Outgrows, KeepsCuts
  <2>4. k.data # << >> => After(k) <= Edge(f)
    <3>1. Edge(c) \in Nat /\ Edge(e) \in Nat /\ Edge(c) <= Edge(e)
      BY <1>3, GrowsTypes DEF Outgrows
    <3>2. k.data # << >> => After(k) <= Edge(c)
      BY <2>1 DEF ForReceiver
    <3> QED
      BY <1>1, <2>2, <3>1, <3>2
  <2> QED
    BY <2>1, <2>3, <2>4 DEF ForReceiver
<1>5. ConnectAhead(f, d, n2)
  BY <1>1 DEF ConnectAhead
<1> QED
  BY <1>1, <1>2, <1>4, <1>5 DEF Side, f, v

\* A packet that was just sent.
LEMMA JustSent ==
  ASSUME NEW d \in Tcbs, Window(d), NEW w \in Nat, NEW W \in Nat, NEW rd \in Seq(Int),
         NEW e, Sound(e, ViewOf(d, w, W, rd)), NEW k \in e.out
  PROVE  /\ k \in Packets /\ RightPacket(k) /\ Written(k, w) /\ FromSender(e, k)
         /\ Alive(d) => ForReceiver(d, k)
         /\ k.data # << >> => e.snd_nxt > 0
<1> DEFINE v == ViewOf(d, w, W, rd)
<1>1. View(v) /\ \A x \in Nat : (x \in v.cuts <=> (Alive(d) => Cut(d, x))) /\ (x \in v.edge <=> (Alive(d) => x <= Edge(d)))
  BY ViewOfIs
<1>2. v.w = w
  BY ViewOfIs
<1> HIDE DEF v
<1>3. e \in Tcbs /\ SentFirst(e) /\ Queued(e, w) /\ Joined(e, v) /\ RightOut(e, v)
  BY <1>2 DEF Sound, Sender, v
<1>4. k \in Packets /\ RightPacket(k) /\ FromSender(e, k) /\ k.ack \in v.cuts
  BY <1>3, GrowsTypes DEF RightOut
<1>5. e.snd_nxt \in Nat /\ End(e) \in Nat /\ ConnectLen \in Nat /\ e.snd_nxt <= End(e) /\ e.snd_nxt \in v.edge
      /\ End(e) <= ConnectLen + w
  <2>1. e.snd_nxt \in Nat /\ End(e) \in Nat /\ ConnectLen \in Nat
    BY <1>3, TcbTypes, SegmentTypes, Constants
  <2>2. End(e) = 0 \/ End(e) = ConnectLen + w
    BY <1>3 DEF Queued
  <2> QED
    BY <1>3, <2>1, <2>2 DEF SentFirst, Joined
<1>6. k.ack \in Nat /\ After(k) \in Int /\ Len(k.data) \in Nat /\ k.seq \in Int /\ (k.data # << >> <=> Len(k.data) > 0)
  BY <1>4, PacketTypes
<1>7. ASSUME k.data # << >> PROVE After(k) <= e.snd_nxt /\ After(k) \in Nat /\ After(k) > 0
  <2>1. After(k) <= e.snd_nxt
    BY <1>4, <1>7 DEF FromSender, Cut
  <2>2. k.seq >= 0
    BY <1>4, <1>5, <1>6, <1>7 DEF RightPacket
  <2> QED
    BY <1>6, <1>7, <2>1, <2>2 DEF After
<1>8. Written(k, w)
  BY <1>5, <1>7 DEF Written
<1>9. Alive(d) => ForReceiver(d, k)
  <2> SUFFICES ASSUME Alive(d) PROVE ForReceiver(d, k)
    OBVIOUS
  <2>1. Cut(d, k.ack) /\ e.snd_nxt <= Edge(d) /\ Edge(d) \in Nat
    BY <1>1, <1>4, <1>5, <1>6, GrowsTypes
  <2>2. k.data # << >> => After(k) <= Edge(d)
    BY <1>5, <1>7, <2>1
  <2> QED
    BY <2>1, <2>2 DEF ForReceiver
<1> QED
  BY <1>4, <1>5, <1>7, <1>8, <1>9

\* The side of the other connection, which may get some of what was sent.
LEMMA OtherSide ==
  ASSUME NEW d, NEW w \in Nat, NEW W \in Nat, NEW rd \in Seq(Int), NEW c \in Tcbs, Window(c),
         NEW e, Sound(e, ViewOf(d, w, W, rd)), Outgrows(c, e), Alive(c), Alive(e),
         NEW w0 \in Nat, w0 <= w, NEW rd2 \in Seq(Int),
         NEW m, Side(d, c, m, W, w0, rd2), NEW m2, m \subseteq m2, m2 \subseteq m \cup e.out,
         \A k \in e.out : k.ctl => k \in m2
  PROVE  Side(d, Settled(e), m2, W, w, rd2)
<1> DEFINE f == Settled(e)
           v == ViewOf(d, w, W, rd)
           v1 == ViewOf(c, W, w0, rd2)
           v2 == ViewOf(f, W, w, rd2)
<1>1. /\ Sound(f, v) /\ f \in Tcbs /\ KeepsCuts(e, f) /\ f.rcv_nxt = e.rcv_nxt /\ Edge(f) = Edge(e)
      /\ f.snd_nxt = e.snd_nxt /\ f.state = e.state
  BY Settling
<1>2. Window(f) /\ e \in Tcbs /\ Window(e)
  BY <1>1 DEF Sound, Receiver, v
<1>3. Sound(d, v1) /\ d \in Tcbs /\ Window(d) /\ Idle(d, W) /\ OnTheWay(d, c, m, w0) /\ ConnectAhead(d, c, m)
  BY DEF Side, Sound, Receiver
<1> HIDE DEF f, v
<1>4. KeepsCuts(c, f) /\ c.rcv_nxt <= f.rcv_nxt /\ Edge(c) <= Edge(f) /\ c.snd_nxt <= f.snd_nxt /\ Alive(f)
  BY <1>1 DEF Outgrows, KeepsCuts, Alive
<1>5. /\ c.rcv_nxt \in Nat /\ Edge(c) \in Nat /\ f.rcv_nxt \in Nat /\ Edge(f) \in Nat
      /\ c.snd_nxt \in Nat /\ e.snd_nxt \in Nat /\ f.snd_nxt \in Nat
  BY <1>1, <1>2, GrowsTypes
<1>6. Sound(d, v2)
  <2>1. /\ View(v1) /\ v1.w = W /\ v1.W = w0 /\ v1.rd = rd2
        /\ v1.cuts \subseteq Nat /\ v1.acked \subseteq Nat /\ v1.edge \subseteq Nat
        /\ \A x \in Nat : x \in v1.cuts <=> (Alive(c) => Cut(c, x))
        /\ \A x \in Nat : x \in v1.acked <=> (Alive(c) => x <= c.rcv_nxt)
        /\ \A x \in Nat : x \in v1.edge <=> (Alive(c) => x <= Edge(c))
    BY ViewOfIs
  <2>2. /\ View(v2) /\ v2.w = W /\ v2.W = w /\ v2.rd = rd2
        /\ \A x \in Nat : x \in v2.cuts <=> (Alive(f) => Cut(f, x))
        /\ \A x \in Nat : x \in v2.acked <=> (Alive(f) => x <= f.rcv_nxt)
        /\ \A x \in Nat : x \in v2.edge <=> (Alive(f) => x <= Edge(f))
    <3>1. f \in Tcbs /\ Window(f)
      BY <1>1, <1>2
    <3> QED
      BY <3>1, ViewOfIs
  <2> HIDE DEF v1, v2
  <2>3. v1.cuts \subseteq v2.cuts
    BY <1>4, <2>1, <2>2 DEF KeepsCuts
  <2>4. v1.acked \subseteq v2.acked
    BY <1>4, <1>5, <2>1, <2>2
  <2>5. v1.edge \subseteq v2.edge
    BY <1>4, <1>5, <2>1, <2>2
  <2> QED
    BY <1>3, <2>1, <2>2, <2>3, <2>4, <2>5, SoundWith
<1>7. OnTheWay(d, f, m2, w)
  <2> SUFFICES ASSUME NEW k \in m2
               PROVE  /\ k \in Packets /\ RightPacket(k) /\ Written(k, w)
                      /\ Alive(d) => ForReceiver(d, k)
                      /\ FromSender(f, k)
    BY DEF OnTheWay
  <2>1. CASE k \in m
    <3>1. /\ k \in Packets /\ RightPacket(k) /\ Written(k, w0) /\ (Alive(d) => ForReceiver(d, k))
          /\ FromSender(c, k)
      BY <1>3, <2>1 DEF OnTheWay
    <3>2. FromSender(f, k)
      BY <1>1, <1>4, <3>1, FromSenderGrows
    <3>3. Written(k, w)
      <4>1. After(k) \in Int /\ ConnectLen \in Nat
        BY <3>1, PacketTypes, Constants
      <4>2. \A x \in Int : x <= ConnectLen + w0 => x <= ConnectLen + w
        BY <4>1
      <4> QED
        BY <3>1, <4>1, <4>2 DEF Written
    <3> QED
      BY <3>1, <3>2, <3>3
  <2>2. CASE k \in e.out
    <3>1. k \in Packets /\ RightPacket(k) /\ Written(k, w) /\ FromSender(e, k) /\ (Alive(d) => ForReceiver(d, k))
      BY <1>3, <2>2, JustSent
    <3>2. e.rcv_nxt <= f.rcv_nxt /\ Edge(e) <= Edge(f)
      BY <1>1, <1>5
    <3>3. FromSender(f, k)
      BY <1>1, <1>2, <3>1, <3>2, FromSenderGrows
    <3> QED
      BY <3>1, <3>3
  <2> QED
    BY <2>1, <2>2
<1>8. ConnectAhead(d, f, m2)
  <2> SUFFICES ASSUME d.rcv_nxt = 0, d.state \notin {"CLOSED", "DESTROYED"},
                      f.snd_nxt > 0 \/ \E k \in m2 : k.data # << >>
               PROVE  \E k \in m2 : k.ctl
    BY DEF ConnectAhead
  <2>1. CASE c.snd_nxt > 0 \/ \E k \in m : k.data # << >>
    <3>1. \E k \in m : k.ctl
      BY <1>3, <2>1 DEF ConnectAhead
    <3> QED
      BY <3>1
  <2>2. CASE e.snd_nxt > 0 /\ ~(c.snd_nxt > 0)
    <3>1. c.snd_nxt = 0
      BY <1>5, <2>2
    <3>2. \E k \in e.out : k.ctl
      BY <2>2, <3>1 DEF Outgrows
    <3> QED
      BY <3>2
  <2>3. ASSUME NEW k \in m2, k.data # << >>, k \notin m PROVE e.snd_nxt > 0
    <3>1. k \in e.out
      BY <2>3
    <3> QED
      BY <1>3, <2>3, <3>1, JustSent
  <2> QED
    BY <1>1, <2>1, <2>2, <2>3
<1> QED
  BY <1>3, <1>6, <1>7, <1>8 DEF Side, f, v2

-----------------------------------------------------------------------------
(* The invariant *)

Inv ==
  /\ TypeOK
  /\ \A p \in Peers : Side(tcb[p], tcb[Other(p)], net[p], written[p], written[Other(p)], read[p])

\* What the connection of p relies on.
MyView(p) == ViewOf(tcb[Other(p)], written[p], written[Other(p)], read[p])

LEMMA TwoPeers ==
  ASSUME NEW p \in Peers
  PROVE  Other(p) \in Peers /\ Other(p) # p /\ Other(Other(p)) = p /\ \A x \in Peers : x = p \/ x = Other(p)
BY DEF Peers, Other

LEMMA Facts ==
  ASSUME Inv, NEW p \in Peers
  PROVE  /\ tcb[p] \in Tcbs /\ tcb[Other(p)] \in Tcbs /\ Window(tcb[p]) /\ Window(tcb[Other(p)])
         /\ written[p] \in Nat /\ written[Other(p)] \in Nat /\ read[p] \in Seq(Int) /\ read[Other(p)] \in Seq(Int)
         /\ View(MyView(p)) /\ Sound(tcb[p], MyView(p)) /\ Idle(tcb[p], written[p])
         /\ OnTheWay(tcb[p], tcb[Other(p)], net[p], written[Other(p)])
         /\ ConnectAhead(tcb[p], tcb[Other(p)], net[p])
         /\ Side(tcb[Other(p)], tcb[p], net[Other(p)], written[Other(p)], written[p], read[Other(p)])
         /\ MyView(p).w = written[p] /\ MyView(p).W = written[Other(p)] /\ MyView(p).rd = read[p]
<1> DEFINE q == Other(p)
<1>1. q \in Peers /\ Other(q) = p
  BY TwoPeers
<1> HIDE DEF q
<1>2. /\ tcb[p] \in Tcbs /\ tcb[q] \in Tcbs
      /\ written[p] \in Nat /\ written[q] \in Nat /\ read[p] \in Seq(Int) /\ read[q] \in Seq(Int)
  BY <1>1 DEF Inv, TypeOK
<1>3. /\ Side(tcb[p], tcb[q], net[p], written[p], written[q], read[p])
      /\ Side(tcb[q], tcb[p], net[q], written[q], written[p], read[q])
  BY <1>1 DEF Inv, q
<1>4. Window(tcb[p]) /\ Window(tcb[q])
  BY <1>3 DEF Side, Sound, Receiver
<1>5. MyView(p) = ViewOf(tcb[q], written[p], written[q], read[p])
  BY DEF MyView, q
<1>6. /\ Sound(tcb[p], MyView(p)) /\ Idle(tcb[p], written[p])
      /\ OnTheWay(tcb[p], tcb[q], net[p], written[q]) /\ ConnectAhead(tcb[p], tcb[q], net[p])
  BY <1>3, <1>5 DEF Side
<1>7. View(MyView(p)) /\ MyView(p).w = written[p] /\ MyView(p).W = written[q] /\ MyView(p).rd = read[p]
  <2>1. tcb[q] \in Tcbs /\ Window(tcb[q]) /\ written[p] \in Nat /\ written[q] \in Nat /\ read[p] \in Seq(Int)
    BY <1>2, <1>4
  <2> QED
    BY <1>5, <2>1, ViewOfIs
<1> QED
  BY <1>2, <1>3, <1>4, <1>6, <1>7 DEF q

\* The connection of p moved to e, n2 is left of the packets to it, and S are those
\* to the other side.
LEMMA MovedTo ==
  ASSUME Inv, NEW p \in Peers, Alive(tcb[p]),
         NEW w \in Nat, written[p] <= w, NEW rd \in Seq(Int),
         NEW e, Sound(e, ViewOf(tcb[Other(p)], w, written[Other(p)], rd)), Outgrows(tcb[p], e),
         Alive(e), Phase(e), e.state = "LISTEN" => w = 0,
         NEW n2 \in SUBSET net[p], ConnectAhead(e, tcb[Other(p)], n2),
         NEW S, net[Other(p)] \subseteq S, S \subseteq net[Other(p)] \cup e.out, \A k \in e.out : k.ctl => k \in S,
         tcb' = [tcb EXCEPT ![p] = Settled(e)],
         net' = [net EXCEPT ![Other(p)] = S, ![p] = n2],
         written' = [written EXCEPT ![p] = w], read' = [read EXCEPT ![p] = rd], faults' \in 0 .. MaxFaults
  PROVE  Inv'
<1> DEFINE q == Other(p)
           c == tcb[p]
           d == tcb[q]
           f == Settled(e)
<1>1. q \in Peers /\ q # p /\ Other(q) = p /\ \A x \in Peers : x = p \/ x = q
  BY TwoPeers
<1>2. TypeOK
  BY DEF Inv
<1>3. net[q] \subseteq S /\ S \subseteq net[q] \cup e.out /\ \A k \in e.out : k.ctl => k \in S
  BY DEF q
<1>4. /\ c \in Tcbs /\ d \in Tcbs /\ Window(c) /\ Window(d) /\ written[p] \in Nat /\ written[q] \in Nat
      /\ read[q] \in Seq(Int) /\ OnTheWay(c, d, net[p], written[q])
      /\ Side(d, c, net[q], written[q], written[p], read[q])
  BY Facts
<1> HIDE DEF q, c, d, f
<1>5. Side(f, d, n2, w, written[q], rd)
  BY <1>4, OwnSide DEF q, c, d, f
<1>6. Side(d, f, S, written[q], w, read[q])
  BY <1>3, <1>4, OtherSide DEF q, c, d, f
<1>7. f \in Tcbs
  BY Settling DEF f
<1>8. S \subseteq Packets /\ n2 \subseteq Packets
  BY <1>5, <1>6 DEF Side, OnTheWay
<1>9. /\ tcb'[p] = f /\ tcb'[q] = d /\ net'[p] = n2 /\ net'[q] = S /\ written'[p] = w /\ written'[q] = written[q]
      /\ read'[p] = rd /\ read'[q] = read[q]
  BY <1>1, <1>2 DEF TypeOK, f, d, q
<1>10. /\ tcb' \in [Peers -> Tcbs] /\ net' \in [Peers -> SUBSET Packets]
       /\ written' \in [Peers -> Nat] /\ read' \in [Peers -> Seq(Int)]
  <2>1. tcb' \in [Peers -> Tcbs]
    BY <1>2, <1>7 DEF TypeOK, f
  <2>2. net' \in [Peers -> SUBSET Packets]
    BY <1>2, <1>8 DEF TypeOK
  <2>3. written' \in [Peers -> Nat] /\ read' \in [Peers -> Seq(Int)]
    BY <1>2 DEF TypeOK
  <2> QED
    BY <2>1, <2>2, <2>3
<1>11. TypeOK'
  BY <1>10 DEF TypeOK
<1>12. ASSUME NEW x \in Peers
       PROVE  Side(tcb'[x], tcb'[Other(x)], net'[x], written'[x], written'[Other(x)], read'[x])
  <2>1. CASE x = p
    BY <1>5, <1>9, <2>1 DEF q
  <2>2. CASE x = q
    BY <1>1, <1>6, <1>9, <2>2
  <2> QED
    BY <1>1, <2>1, <2>2
<1> QED
  BY <1>11, <1>12 DEF Inv

LEMMA Moved ==
  ASSUME Inv, ConnectFirst, NEW p \in Peers, Alive(tcb[p]),
         NEW w \in Nat, written[p] <= w, NEW rd \in Seq(Int),
         NEW e, Sound(e, ViewOf(tcb[Other(p)], w, written[Other(p)], rd)), Outgrows(tcb[p], e),
         Alive(e), Phase(e), e.state = "LISTEN" => w = 0,
         NEW n2 \in SUBSET net[p], ConnectAhead(e, tcb[Other(p)], n2), NEW S \in Sent(Other(p), e.out),
         tcb' = [tcb EXCEPT ![p] = Settled(e)],
         net' = [net EXCEPT ![Other(p)] = S, ![p] = n2],
         written' = [written EXCEPT ![p] = w], read' = [read EXCEPT ![p] = rd], faults' \in 0 .. MaxFaults
  PROVE  Inv'
<1>1. /\ net[Other(p)] \subseteq S /\ S \subseteq net[Other(p)] \cup e.out
      /\ \A k \in e.out : k.ctl => k \in S
  BY DEF Sent
<1> QED
  BY <1>1, MovedTo

LEMMA AheadKept ==
  ASSUME NEW c \in Tcbs, NEW e \in Tcbs, NEW d, NEW n, ConnectAhead(c, d, n), c.rcv_nxt <= e.rcv_nxt,
         c.state = "CLOSED" => e.state = "CLOSED", Alive(c)
  PROVE  ConnectAhead(e, d, n)
<1>1. c.rcv_nxt \in Nat /\ e.rcv_nxt \in Nat
  BY TcbTypes
<1>2. e.rcv_nxt = 0 => c.rcv_nxt = 0
  BY <1>1
<1> QED
  BY <1>2 DEF ConnectAhead, Alive

LEMMA DoesOutgrow ==
  ASSUME NEW v, NEW c, NEW e, Does(c, e, v), Alive(c)
  PROVE  Outgrows(c, e) /\ Alive(e) /\ c.rcv_nxt <= e.rcv_nxt /\ e \in Tcbs /\ Sound(e, v)
BY DEF Does, Grows, Outgrows, Alive, Sound

\* A call that leaves alone what was written and read.
LEMMA Called ==
  ASSUME Inv, ConnectFirst, NEW p \in Peers, Alive(tcb[p]), NEW e, Does(tcb[p], e, MyView(p)), Phase(e),
         e.state = "LISTEN" => tcb[p].state = "LISTEN", tcb[p].state = "CLOSED" => e.state = "CLOSED",
         Becomes(p, e), UNCHANGED <<written, read, faults>>
  PROVE  Inv'
<1> DEFINE q == Other(p)
<1>1. q \in Peers /\ q # p
  BY TwoPeers
<1>2. TypeOK
  BY DEF Inv
<1>3. /\ tcb[p] \in Tcbs /\ written[p] \in Nat /\ read[p] \in Seq(Int) /\ Idle(tcb[p], written[p])
      /\ ConnectAhead(tcb[p], tcb[q], net[p])
  BY Facts
<1>4. Outgrows(tcb[p], e) /\ Alive(e) /\ tcb[p].rcv_nxt <= e.rcv_nxt /\ e \in Tcbs
  BY DoesOutgrow
<1>5. Sound(e, ViewOf(tcb[q], written[p], written[q], read[p]))
  BY DEF Does, MyView
<1>6. e.state = "LISTEN" => written[p] = 0
  BY <1>3 DEF Idle
<1>7. ConnectAhead(e, tcb[q], net[p])
  BY <1>3, <1>4, AheadKept
<1>8. tcb' = [tcb EXCEPT ![p] = Settled(e)]
  BY DEF Becomes, Settled
<1>9. PICK S \in Sent(q, e.out) : net' = [net EXCEPT ![q] = S]
  BY DEF Becomes
<1>10. net' = [net EXCEPT ![q] = S, ![p] = net[p]]
  BY <1>1, <1>2, <1>9 DEF TypeOK
<1>11. written' = [written EXCEPT ![p] = written[p]] /\ read' = [read EXCEPT ![p] = read[p]] /\ faults' \in 0 .. MaxFaults
  BY <1>2 DEF TypeOK
<1>12. written[p] <= written[p] /\ net[p] \in SUBSET net[p]
  BY <1>3
<1> QED
  BY <1>3, <1>4, <1>5, <1>6, <1>7, <1>8, <1>10, <1>11, <1>12, Moved

LEMMA RoomsAre ==
  ASSUME NEW p \in Peers, NEW room \in Rooms(p)
  PROVE  room \in Nat
<1>1. SndBufLen + 2 \in Nat /\ 0 \in Nat
  BY Constants
<1> QED
  BY <1>1 DEF Rooms

\* The call starts with the room the socket has.
LEMMA Started ==
  ASSUME Inv, NEW p \in Peers, NEW room \in Rooms(p)
  PROVE  LET b == WithRoom(tcb[p], room) IN
         /\ b = [tcb[p] EXCEPT !.room = room]
         /\ Does(tcb[p], b, MyView(p)) /\ Sound(b, MyView(p)) /\ b \in Tcbs /\ b.state = tcb[p].state
         /\ b.rcv_nxt = tcb[p].rcv_nxt /\ b.rbuf = tcb[p].rbuf /\ b.sbuf = tcb[p].sbuf
<1> DEFINE b == WithRoom(tcb[p], room)
<1>1. room \in Nat /\ Sound(tcb[p], MyView(p))
  BY RoomsAre, Facts
<1>2. Does(tcb[p], b, MyView(p)) /\ b.state = tcb[p].state /\ b.rcv_nxt = tcb[p].rcv_nxt
        /\ b.rbuf = tcb[p].rbuf /\ b.sbuf = tcb[p].sbuf
  BY <1>1, Rooming
<1>3. b = [tcb[p] EXCEPT !.room = room]
  BY DEF WithRoom
<1> QED
  BY <1>2, <1>3 DEF Does, Sound

LEMMA ConnectStep ==
  ASSUME Inv, ConnectFirst, NEW p \in Peers, Connect(p)
  PROVE  Inv'
<1> DEFINE c == tcb[p]
           v == MyView(p)
<1>1. PICK room \in Rooms(p) :
        Becomes(p, attemptSend(queueConnectMessage([c EXCEPT !.state = "SYN_SENT", !.room = room]), "None", FALSE))
  BY DEF Connect
<1> DEFINE b == WithRoom(c, room)
           d == queueConnectMessage([b EXCEPT !.state = "SYN_SENT"])
           e == attemptSend(d, "None", FALSE)
<1>2. c.state = "LISTEN" /\ UNCHANGED <<written, read, faults>>
  BY DEF Connect
<1>3. View(v) /\ Sound(c, v) /\ v.w = written[p] /\ Idle(c, written[p]) /\ c \in Tcbs
  BY Facts
<1>4. Does(c, b, v) /\ Sound(b, v) /\ b.state = c.state /\ b.rcv_nxt = c.rcv_nxt
  BY Started
<1>5. Becomes(p, e)
  <2>1. [c EXCEPT !.state = "SYN_SENT", !.room = room] = [b EXCEPT !.state = "SYN_SENT"]
    BY <1>3 DEF WithRoom, Tcbs
  <2> QED
    BY <1>1, <2>1
<1> HIDE DEF b, v, c
<1>6. "SYN_SENT" \in Opened /\ "None" \in Flags /\ v.w = 0 /\ c.rcv_nxt = 0
  BY <1>2, <1>3 DEF Opened, Flags, Idle, Phase
<1>7. Does(b, d, v) /\ d.state = "SYN_SENT" /\ d.rcv_nxt = b.rcv_nxt
  BY <1>2, <1>3, <1>4, <1>6, Connecting
<1> HIDE DEF d
<1>8. Does(d, e, v) /\ e.state = d.state /\ e.rcv_nxt = d.rcv_nxt
  <2>1. Sound(d, v) /\ FALSE \in BOOLEAN
    BY <1>7 DEF Does
  <2> QED
    BY <1>3, <1>6, <2>1, Attempting
<1> HIDE DEF e
<1>9. Does(c, e, v)
  <2>1. Does(c, d, v)
    BY <1>3, <1>4, <1>7, DoesTrans
  <2> QED
    BY <1>3, <1>8, <2>1, DoesTrans
<1>10. e.state = "SYN_SENT" /\ Phase(e) /\ Alive(c)
  BY <1>2, <1>4, <1>6, <1>7, <1>8 DEF Phase, Alive
<1> QED
  BY <1>2, <1>5, <1>9, <1>10, Called DEF c, v

LEMMA ClockStep ==
  ASSUME Inv, ConnectFirst, NEW p \in Peers, NEW expired, NEW gone, NotifyClock(p, expired, gone)
  PROVE  Inv'
<1> DEFINE c == tcb[p]
           v == MyView(p)
<1>1. PICK room \in Rooms(p) :
        Becomes(p, AfterDelay(AfterProbe(AfterRto([c EXCEPT !.room = room], expired), expired, gone), expired))
  BY DEF NotifyClock
<1> DEFINE b == WithRoom(c, room)
           e == AfterDelay(AfterProbe(AfterRto(b, expired), expired, gone), expired)
<1>2. c.state \notin {"CLOSED", "DESTROYED"} /\ UNCHANGED <<written, read, faults>>
  BY DEF NotifyClock
<1>3. View(v) /\ Sound(c, v) /\ Idle(c, written[p])
  BY Facts
<1>4. Does(c, b, v) /\ Sound(b, v) /\ b.state = c.state /\ b.rcv_nxt = c.rcv_nxt /\ b = [c EXCEPT !.room = room]
  BY Started
<1> HIDE DEF b, v
<1>5. Becomes(p, e)
  BY <1>1, <1>4
<1>6. Ticks(b, e, v)
  BY <1>3, <1>4, Ticking
<1> HIDE DEF e, c
<1>7. Does(c, e, v) /\ e.rcv_nxt = c.rcv_nxt /\ (e.state = c.state \/ e.state = "CLOSED")
  BY <1>3, <1>4, <1>6, DoesTrans DEF Ticks
<1>8. Phase(e) /\ Alive(c)
  BY <1>2, <1>3, <1>7 DEF Phase, Alive, Idle
<1>9. (e.state = "LISTEN" => c.state = "LISTEN") /\ (c.state = "CLOSED" => e.state = "CLOSED")
  BY <1>2, <1>7
<1> QED
  BY <1>2, <1>5, <1>7, <1>8, <1>9, Called DEF c, v

LEMMA SendStep ==
  ASSUME Inv, ConnectFirst, NEW p \in Peers, NEW n \in Sizes, NEW idle \in BOOLEAN, Send(p, n, idle)
  PROVE  Inv'
<1> DEFINE q == Other(p)
           c == tcb[p]
           v == MyView(p)
           g == GetWriteRemaining(c.sbuf)
           len == Min({n, ToSend[p] - written[p], g})
<1>1. c.state = "ESTABLISHED" /\ written[p] < ToSend[p] /\ UNCHANGED <<read, faults>>
        /\ written' = [written EXCEPT ![p] = @ + len]
  BY DEF Send
<1>2. PICK room \in Rooms(p) :
        Becomes(p, IF g = 0 THEN [c EXCEPT !.bWriteEnable = TRUE]
                   ELSE attemptSend(queue([c EXCEPT !.room = room], [i \in 1 .. len |-> written[p] + i], FALSE), "None", idle))
  BY DEF Send
<1>3. /\ View(v) /\ Sound(c, v) /\ v.w = written[p] /\ v.rd = read[p] /\ v.W = written[q] /\ Idle(c, written[p])
      /\ c \in Tcbs /\ written[p] \in Nat /\ read[p] \in Seq(Int)
      /\ ConnectAhead(c, tcb[q], net[p])
  BY Facts
<1>4. n \in Nat /\ n > 0 /\ ToSend[p] \in Nat
  BY PseudoTcpAssumption
<1>5. c.sbuf \in Fifos(SndBufLen) /\ Len(c.sbuf.data) \in Nat /\ SndBufLen \in Nat /\ Len(c.sbuf.data) <= SndBufLen
  BY <1>3, TcbTypes, SegmentTypes, Constants DEF Sound, Sender, RightSent
<1>6. g = SndBufLen - Len(c.sbuf.data) /\ g \in Nat
  <2>1. g = SndBufLen - Len(c.sbuf.data)
    BY <1>5, CapacityIs
  <2> QED
    BY <1>5, <2>1
<1>7. /\ len \in Nat /\ len <= g /\ (g = 0 => len = 0) /\ (g # 0 => len > 0)
  <2> DEFINE r == ToSend[p] - written[p]
  <2>1. n \in Int /\ r \in Int /\ g \in Int /\ r > 0
    BY <1>1, <1>3, <1>4, <1>6
  <2> HIDE DEF g, r
  <2>2. Min({n, r, g}) \in {n, r, g} /\ Min({n, r, g}) <= n /\ Min({n, r, g}) <= r /\ Min({n, r, g}) <= g
    BY <2>1, MinThree
  <2>3. len = Min({n, r, g})
    BY DEF r
  <2> HIDE DEF len
  <2> QED
    BY <1>4, <1>6, <2>1, <2>2, <2>3
<1>8. Alive(c)
  BY <1>1 DEF Alive
<1>9. TypeOK
  BY DEF Inv
<1> HIDE DEF g, len
<1>10. CASE g = 0
  <2> DEFINE e == [c EXCEPT !.bWriteEnable = TRUE]
  <2>1. Becomes(p, e)
    BY <1>2, <1>10
  <2>2. e \in Tcbs /\ SameSender(c, e) /\ e.slist = c.slist /\ SameReceiver(c, e) /\ e.out = c.out /\ e.state = c.state
          /\ e.rcv_nxt = c.rcv_nxt
    BY <1>3 DEF Tcbs, SameSender, SameReceiver
  <2> HIDE DEF e, c, v
  <2>3. SameCore(c, e)
    BY <2>2 DEF SameCore
  <2>4. Does(c, e, v)
    BY <1>3, <2>2, <2>3, DoesCore
  <2>5. Phase(e)
    BY <1>3, <2>2 DEF Idle, Phase
  <2>6. written' = written
    BY <1>1, <1>3, <1>7, <1>9, <1>10 DEF TypeOK
  <2> QED
    BY <1>1, <1>8, <2>1, <2>2, <2>4, <2>5, <2>6, Called DEF c, v
<1>11. CASE g # 0
  <2> DEFINE b == WithRoom(c, room)
             e == attemptSend(queue(b, [i \in 1 .. len |-> v.w + i], FALSE), "None", idle)
             w == written[p] + len
             u == ViewOf(tcb[q], w, written[q], read[p])
  <2>1. Does(c, b, v) /\ Sound(b, v) /\ b.state = c.state /\ b.rcv_nxt = c.rcv_nxt /\ b.sbuf = c.sbuf /\ b \in Tcbs
          /\ b = [c EXCEPT !.room = room]
    BY Started
  <2> HIDE DEF b
  <2>2. Becomes(p, e)
    BY <1>2, <1>3, <1>11, <2>1
  <2>3. Writes(v, u, len)
    BY <1>3 DEF Writes, ViewOf, MyView
  <2>4. Len(b.sbuf.data) + len <= SndBufLen /\ len > 0
    BY <1>5, <1>6, <1>7, <1>11, <2>1
  <2> HIDE DEF v, u
  <2>5. Does(b, e, u) /\ e.state = b.state /\ e.rcv_nxt = b.rcv_nxt
    <3>1. View(v) /\ Sound(b, v) /\ b.state = "ESTABLISHED" /\ len \in Nat
      BY <1>1, <1>3, <1>7, <2>1
    <3> QED
      BY <2>3, <2>4, <3>1, Sending
  <2> HIDE DEF e
  <2>6. e \in Tcbs /\ Sound(e, u) /\ Grows(c, b) /\ Grows(b, e)
    BY <2>1, <2>5 DEF Does, Sound
  <2>7. Grows(c, e)
    BY <1>3, <2>1, <2>6, GrowsTrans
  <2>8. Does(c, e, u)
    BY <2>6, <2>7 DEF Does
  <2>9. Outgrows(c, e) /\ Alive(e) /\ c.rcv_nxt <= e.rcv_nxt
    BY <1>8, <2>8, DoesOutgrow
  <2>10. e.state = "ESTABLISHED" /\ Phase(e)
    BY <1>1, <1>3, <2>1, <2>5 DEF Phase, Idle
  <2>11. ConnectAhead(e, tcb[q], net[p])
    BY <1>1, <1>3, <1>8, <2>6, <2>9, AheadKept
  <2>12. tcb' = [tcb EXCEPT ![p] = Settled(e)]
    BY <2>2 DEF Becomes, Settled
  <2>13. PICK S \in Sent(q, e.out) : net' = [net EXCEPT ![q] = S]
    BY <2>2 DEF Becomes
  <2>14. net' = [net EXCEPT ![q] = S, ![p] = net[p]]
    BY <1>9, <2>13, TwoPeers DEF TypeOK
  <2>15. written' = [written EXCEPT ![p] = w] /\ read' = [read EXCEPT ![p] = read[p]] /\ faults' \in 0 .. MaxFaults
    BY <1>1, <1>9 DEF TypeOK
  <2>16. w \in Nat /\ written[p] <= w /\ net[p] \in SUBSET net[p]
    BY <1>3, <1>7
  <2>17. Sound(e, ViewOf(tcb[q], w, written[q], read[p]))
    BY <2>6 DEF u
  <2> HIDE DEF w
  <2> QED
    BY <1>3, <1>8, <2>9, <2>10, <2>11, <2>12, <2>14, <2>15, <2>16, <2>17, Moved DEF c, q
<1> QED
  BY <1>10, <1>11

LEMMA RecvStep ==
  ASSUME Inv, ConnectFirst, NEW p \in Peers, NEW n \in Sizes, NEW idle \in BOOLEAN, Recv(p, n, idle)
  PROVE  Inv'
<1> DEFINE q == Other(p)
           c == tcb[p]
           v == MyView(p)
<1>1. c.state = "ESTABLISHED" /\ UNCHANGED <<written, faults>>
  BY DEF Recv
<1>2. /\ View(v) /\ Sound(c, v) /\ v.w = written[p] /\ v.rd = read[p] /\ v.W = written[q] /\ Idle(c, written[p])
      /\ c \in Tcbs /\ written[p] \in Nat /\ read[p] \in Seq(Int) /\ ConnectAhead(c, tcb[q], net[p])
  BY Facts
<1>3. n \in Nat /\ TypeOK /\ Alive(c)
  BY <1>1, PseudoTcpAssumption DEF Inv, Alive
<1>4. c.rcv_nxt # 0
  BY <1>1, <1>2 DEF Idle, Phase
<1>5. CASE Becomes(p, [c EXCEPT !.bReadEnable = TRUE]) /\ UNCHANGED read
  <2> DEFINE e == [c EXCEPT !.bReadEnable = TRUE]
  <2>1. Does(c, e, v) /\ e.state = c.state /\ e.rcv_nxt = c.rcv_nxt
    BY <1>2, Reading
  <2>2. Becomes(p, e)
    BY <1>5
  <2> HIDE DEF e, c, v
  <2>3. Phase(e)
    BY <1>2, <2>1 DEF Idle, Phase
  <2> QED
    BY <1>1, <1>3, <1>5, <2>1, <2>2, <2>3, Called DEF c, v
<1>6. ASSUME NEW room \in Rooms(p), Becomes(p, RecvBytes([c EXCEPT !.room = room], n, idle)),
             read' = [read EXCEPT ![p] = @ \o ReadOffset(c.rbuf, n, 0)]
      PROVE  Inv'
  <2> DEFINE b == WithRoom(c, room)
             e == RecvBytes(b, n, idle)
             r == ReadOffset(c.rbuf, n, 0)
             rd == read[p] \o r
             u == ViewOf(tcb[q], written[p], written[q], rd)
  <2>1. Does(c, b, v) /\ Sound(b, v) /\ b.state = c.state /\ b.rcv_nxt = c.rcv_nxt /\ b.rbuf = c.rbuf /\ b \in Tcbs
          /\ b = [c EXCEPT !.room = room]
    BY Started
  <2> HIDE DEF b
  <2>2. Becomes(p, e)
    BY <1>6, <2>1
  <2>3. Reads(v, u, ReadOffset(b.rbuf, n, 0))
    <3>1. u.rd = read[p] \o r /\ u.w = written[p] /\ u.W = written[q]
      BY DEF ViewOf
    <3>2. u.cuts = v.cuts /\ u.acked = v.acked /\ u.edge = v.edge
      BY DEF ViewOf, MyView
    <3> QED
      BY <1>2, <2>1, <3>1, <3>2 DEF Reads
  <2>4. rd \in Seq(Int)
    <3>1. \E m \in 0 .. Len(b.rbuf.data) : Hands(b, m, ReadOffset(b.rbuf, n, 0), v, u)
      BY <1>3, <2>1, <2>3, Handing
    <3>2. r \in Seq(Int)
      BY <2>1, <3>1 DEF Hands
    <3> HIDE DEF r
    <3> QED
      BY <1>2, <3>2
  <2> HIDE DEF r, u, v
  <2>5. Does(b, e, u) /\ e.state = b.state /\ e.rcv_nxt = b.rcv_nxt
    <3>1. View(v) /\ Sound(b, v) /\ b.state # "DESTROYED" /\ b.rcv_nxt # 0 /\ n \in Nat
      BY <1>1, <1>2, <1>3, <1>4, <2>1
    <3> QED
      BY <2>3, <3>1, Receiving
  <2> HIDE DEF e
  <2>6. e \in Tcbs /\ Sound(e, u) /\ Grows(c, b) /\ Grows(b, e)
    BY <2>1, <2>5 DEF Does, Sound
  <2>7. Grows(c, e)
    BY <1>2, <2>1, <2>6, GrowsTrans
  <2>8. Does(c, e, u)
    BY <2>6, <2>7 DEF Does
  <2>9. Outgrows(c, e) /\ Alive(e) /\ c.rcv_nxt <= e.rcv_nxt
    BY <1>3, <2>8, DoesOutgrow
  <2>10. e.state = "ESTABLISHED" /\ Phase(e)
    BY <1>1, <1>4, <2>1, <2>5 DEF Phase
  <2>11. ConnectAhead(e, tcb[q], net[p])
    BY <1>1, <1>2, <1>3, <2>6, <2>9, AheadKept
  <2>12. tcb' = [tcb EXCEPT ![p] = Settled(e)]
    BY <2>2 DEF Becomes, Settled
  <2>13. PICK S \in Sent(q, e.out) : net' = [net EXCEPT ![q] = S]
    BY <2>2 DEF Becomes
  <2>14. net' = [net EXCEPT ![q] = S, ![p] = net[p]]
    BY <1>3, <2>13, TwoPeers DEF TypeOK
  <2>15. read' = [read EXCEPT ![p] = rd]
    BY <1>3, <1>6 DEF TypeOK, r
  <2> HIDE DEF rd
  <2>16. written' = [written EXCEPT ![p] = written[p]] /\ faults' \in 0 .. MaxFaults
    BY <1>1, <1>3 DEF TypeOK
  <2>17. written[p] <= written[p] /\ net[p] \in SUBSET net[p]
    BY <1>2
  <2>18. Sound(e, ViewOf(tcb[q], written[p], written[q], rd))
    BY <2>6 DEF u
  <2> QED
    BY <1>2, <1>3, <2>4, <2>9, <2>10, <2>11, <2>12, <2>14, <2>15, <2>16, <2>17, <2>18, Moved DEF c, q
<1> QED
  BY <1>5, <1>6 DEF Recv

LEMMA PacketStep ==
  ASSUME Inv, ConnectFirst, NEW p \in Peers, NEW k \in net[p], NEW copy \in BOOLEAN, NEW idle \in BOOLEAN,
         NotifyPacket(p, k, copy, idle)
  PROVE  Inv'
<1> DEFINE q == Other(p)
           c == tcb[p]
           v == MyView(p)
           n2 == IF copy THEN net[p] ELSE net[p] \ {k}
<1>1. /\ Alive(c) /\ (~k.ctl => \A j \in net[p] : ~j.ctl) /\ faults' = (IF copy THEN faults + 1 ELSE faults)
      /\ faults' <= MaxFaults /\ UNCHANGED <<written, read>>
  BY DEF NotifyPacket, Alive
<1>2. PICK room \in Rooms(p) : \E d \in {process([tcb[p] EXCEPT !.room = room], k, idle)} :
        /\ tcb' = [tcb EXCEPT ![p] = [d EXCEPT !.out = {}, !.room = 0]]
        /\ \E S \in Sent(Other(p), d.out) :
             net' = [net EXCEPT ![Other(p)] = S, ![p] = IF copy THEN @ ELSE @ \ {k}]
  BY Zenon DEF NotifyPacket
<1> DEFINE b == WithRoom(c, room)
           e == process(b, k, idle)
<1>3. /\ View(v) /\ Sound(c, v) /\ v.w = written[p] /\ v.W = written[q] /\ Idle(c, written[p])
      /\ c \in Tcbs /\ tcb[q] \in Tcbs /\ written[p] \in Nat /\ read[p] \in Seq(Int) /\ ConnectAhead(c, tcb[q], net[p])
      /\ OnTheWay(c, tcb[q], net[p], written[q])
  BY Facts
<1>4. Does(c, b, v) /\ Sound(b, v) /\ b.state = c.state /\ b.rcv_nxt = c.rcv_nxt /\ b \in Tcbs
        /\ b = [c EXCEPT !.room = room]
  BY Started
<1> HIDE DEF b
<1>5. tcb' = [tcb EXCEPT ![p] = Settled(e)]
  BY <1>2, <1>4 DEF Settled
<1>6. PICK S \in Sent(q, e.out) : net' = [net EXCEPT ![q] = S, ![p] = IF copy THEN @ ELSE @ \ {k}]
  BY <1>2, <1>4
<1>7. TypeOK
  BY DEF Inv
<1>8. net' = [net EXCEPT ![q] = S, ![p] = n2]
  BY <1>6, <1>7, TwoPeers DEF TypeOK
<1>9. Arrives(c, k, v)
  <2>1. k \in Packets /\ RightPacket(k) /\ Written(k, written[q]) /\ ForReceiver(c, k)
          /\ (Alive(tcb[q]) => FromSender(tcb[q], k))
    BY <1>1, <1>3 DEF OnTheWay
  <2>2. k.ack \in Nat /\ k.wnd \in Nat /\ After(k) \in Int /\ k.seq \in Int /\ Len(k.data) \in Nat /\ ConnectLen \in Nat
    BY <2>1, PacketTypes, Constants
  <2>3. k.data # << >> => After(k) \in Nat
    BY <2>1, <2>2 DEF RightPacket, After
  <2>4. /\ \A x \in Nat : x \in v.cuts <=> (Alive(tcb[q]) => Cut(tcb[q], x))
        /\ \A x \in Nat : x \in v.acked <=> (Alive(tcb[q]) => x <= tcb[q].rcv_nxt)
        /\ \A x \in Nat : x \in v.edge <=> (Alive(tcb[q]) => x <= Edge(tcb[q]))
    BY DEF MyView, ViewOf
  <2> HIDE DEF v, c
  <2>5. k.ack \in v.acked
    BY <2>1, <2>2, <2>4 DEF FromSender
  <2>6. k.ack + k.wnd \in v.edge
    <3>1. k.ack + k.wnd \in Nat
      BY <2>2
    <3> QED
      BY <2>1, <2>4, <3>1 DEF FromSender
  <2>7. k.data # << >> => After(k) \in v.cuts
    BY <2>1, <2>3, <2>4 DEF FromSender
  <2>8. Cut(c, k.ack) /\ (k.data # << >> => After(k) <= Edge(c) /\ After(k) <= ConnectLen + v.W)
    BY <1>3, <2>1 DEF ForReceiver, Written
  <2> QED
    BY <2>1, <2>5, <2>6, <2>7, <2>8 DEF Arrives
<1>10. c.rcv_nxt = 0 /\ c.state # "CLOSED" /\ k.data # << >> => k.ctl
  <2> SUFFICES ASSUME c.rcv_nxt = 0, c.state # "CLOSED", k.data # << >> PROVE k.ctl
    OBVIOUS
  <2>1. \E j \in net[p] : j.ctl
    BY <1>1, <1>3 DEF ConnectAhead, Alive
  <2> QED
    BY <1>1, <2>1
<1> HIDE DEF v, c
<1>11. /\ Does(b, e, v) /\ Phase(e) /\ (e.state = "LISTEN" => b.state = "LISTEN")
       /\ b.state = "CLOSED" => e.state = "CLOSED"
       /\ k.ctl => e.rcv_nxt # 0 \/ e.state = "CLOSED"
  <2>1. Arrives(b, k, v)
    BY <1>3, <1>4, <1>9, ArrivesGrows DEF Does
  <2>2. b.state # "DESTROYED" /\ Phase(b) /\ (b.state = "LISTEN" => v.w = 0)
          /\ (b.rcv_nxt = 0 /\ b.state # "CLOSED" /\ k.data # << >> => k.ctl)
    BY <1>1, <1>3, <1>4, <1>10 DEF Alive, Idle, Phase
  <2>3. View(v) /\ Sound(b, v)
    BY <1>3, <1>4
  <2> QED
    BY <2>1, <2>2, <2>3, Processing
<1> HIDE DEF e
<1>12. Does(c, e, v)
  BY <1>3, <1>4, <1>11, DoesTrans
<1>13. Outgrows(c, e) /\ Alive(e) /\ c.rcv_nxt <= e.rcv_nxt /\ e \in Tcbs /\ Sound(e, v)
  BY <1>1, <1>12, DoesOutgrow
<1>14. ConnectAhead(e, tcb[q], n2)
  <2>1. ConnectAhead(e, tcb[q], net[p])
    BY <1>1, <1>3, <1>4, <1>11, <1>13, AheadKept
  <2>2. CASE k.ctl
    BY <1>11, <2>2 DEF ConnectAhead
  <2>3. CASE ~k.ctl
    <3>1. n2 \subseteq net[p] /\ \A j \in net[p] : j.ctl => j \in n2
      BY <2>3
    <3> HIDE DEF n2
    <3> QED
      BY <2>1, <3>1 DEF ConnectAhead
  <2> QED
    BY <2>2, <2>3
<1>15. e.state = "LISTEN" => written[p] = 0
  BY <1>3, <1>4, <1>11 DEF Idle
<1>16. written' = [written EXCEPT ![p] = written[p]] /\ read' = [read EXCEPT ![p] = read[p]]
  BY <1>1, <1>7 DEF TypeOK
<1>17. faults' \in 0 .. MaxFaults
  BY <1>1, <1>7, PseudoTcpAssumption DEF TypeOK
<1>18. written[p] <= written[p] /\ n2 \in SUBSET net[p]
  BY <1>3
<1>19. Sound(e, ViewOf(tcb[q], written[p], written[q], read[p]))
  BY <1>13 DEF v, MyView
<1> HIDE DEF n2
<1> QED
  BY <1>1, <1>3, <1>5, <1>8, <1>11, <1>13, <1>14, <1>15, <1>16, <1>17, <1>18, <1>19, Moved DEF c, q

NewWith(s, h) == [NewTcb EXCEPT !.state = s, !.shutdown = h]

\* A connection that was constructed, in state s.
IsNew(e, s, h) ==
  /\ e \in Tcbs /\ e.state = s /\ e.shutdown = h /\ e.out = {} /\ e.room = 0
  /\ e.slist = << >> /\ e.sbuf.data = << >> /\ e.snd_una = 0 /\ e.snd_nxt = 0 /\ e.snd_wnd = 1
  /\ e.rlist = << >> /\ e.rbuf.data = << >> /\ e.rcv_nxt = 0 /\ e.rcv_wnd = RcvBufLen
  /\ e.recover = 0 /\ e.rto = FALSE /\ e.cwnd >= ConnectLen

LEMMA NewTcbIs ==
  ASSUME NEW s \in {"LISTEN", "DESTROYED"}, NEW h \in {"NONE", "GRACEFUL", "FORCEFUL"},
         NEW e, e = NewWith(s, h)
  PROVE  IsNew(e, s, h)
<1> DEFINE l == Len(MssLevels)
           w == Min({2 * Last(MssLevels), MaxCwnd})
           sb == EmptyFifo(SndBufLen)
           rb == EmptyFifo(RcvBufLen)
<1>1. \A m \in Nat : EmptyFifo(m) \in Fifos(m) /\ EmptyFifo(m).data = << >>
  BY DEF EmptyFifo, Fifos, Junk
<1>2. sb \in Fifos(SndBufLen) /\ rb \in Fifos(RcvBufLen) /\ sb.data = << >> /\ rb.data = << >>
  BY <1>1, Constants
<1>3. l \in 1 .. l /\ Last(MssLevels) \in Nat /\ Last(MssLevels) > 0 /\ Last(MssLevels) >= ConnectLen
  BY Levels DEF Last
<1>4. w \in Nat \ {0} /\ w >= ConnectLen
  <2> DEFINE a == 2 * Last(MssLevels)
  <2>1. a \in Int /\ MaxCwnd \in Int /\ a > 0 /\ a >= ConnectLen
    BY <1>3, Constants
  <2> HIDE DEF a
  <2>2. Min({a, MaxCwnd}) = IF a <= MaxCwnd THEN a ELSE MaxCwnd
    BY <2>1, MinTwo
  <2> QED
    BY <2>1, <2>2, Constants DEF a
<1>5. RcvBufLen \in Nat \ {0}
  BY PseudoTcpAssumption
<1>6. e = [NewTcb EXCEPT !.state = s, !.shutdown = h]
  BY DEF NewWith
<1>7. NewTcb = [state |-> "LISTEN", shutdown |-> "NONE",
           sbuf |-> sb, slist |-> << >>, snd_una |-> 0, snd_nxt |-> 0, snd_wnd |-> 1,
           rbuf |-> rb, rlist |-> << >>, rcv_nxt |-> 0, rcv_wnd |-> RcvBufLen,
           level |-> l, cwnd |-> w, ssthresh |-> RcvBufLen, dup_acks |-> 0, recover |-> 0,
           rto |-> FALSE, t_ack |-> FALSE, bReadEnable |-> TRUE, bWriteEnable |-> FALSE, out |-> {}, room |-> 0]
  BY DEF NewTcb
<1> HIDE DEF l, w, sb, rb
<1>8. e = [state |-> s, shutdown |-> h,
           sbuf |-> sb, slist |-> << >>, snd_una |-> 0, snd_nxt |-> 0, snd_wnd |-> 1,
           rbuf |-> rb, rlist |-> << >>, rcv_nxt |-> 0, rcv_wnd |-> RcvBufLen,
           level |-> l, cwnd |-> w, ssthresh |-> RcvBufLen, dup_acks |-> 0, recover |-> 0,
           rto |-> FALSE, t_ack |-> FALSE, bReadEnable |-> TRUE, bWriteEnable |-> FALSE, out |-> {}, room |-> 0]
  BY ONLY <1>6, <1>7
<1>9. e \in Tcbs
  <2>1. s \in States /\ << >> \in Seq(SSegments) /\ << >> \in Seq(RSegments) /\ {} \in SUBSET Packets
        /\ 0 \in Nat /\ 1 \in Nat /\ RcvBufLen \in Nat /\ 0 \in 0 .. 4 /\ TRUE \in BOOLEAN /\ FALSE \in BOOLEAN
    BY <1>5 DEF States
  <2>2. l \in 1 .. Len(MssLevels)
    BY <1>3 DEF l
  <2> QED
    BY <1>2, <1>4, <1>5, <1>8, <2>1, <2>2 DEF Tcbs
<1>10. /\ e.state = s /\ e.shutdown = h /\ e.out = {} /\ e.room = 0
      /\ e.slist = << >> /\ e.sbuf = sb /\ e.snd_una = 0 /\ e.snd_nxt = 0 /\ e.snd_wnd = 1
      /\ e.rlist = << >> /\ e.rbuf = rb /\ e.rcv_nxt = 0 /\ e.rcv_wnd = RcvBufLen
      /\ e.recover = 0 /\ e.rto = FALSE /\ e.cwnd = w
  BY <1>8
<1> QED
  BY <1>2, <1>4, <1>9, <1>10 DEF IsNew

LEMMA NewSound ==
  ASSUME NEW s \in {"LISTEN", "DESTROYED"}, NEW h \in {"NONE", "GRACEFUL", "FORCEFUL"},
         NEW v, View(v), 0 \in v.cuts, 0 \in v.acked, \A i \in 1 .. Len(v.rd) : v.rd[i] = i, Len(v.rd) <= v.W,
         s = "LISTEN" => Len(v.rd) = 0
  PROVE  Sound(NewWith(s, h), v) /\ Window(NewWith(s, h))
<1> DEFINE e == NewWith(s, h)
<1>0. e = NewWith(s, h)
  OBVIOUS
<1> HIDE DEF e
<1>1. /\ e \in Tcbs /\ e.state = s /\ e.shutdown = h /\ e.out = {}
      /\ e.slist = << >> /\ e.sbuf.data = << >> /\ e.snd_una = 0 /\ e.snd_nxt = 0 /\ e.snd_wnd = 1
      /\ e.rlist = << >> /\ e.rbuf.data = << >> /\ e.rcv_nxt = 0 /\ e.rcv_wnd = RcvBufLen
      /\ e.recover = 0 /\ e.rto = FALSE /\ e.cwnd >= ConnectLen
  <2>1. IsNew(e, s, h)
    BY <1>0, NewTcbIs
  <2> QED
    BY <2>1 DEF IsNew
<1>2. /\ Len(e.slist) = 0 /\ Len(e.sbuf.data) = 0 /\ Len(e.rlist) = 0 /\ Len(e.rbuf.data) = 0 /\ 1 .. 0 = {}
      /\ v.W \in Nat /\ v.rd \in Seq(Int) /\ Len(v.rd) \in Nat
  BY <1>1 DEF View
<1>3. End(e) = 0 /\ Start(e, 1) = 0
  BY <1>1, <1>2 DEF End, Start
<1>4. Tiled(e) /\ SentFirst(e)
  BY <1>1, <1>2, <1>3 DEF Tiled, SentFirst
<1>5. ConnectWhole(e) /\ RightSent(e)
  BY <1>1, <1>2, Constants DEF ConnectWhole, RightSent
<1>6. Sender(e) /\ Queued(e, v.w)
  BY <1>1, <1>3, <1>4, <1>5 DEF Sender, Queued
<1>7. RightReceived(e, v.rd)
  <2>2. Taken(e) = 0
    BY <1>1 DEF Taken
  <2>3. e.state # "DESTROYED" => Len(v.rd) + Len(e.rbuf.data) = 0
    BY <1>1, <1>2
  <2> QED
    BY <1>2, <2>2, <2>3 DEF RightReceived
<1>8. RightAhead(e) /\ Bounded(e, v.rd, v.W)
  BY <1>1, <1>2, Constants DEF RightAhead, Bounded
<1>9. Window(e)
  BY <1>1, <1>2, Constants DEF Window
<1>10. Joined(e, v)
  <2>1. 0 + 1 \in v.edge /\ 0 \in v.edge
    <3>1. ConnectLen \in Nat /\ 0 <= ConnectLen /\ 1 <= ConnectLen /\ 0 + 1 = 1
      BY Constants
    <3>2. ConnectLen \in v.edge /\ \A x \in v.edge : \A y \in Nat : y <= x => y \in v.edge
      BY DEF View
    <3> QED
      BY <3>1, <3>2
  <2> QED
    BY <1>1, <1>2, <2>1 DEF Joined
<1>11. RightOut(e, v)
  BY <1>1 DEF RightOut
<1> QED
  BY <1>1, <1>6, <1>7, <1>8, <1>9, <1>10, <1>11 DEF Sound, Receiver, e

LEMMA CloseStep ==
  ASSUME Inv, NEW p \in Peers, NEW shutdown \in {"GRACEFUL", "FORCEFUL"}, Close(p, shutdown)
  PROVE  Inv'
<1> DEFINE q == Other(p)
           c == tcb[p]
           v == MyView(p)
           e == [c EXCEPT !.shutdown = shutdown]
<1>1. /\ View(v) /\ Sound(c, v) /\ Idle(c, written[p]) /\ c \in Tcbs /\ written[p] \in Nat /\ read[p] \in Seq(Int)
      /\ ConnectAhead(c, tcb[q], net[p])
  BY Facts
<1>2. /\ c.state # "DESTROYED" /\ tcb' = [tcb EXCEPT ![p].shutdown = shutdown]
      /\ UNCHANGED <<net, written, read, faults>>
  BY DEF Close
<1>3. TypeOK
  BY DEF Inv
<1>4. /\ e \in Tcbs /\ SameSender(c, e) /\ e.slist = c.slist /\ e.state = c.state /\ e.shutdown = shutdown
      /\ e.out = c.out /\ e.room = c.room /\ e.rbuf = c.rbuf /\ e.rlist = c.rlist /\ e.rcv_nxt = c.rcv_nxt
      /\ e.rcv_wnd = c.rcv_wnd /\ e.sbuf = c.sbuf /\ e.snd_una = c.snd_una /\ e.snd_nxt = c.snd_nxt
      /\ e.snd_wnd = c.snd_wnd
  BY <1>1 DEF Tcbs, SameSender
<1>5. tcb' = [tcb EXCEPT ![p] = Settled(e)]
  <2>1. c.out = {} /\ c.room = 0
    BY <1>1 DEF Idle
  <2>2. Settled(e) = e
    BY <1>1, <2>1 DEF Settled, Tcbs
  <2> QED
    BY <1>2, <2>2
<1> HIDE DEF e, v, c
<1>6. Edge(e) = Edge(c) /\ Taken(e) = Taken(c)
  BY <1>4 DEF Edge, Taken
<1>7. Sender(e) /\ KeepsCuts(c, e)
  BY <1>1, <1>4, SameSenderKeeps DEF Sound
<1>8. Receiver(e, v.rd, v.W)
  <2>1. RightReceived(c, v.rd) /\ Window(c) /\ Bounded(c, v.rd, v.W)
    BY <1>1 DEF Sound, Receiver
  <2>2. RightReceived(e, v.rd)
    BY <1>4, <1>6, <2>1 DEF RightReceived
  <2>3. RightAhead(e)
    BY <1>4 DEF RightAhead
  <2>4. Window(e) /\ Bounded(e, v.rd, v.W)
    BY <1>4, <1>6, <2>1 DEF Window, Bounded
  <2> QED
    BY <2>2, <2>3, <2>4 DEF Receiver
<1>9. Queued(e, v.w) /\ Joined(e, v)
  BY <1>1, <1>4 DEF Sound, Queued, End, Joined
<1>10. RightOut(e, v) /\ e.out = {}
  BY <1>1, <1>4 DEF RightOut, Idle
<1>11. Sound(e, v)
  BY <1>4, <1>7, <1>8, <1>9, <1>10 DEF Sound
<1>12. Outgrows(c, e)
  <2>1. c.rcv_nxt <= e.rcv_nxt /\ Edge(c) <= Edge(e) /\ c.snd_nxt <= e.snd_nxt /\ (c.snd_nxt = 0 => ~(e.snd_nxt > 0))
    BY <1>1, <1>4, <1>6, GrowsTypes
  <2> QED
    BY <1>7, <2>1 DEF Outgrows
<1>13. Alive(c) /\ Alive(e) /\ Phase(e) /\ (e.state = "LISTEN" => written[p] = 0)
  BY <1>1, <1>2, <1>4 DEF Alive, Phase, Idle, c
<1>14. ConnectAhead(e, tcb[q], net[p])
  BY <1>1, <1>4 DEF ConnectAhead
<1>15. Sound(e, ViewOf(tcb[q], written[p], written[q], read[p]))
  BY <1>11 DEF v, MyView
<1>16. /\ net' = [net EXCEPT ![q] = net[q], ![p] = net[p]] /\ written' = [written EXCEPT ![p] = written[p]]
       /\ read' = [read EXCEPT ![p] = read[p]] /\ faults' \in 0 .. MaxFaults
  BY <1>2, <1>3 DEF TypeOK
<1>17. written[p] <= written[p] /\ net[p] \in SUBSET net[p] /\ net[q] \subseteq net[q] /\ net[q] \subseteq net[q] \cup e.out
         /\ \A k \in e.out : k.ctl => k \in net[q]
  BY <1>1, <1>10
<1> QED
  BY <1>1, <1>5, <1>12, <1>13, <1>14, <1>15, <1>16, <1>17, MovedTo DEF c, q

LEMMA BothSides ==
  ASSUME TypeOK', NEW p \in Peers,
         Side(tcb'[p], tcb'[Other(p)], net'[p], written'[p], written'[Other(p)], read'[p]),
         Side(tcb'[Other(p)], tcb'[p], net'[Other(p)], written'[Other(p)], written'[p], read'[Other(p)])
  PROVE  Inv'
<1> DEFINE q == Other(p)
<1>1. Other(q) = p /\ \A x \in Peers : x = p \/ x = q
  BY TwoPeers
<1>2. ASSUME NEW x \in Peers
      PROVE  Side(tcb'[x], tcb'[Other(x)], net'[x], written'[x], written'[Other(x)], read'[x])
  <2>1. CASE x = p
    BY <2>1
  <2>2. CASE x = q
    BY <1>1, <2>2
  <2> QED
    BY <1>1, <2>1, <2>2
<1> QED
  BY <1>2 DEF Inv

LEMMA DestroyStep ==
  ASSUME Inv, NEW p \in Peers, Destroy(p)
  PROVE  Inv'
<1> DEFINE q == Other(p)
           c == tcb[p]
           d == tcb[q]
           h == c.shutdown
           e == NewWith("DESTROYED", h)
           v == MyView(p)
           v1 == ViewOf(c, written[q], written[p], read[q])
           v2 == ViewOf(e, written[q], written[p], read[q])
<1>1. q \in Peers /\ q # p
  BY TwoPeers
<1>2. /\ c \in Tcbs /\ d \in Tcbs /\ Window(c) /\ Window(d) /\ written[p] \in Nat /\ written[q] \in Nat
      /\ read[p] \in Seq(Int) /\ read[q] \in Seq(Int) /\ View(v) /\ Sound(c, v)
      /\ Side(d, c, net[q], written[q], written[p], read[q])
  BY Facts
<1>3. v.W = written[q] /\ v.rd = read[p]
  BY Facts
<1>4. TypeOK
  BY DEF Inv
<1>5. c.state # "DESTROYED" /\ h \in {"GRACEFUL", "FORCEFUL"}
  BY DEF Destroy, MayDestroy
<1>6. tcb' = [tcb EXCEPT ![p] = e] /\ net' = [net EXCEPT ![p] = {}] /\ UNCHANGED <<written, read, faults>>
  BY DEF Destroy, NewWith
<1>7. /\ e \in Tcbs /\ e.state = "DESTROYED" /\ e.shutdown = h /\ e.out = {} /\ e.room = 0
  <2>1. h \in {"NONE", "GRACEFUL", "FORCEFUL"} /\ "DESTROYED" \in {"LISTEN", "DESTROYED"}
    BY <1>5
  <2>2. e = NewWith("DESTROYED", h)
    OBVIOUS
  <2> HIDE DEF e
  <2>3. IsNew(e, "DESTROYED", h)
    BY <2>1, <2>2, NewTcbIs
  <2> QED
    BY <2>3 DEF IsNew
<1> HIDE DEF q, c, d, h, e, v, v1, v2
<1>8. 0 \in v.cuts /\ 0 \in v.acked
  <2>1. /\ \A x \in Nat : x \in v.cuts <=> (Alive(d) => Cut(d, x))
        /\ \A x \in Nat : x \in v.acked <=> (Alive(d) => x <= d.rcv_nxt)
    BY <1>2, ViewOfIs DEF v, MyView, d, q
  <2>2. d.snd_una \in Nat /\ d.snd_nxt \in Nat /\ d.rcv_nxt \in Nat
    BY <1>2, TcbTypes
  <2>3. Cut(d, 0)
    BY <2>2 DEF Cut
  <2> QED
    BY <2>1, <2>2, <2>3
<1>9. Sound(e, v) /\ Window(e)
  <2>1. (\A i \in 1 .. Len(v.rd) : v.rd[i] = i) /\ Len(v.rd) <= v.W
    BY <1>2 DEF Sound, Receiver, RightReceived, Bounded
  <2>2. h \in {"NONE", "GRACEFUL", "FORCEFUL"}
    BY <1>5
  <2> QED
    BY <1>2, <1>8, <2>1, <2>2, NewSound DEF e
<1>10. Side(e, d, {}, written[p], written[q], read[p])
  <2>1. Sound(e, ViewOf(d, written[p], written[q], read[p]))
    BY <1>9 DEF v, MyView, d, q
  <2>2. Idle(e, written[p])
    BY <1>5, <1>7 DEF Idle, Phase
  <2>3. OnTheWay(e, d, {}, written[q]) /\ ConnectAhead(e, d, {})
    BY <1>7 DEF OnTheWay, ConnectAhead
  <2> QED
    BY <2>1, <2>2, <2>3 DEF Side
<1>11. Side(d, e, net[q], written[q], written[p], read[q])
  <2>1. ~Alive(e)
    BY <1>7 DEF Alive
  <2>2. Sound(d, v1) /\ Idle(d, written[q]) /\ OnTheWay(d, c, net[q], written[p]) /\ ConnectAhead(d, c, net[q])
    BY <1>2 DEF Side, v1
  <2>3. /\ View(v1) /\ v1.w = written[q] /\ v1.W = written[p] /\ v1.rd = read[q]
        /\ v1.cuts \subseteq Nat /\ v1.acked \subseteq Nat /\ v1.edge \subseteq Nat
    BY <1>2, ViewOfIs DEF v1
  <2>4. /\ View(v2) /\ v2.w = written[q] /\ v2.W = written[p] /\ v2.rd = read[q]
        /\ \A x \in Nat : x \in v2.cuts <=> (Alive(e) => Cut(e, x))
        /\ \A x \in Nat : x \in v2.acked <=> (Alive(e) => x <= e.rcv_nxt)
        /\ \A x \in Nat : x \in v2.edge <=> (Alive(e) => x <= Edge(e))
    <3>1. e \in Tcbs /\ Window(e) /\ written[p] \in Nat /\ written[q] \in Nat /\ read[q] \in Seq(Int)
      BY <1>2, <1>7, <1>9
    <3> QED
      BY <3>1, ViewOfIs DEF v2
  <2>5. v1.cuts \subseteq v2.cuts /\ v1.acked \subseteq v2.acked /\ v1.edge \subseteq v2.edge
    BY <2>1, <2>3, <2>4
  <2>6. v1.W <= v2.W
    BY <1>2, <2>3, <2>4
  <2>7. Sound(d, v2)
    BY <2>2, <2>3, <2>4, <2>5, <2>6, SoundWith
  <2>8. OnTheWay(d, e, net[q], written[p])
    BY <2>1, <2>2 DEF OnTheWay
  <2>9. ConnectAhead(d, e, net[q])
    BY <2>1, <2>2 DEF ConnectAhead
  <2> QED
    BY <2>2, <2>7, <2>8, <2>9 DEF Side, v2
<1>12. /\ tcb'[p] = e /\ tcb'[q] = d /\ net'[p] = {} /\ net'[q] = net[q]
       /\ written' = written /\ read' = read /\ tcb' \in [Peers -> Tcbs] /\ net' \in [Peers -> SUBSET Packets]
       /\ faults' = faults
  <2>1. tcb'[p] = e /\ tcb'[q] = d
    BY <1>1, <1>4, <1>6 DEF TypeOK, d
  <2>2. net'[p] = {} /\ net'[q] = net[q]
    BY <1>1, <1>4, <1>6 DEF TypeOK
  <2>3. tcb' \in [Peers -> Tcbs]
    BY <1>4, <1>6, <1>7 DEF TypeOK
  <2>4. net' \in [Peers -> SUBSET Packets]
    BY <1>4, <1>6 DEF TypeOK
  <2> QED
    BY <1>6, <2>1, <2>2, <2>3, <2>4
<1>13. TypeOK'
  BY <1>4, <1>12 DEF TypeOK
<1> QED
  BY <1>10, <1>11, <1>12, <1>13, BothSides DEF q

LEMMA LoseStep ==
  ASSUME Inv, ConnectFirst, NEW p \in Peers, NEW k, Lose(p, k)
  PROVE  Inv'
<1> DEFINE q == Other(p)
           n == net[p] \ {k}
<1>1. q \in Peers /\ q # p
  BY TwoPeers
<1>2. TypeOK
  BY DEF Inv
<1>3. /\ ~k.ctl /\ faults < MaxFaults /\ net' = [net EXCEPT ![p] = n] /\ faults' = faults + 1
      /\ UNCHANGED <<tcb, written, read>>
  BY DEF Lose
<1>4. /\ Side(tcb[p], tcb[q], net[p], written[p], written[q], read[p])
      /\ Side(tcb[q], tcb[p], net[q], written[q], written[p], read[q])
  BY Facts DEF Inv
<1> HIDE DEF q
<1>5. Side(tcb[p], tcb[q], n, written[p], written[q], read[p])
  <2>1. OnTheWay(tcb[p], tcb[q], n, written[q])
    BY <1>4 DEF Side, OnTheWay
  <2>2. ConnectAhead(tcb[p], tcb[q], n)
    BY <1>3, <1>4 DEF Side, ConnectAhead
  <2> QED
    BY <1>4, <2>1, <2>2 DEF Side
<1>6. net'[p] = n /\ net'[q] = net[q] /\ net' \in [Peers -> SUBSET Packets]
  BY <1>1, <1>2, <1>3 DEF TypeOK
<1>7. faults' \in 0 .. MaxFaults
  BY <1>2, <1>3, PseudoTcpAssumption DEF TypeOK
<1>8. TypeOK'
  BY <1>2, <1>3, <1>6, <1>7 DEF TypeOK
<1> QED
  BY <1>3, <1>4, <1>5, <1>6, <1>8, BothSides DEF q

LEMMA InitInv ==
  ASSUME Init
  PROVE  Inv
<1> DEFINE e == NewWith("LISTEN", "NONE")
           v == ViewOf(e, 0, 0, << >>)
           u == [w |-> 0, rd |-> << >>, W |-> 0, cuts |-> Nat, acked |-> Nat, edge |-> Nat]
<1>1. e = NewTcb
  <2> DEFINE l == Len(MssLevels)
             w == Min({2 * Last(MssLevels), MaxCwnd})
             sb == EmptyFifo(SndBufLen)
             rb == EmptyFifo(RcvBufLen)
  <2>1. e = [NewTcb EXCEPT !.state = "LISTEN", !.shutdown = "NONE"]
    BY DEF NewWith
  <2>2. NewTcb = [state |-> "LISTEN", shutdown |-> "NONE",
             sbuf |-> sb, slist |-> << >>, snd_una |-> 0, snd_nxt |-> 0, snd_wnd |-> 1,
             rbuf |-> rb, rlist |-> << >>, rcv_nxt |-> 0, rcv_wnd |-> RcvBufLen,
             level |-> l, cwnd |-> w, ssthresh |-> RcvBufLen, dup_acks |-> 0, recover |-> 0,
             rto |-> FALSE, t_ack |-> FALSE, bReadEnable |-> TRUE, bWriteEnable |-> FALSE, out |-> {}, room |-> 0]
    BY DEF NewTcb
  <2> HIDE DEF l, w, sb, rb, e
  <2>3. e = [state |-> "LISTEN", shutdown |-> "NONE",
             sbuf |-> sb, slist |-> << >>, snd_una |-> 0, snd_nxt |-> 0, snd_wnd |-> 1,
             rbuf |-> rb, rlist |-> << >>, rcv_nxt |-> 0, rcv_wnd |-> RcvBufLen,
             level |-> l, cwnd |-> w, ssthresh |-> RcvBufLen, dup_acks |-> 0, recover |-> 0,
             rto |-> FALSE, t_ack |-> FALSE, bReadEnable |-> TRUE, bWriteEnable |-> FALSE, out |-> {}, room |-> 0]
    BY <2>1, <2>2
  <2> QED
    BY <2>2, <2>3
<1>2. "LISTEN" \in {"LISTEN", "DESTROYED"} /\ "NONE" \in {"NONE", "GRACEFUL", "FORCEFUL"}
  OBVIOUS
<1>3. /\ e \in Tcbs /\ e.state = "LISTEN" /\ e.shutdown = "NONE" /\ e.out = {} /\ e.room = 0
      /\ e.snd_una = 0 /\ e.snd_nxt = 0 /\ e.rcv_nxt = 0
  <2>1. e = NewWith("LISTEN", "NONE")
    OBVIOUS
  <2> HIDE DEF e
  <2>2. IsNew(e, "LISTEN", "NONE")
    BY <1>2, <2>1, NewTcbIs
  <2> QED
    BY <2>2 DEF IsNew
<1>4. Len(<< >>) = 0 /\ << >> \in Seq(Int) /\ 1 .. 0 = {} /\ 0 \in Nat
  OBVIOUS
<1> HIDE DEF e, v
<1>5. Window(e)
  <2>1. View(u)
    BY Constants DEF View
  <2>2. u.rd = << >> /\ u.W = 0 /\ 0 \in u.cuts /\ 0 \in u.acked
    OBVIOUS
  <2> HIDE DEF u
  <2>3. (\A i \in 1 .. Len(u.rd) : u.rd[i] = i) /\ Len(u.rd) <= u.W /\ Len(u.rd) = 0
    BY <1>4, <2>2
  <2> QED
    BY <1>2, <2>1, <2>2, <2>3, NewSound DEF e
<1>6. Sound(e, v)
  <2>1. /\ View(v) /\ v.W = 0 /\ v.rd = << >>
        /\ \A x \in Nat : x \in v.cuts <=> (Alive(e) => Cut(e, x))
        /\ \A x \in Nat : x \in v.acked <=> (Alive(e) => x <= e.rcv_nxt)
    <3> DEFINE rd == << >>
    <3>1. e \in Tcbs /\ Window(e) /\ 0 \in Nat /\ rd \in Seq(Int)
      BY <1>3, <1>4, <1>5
    <3>2. v = ViewOf(e, 0, 0, rd)
      BY DEF v
    <3> HIDE DEF rd
    <3>3. /\ View(v) /\ v.W = 0 /\ v.rd = rd
          /\ \A x \in Nat : x \in v.cuts <=> (Alive(e) => Cut(e, x))
          /\ \A x \in Nat : x \in v.acked <=> (Alive(e) => x <= e.rcv_nxt)
      BY ONLY <3>1, <3>2, ViewOfIs
    <3> QED
      BY <3>3 DEF rd
  <2>2. Cut(e, 0) /\ 0 <= e.rcv_nxt
    BY <1>3 DEF Cut
  <2>3. 0 \in v.cuts /\ 0 \in v.acked
    BY <1>4, <2>1, <2>2
  <2>4. (\A i \in 1 .. Len(v.rd) : v.rd[i] = i) /\ Len(v.rd) <= v.W /\ Len(v.rd) = 0
    BY <1>4, <2>1
  <2> QED
    BY <1>2, <2>1, <2>3, <2>4, NewSound DEF e
<1>7. Side(e, e, {}, 0, 0, << >>)
  <2>1. Idle(e, 0)
    BY <1>3 DEF Idle, Phase
  <2>2. OnTheWay(e, e, {}, 0) /\ ConnectAhead(e, e, {})
    BY <1>3 DEF OnTheWay, ConnectAhead
  <2> QED
    BY <1>6, <2>1, <2>2 DEF Side, v
<1>8. TypeOK
  BY <1>1, <1>3, <1>4, PseudoTcpAssumption DEF Init, TypeOK
<1>9. ASSUME NEW p \in Peers PROVE Side(tcb[p], tcb[Other(p)], net[p], written[p], written[Other(p)], read[p])
  <2>1. Other(p) \in Peers
    BY TwoPeers
  <2> QED
    BY <1>1, <1>7, <2>1 DEF Init
<1> QED
  BY <1>8, <1>9 DEF Inv

LEMMA NextInv ==
  ASSUME Inv, ConnectFirst, [Next]_vars
  PROVE  Inv'
<1>1. CASE UNCHANGED vars
  BY <1>1 DEF vars, Inv, TypeOK
<1>2. CASE Next
  <2>1. PICK p \in Peers :
          \/ Connect(p) \/ Destroy(p)
          \/ \E shutdown \in {"GRACEFUL", "FORCEFUL"} : Close(p, shutdown)
          \/ \E n \in Sizes, idle \in BOOLEAN : Send(p, n, idle) \/ Recv(p, n, idle)
          \/ \E expired \in SUBSET {"rto", "probe", "ack"}, gone \in BOOLEAN : NotifyClock(p, expired, gone)
          \/ \E k \in net[p], copy, idle \in BOOLEAN : NotifyPacket(p, k, copy, idle)
          \/ \E k \in net[p] : Lose(p, k)
    BY <1>2, Zenon DEF Next
  <2>2. CASE Connect(p)
    BY <2>2, ConnectStep
  <2>3. CASE Destroy(p)
    BY <2>3, DestroyStep
  <2>4. CASE \E shutdown \in {"GRACEFUL", "FORCEFUL"} : Close(p, shutdown)
    BY <2>4, CloseStep
  <2>5. CASE \E n \in Sizes, idle \in BOOLEAN : Send(p, n, idle)
    BY <2>5, SendStep
  <2>6. CASE \E n \in Sizes, idle \in BOOLEAN : Recv(p, n, idle)
    BY <2>6, RecvStep
  <2>7. CASE \E expired \in SUBSET {"rto", "probe", "ack"}, gone \in BOOLEAN : NotifyClock(p, expired, gone)
    BY <2>7, ClockStep
  <2>8. CASE \E k \in net[p], copy, idle \in BOOLEAN : NotifyPacket(p, k, copy, idle)
    BY <2>8, PacketStep
  <2>9. CASE \E k \in net[p] : Lose(p, k)
    BY <2>9, LoseStep
  <2> QED
    BY <2>1, <2>2, <2>3, <2>4, <2>5, <2>6, <2>7, <2>8, <2>9
<1> QED
  BY <1>1, <1>2

-----------------------------------------------------------------------------
(* Theorems *)

\* The invariant holds in every reachable state: no call of an application, packet,
\* timer, loss or duplication leaves it.  This theorem and those that follow have the
\* hypothesis ConnectFirst: connect messages are neither lost nor overtaken.
THEOREM Invariance ==
  ASSUME ConnectFirst
  PROVE  Spec => []Inv
BY InitInv, NextInv, PTL DEF Spec

\* Every field of a connection and of a packet keeps its type; in particular no segment
\* of the send list becomes empty, and no window negative.
THEOREM TypeCorrect ==
  ASSUME ConnectFirst
  PROVE  Spec => []TypeOK
<1>1. Inv => TypeOK
  BY DEF Inv
<1> QED
  BY <1>1, Invariance, PTL

\* What SegmentsTile says of one connection.
LEMMA Tiling ==
  ASSUME NEW c \in Tcbs, Sender(c)
  PROVE  LET start[i \in 1 .. Len(c.slist) + 1] ==
               IF i = 1 THEN c.snd_una ELSE start[i - 1] + c.slist[i - 1].len
         IN /\ \A i \in 1 .. Len(c.slist) :
                 /\ c.slist[i].seq = start[i]
                 /\ c.slist[i].xmit > 0 <=> start[i + 1] <= c.snd_nxt
            /\ start[Len(c.slist) + 1] = c.snd_una + GetBuffered(c.sbuf)
            /\ c.rto <=> c.snd_nxt > c.snd_una
<1> DEFINE s == c.slist
           m == Len(c.slist)
           u == c.snd_una
           G(f) == [i \in 1 .. m + 1 |-> IF i = 1 THEN u ELSE f[i - 1] + s[i - 1].len]
           start == CHOOSE f : f = G(f)
<1>1. /\ m \in Nat /\ u \in Nat /\ c.snd_nxt \in Nat
      /\ \A j \in 1 .. m : s[j].len \in Nat /\ s[j].len > 0 /\ s[j].seq \in Nat /\ s[j].xmit \in Nat
      /\ \A j \in 1 .. m + 1 : Start(c, j) \in Nat
  BY SegmentTypes, TcbTypes
<1>2. Start(c, 1) = u /\ \A j \in 1 .. m : Start(c, j) = s[j].seq /\ Start(c, j + 1) = Start(c, j) + s[j].len
  BY <1>1 DEF Sender, Tiled, Start
<1>3. SentFirst(c)
  BY DEF Sender
<1>4. Start(c, m + 1) = u + GetBuffered(c.sbuf)
  BY <1>1 DEF Start, End, GetBuffered
<1> HIDE DEF s, m, u
<1>5. \E f : f = G(f)
  <2> DEFINE g == [i \in 1 .. m + 1 |-> Start(c, i)]
  <2>1. ASSUME NEW i \in 1 .. m + 1 PROVE g[i] = IF i = 1 THEN u ELSE g[i - 1] + s[i - 1].len
    <3>1. CASE i = 1
      BY <1>1, <1>2, <3>1
    <3>2. CASE i # 1
      <4> DEFINE j == i - 1
      <4>1. j \in 1 .. m /\ j \in 1 .. m + 1 /\ j + 1 = i
        BY <1>1, <3>2
      <4> HIDE DEF j
      <4>2. g[i] = Start(c, i) /\ g[j] = Start(c, j)
        BY <4>1
      <4>3. Start(c, i) = Start(c, j) + s[j].len
        BY <1>2, <4>1
      <4> HIDE DEF g
      <4> QED
        BY <3>2, <4>2, <4>3 DEF j
    <3> QED
      BY <3>1, <3>2
  <2>2. g = G(g)
    BY <2>1
  <2> QED
    BY <2>2
<1>6. start = G(start)
  <2> HIDE DEF G
  <2> QED
    BY <1>5
<1> HIDE DEF start
<1>7. start[1] = u /\ \A j \in 1 .. m : start[j + 1] = start[j] + s[j].len
  <2>1. 1 \in 1 .. m + 1 /\ \A j \in 1 .. m : j + 1 \in 1 .. m + 1 /\ j + 1 # 1 /\ (j + 1) - 1 = j
    BY <1>1
  <2>2. \A i \in 1 .. m + 1 : G(start)[i] = IF i = 1 THEN u ELSE start[i - 1] + s[i - 1].len
    OBVIOUS
  <2> HIDE DEF G
  <2> QED
    BY <1>6, <2>1, <2>2
<1>8. \A j \in 1 .. m + 1 : start[j] = Start(c, j)
  <2> DEFINE F == {j \in 0 .. m : start[j + 1] = Start(c, j + 1)}
  <2>1. 0 \in F
    BY <1>1, <1>2, <1>7
  <2>2. ASSUME NEW j \in 0 .. m - 1, j \in F PROVE j + 1 \in F
    <3> DEFINE h == j + 1
    <3>1. h \in 1 .. m /\ h \in 0 .. m
      BY <1>1
    <3>2. start[h] = Start(c, h)
      BY <2>2
    <3> HIDE DEF h
    <3>3. start[h + 1] = start[h] + s[h].len /\ Start(c, h + 1) = Start(c, h) + s[h].len
      BY <1>2, <1>7, <3>1
    <3> QED
      BY <3>1, <3>2, <3>3 DEF h
  <2>3. 0 .. m \subseteq F
    <3> HIDE DEF F
    <3> QED
      BY <1>1, <2>1, <2>2, UpTo
  <2> QED
    <3> SUFFICES ASSUME NEW j \in 1 .. m + 1 PROVE start[j] = Start(c, j)
      OBVIOUS
    <3>1. j - 1 \in 0 .. m /\ (j - 1) + 1 = j
      BY <1>1
    <3> QED
      BY <2>3, <3>1
<1>9. ASSUME NEW i \in 1 .. m
      PROVE  s[i].seq = start[i] /\ (s[i].xmit > 0 <=> start[i + 1] <= c.snd_nxt)
  <2>1. i \in 1 .. m + 1 /\ i + 1 \in 1 .. m + 1
    BY <1>1
  <2>2. start[i] = s[i].seq /\ start[i + 1] = s[i].seq + s[i].len
    BY <1>2, <1>8, <2>1
  <2>3. IF s[i].xmit > 0 THEN s[i].seq + s[i].len <= c.snd_nxt ELSE s[i].seq >= c.snd_nxt
    BY <1>3 DEF SentFirst, s, m
  <2> QED
    BY <1>1, <2>2, <2>3
<1>10. start[m + 1] = u + GetBuffered(c.sbuf)
  <2>1. m + 1 \in 1 .. m + 1
    BY <1>1
  <2> QED
    BY <1>4, <1>8, <2>1
<1>11. c.rto <=> c.snd_nxt > u
  BY <1>3 DEF SentFirst, u
<1> QED
  BY <1>9, <1>10, <1>11 DEF start, s, m, u

\* The send list is the send buffer cut into segments, those that were sent first, and
\* the retransmission timer runs exactly while something is unacknowledged: whatever
\* splits, path limits, acknowledgements in part and retransmissions happen, queue,
\* transmit and process keep what attemptSend and NotifyClock assert.
THEOREM SendListIsBuffer ==
  ASSUME ConnectFirst
  PROVE  Spec => []SegmentsTile
<1>1. Inv => SegmentsTile
  <2> SUFFICES ASSUME Inv PROVE SegmentsTile
    OBVIOUS
  <2>1. \A p \in Peers : tcb[p] \in Tcbs /\ Sender(tcb[p])
    BY Facts DEF Sound
  <2> QED
    BY <2>1, Tiling DEF SegmentsTile
<1> QED
  BY <1>1, Invariance, PTL

\* No peer sends past the space that the other one's receive buffer has: the window
\* that a packet announced stays free however late, often or out of order it arrives.
THEOREM NothingIsCutOff ==
  ASSUME ConnectFirst
  PROVE  Spec => []WindowKept
<1>1. Inv => WindowKept
  <2> SUFFICES ASSUME Inv, NEW p \in Peers, {tcb[p].state, tcb[Other(p)].state} = {"ESTABLISHED"}
               PROVE  /\ tcb[p].rcv_wnd \in 0 .. GetWriteRemaining(tcb[p].rbuf)
                      /\ tcb[Other(p)].snd_nxt <= tcb[p].rcv_nxt + GetWriteRemaining(tcb[p].rbuf)
    BY DEF WindowKept
  <2> DEFINE q == Other(p)
             c == tcb[p]
             d == tcb[q]
             v == MyView(q)
             g == GetWriteRemaining(c.rbuf)
             n == Len(c.rbuf.data)
  <2>1. q \in Peers /\ Other(q) = p
    BY TwoPeers
  <2>2. c \in Tcbs /\ d \in Tcbs /\ Window(c) /\ Alive(c)
    BY Facts DEF Alive
  <2>3. c.rcv_nxt \in Nat /\ c.rcv_wnd \in Nat /\ d.snd_nxt \in Nat /\ n \in Nat /\ RcvBufLen \in Nat
    BY <2>2, TcbTypes, Constants DEF Fifos
  <2>4. g = RcvBufLen - n
    BY <2>2, <2>3, TcbTypes, CapacityIs
  <2>5. n + c.rcv_wnd <= RcvBufLen
    BY <2>2 DEF Window
  <2>6. d.snd_nxt <= Edge(c)
    <3>1. Sound(d, v) /\ written[p] \in Nat /\ written[q] \in Nat /\ read[q] \in Seq(Int)
      BY <2>1, Facts
    <3>2. d.snd_nxt \in v.edge
      BY <3>1 DEF Sound, Joined
    <3>3. v = ViewOf(c, written[q], written[p], read[q])
      BY <2>1 DEF MyView
    <3> HIDE DEF v, c, q, d
    <3>4. \A x \in Nat : x \in v.edge <=> (Alive(c) => x <= Edge(c))
      BY <2>2, <3>1, <3>3, ViewOfIs
    <3> QED
      BY <2>2, <2>3, <3>2, <3>4
  <2> HIDE DEF c, q, d, g, n
  <2>7. c.rcv_wnd \in 0 .. g /\ d.snd_nxt <= c.rcv_nxt + g
    BY <2>3, <2>4, <2>5, <2>6 DEF Edge
  <2> QED
    BY <2>7 DEF c, q, d, g
<1> QED
  BY <1>1, Invariance, PTL

\* The bytes an application reads are those the other one wrote: no loss, copy or late
\* packet changes them, and nothing that was never written is read.
THEOREM ReadsAreRight ==
  ASSUME ConnectFirst
  PROVE  Spec => []RightBytes
<1>1. Inv => RightBytes
  <2> SUFFICES ASSUME Inv, NEW p \in Peers PROVE \A i \in 1 .. Len(read[p]) : read[p][i] = i
    BY DEF RightBytes
  <2>1. Sound(tcb[p], MyView(p)) /\ MyView(p).rd = read[p]
    BY Facts
  <2> QED
    BY <2>1 DEF Sound, Receiver, RightReceived
<1> QED
  BY <1>1, Invariance, PTL

\* A peer that closes gracefully has handed over all its bytes when GetNextClock lets it
\* be destroyed: an empty send buffer means that the other side acknowledged them, and it
\* acknowledges only what can be read there.
THEOREM GracefulCloseDelivers ==
  ASSUME ConnectFirst
  PROVE  Spec => GracefulDelivers
<1>1. ASSUME Inv, NEW p \in Peers, Destroy(p), tcb[p].state = "ESTABLISHED", tcb[p].shutdown = "GRACEFUL",
             tcb[Other(p)].shutdown = "NONE"
      PROVE  Len(read[Other(p)]) + GetBuffered(tcb[Other(p)].rbuf) = written[p]
  <2> DEFINE q == Other(p)
             c == tcb[p]
             d == tcb[q]
             w == written[p]
             v == MyView(p)
             u == MyView(q)
  <2>1. q \in Peers /\ Other(q) = p
    BY TwoPeers
  <2>2. c \in Tcbs /\ d \in Tcbs /\ Window(d) /\ w \in Nat /\ written[q] \in Nat /\ read[p] \in Seq(Int)
        /\ Sound(c, v) /\ v.w = w
    BY <1>1, Facts
  <2>3. Sound(d, u) /\ u.rd = read[q] /\ u.W = w /\ Idle(d, written[q])
    BY <1>1, <2>1, Facts
  <2>4. c.state = "ESTABLISHED" /\ c.shutdown = "GRACEFUL" /\ d.shutdown = "NONE" /\ Len(c.sbuf.data) = 0
    BY <1>1 DEF Destroy, MayDestroy, GetBuffered
  <2>5. v = ViewOf(d, w, written[q], read[p])
    BY DEF MyView
  <2> HIDE DEF c, d, w, v, u, q
  <2>6. d.state # "DESTROYED"
    BY <2>3, <2>4 DEF Idle
  <2>7. c.snd_una \in Nat /\ d.rcv_nxt \in Nat /\ ConnectLen \in Nat /\ ConnectLen > 0
    BY <2>2, TcbTypes, Constants
  <2>8. c.snd_una = ConnectLen + w
    <3>1. End(c) = ConnectLen + w
      BY <2>2, <2>4 DEF Sound, Queued
    <3> QED
      BY <2>4, <2>7, <3>1 DEF End
  <2>9. c.snd_una <= d.rcv_nxt
    <3>1. c.snd_una \in v.acked
      BY <2>2 DEF Sound, Joined
    <3>2. \A x \in Nat : x \in v.acked <=> (Alive(d) => x <= d.rcv_nxt)
      BY <2>2, <2>5, ViewOfIs
    <3> QED
      BY <2>6, <2>7, <3>1, <3>2 DEF Alive
  <2>10. d.rcv_nxt <= ConnectLen + w /\ Len(read[q]) + Len(d.rbuf.data) = Taken(d)
    BY <2>3, <2>4, <2>6 DEF Sound, Receiver, Bounded, RightReceived
  <2>11. Taken(d) = w
    BY <2>2, <2>7, <2>8, <2>9, <2>10 DEF Taken
  <2> QED
    BY <2>10, <2>11 DEF GetBuffered, q, d, w
<1>2. Inv => \A p \in Peers :
               Destroy(p) /\ tcb[p].state = "ESTABLISHED" /\ tcb[p].shutdown = "GRACEFUL"
                 => \/ tcb[Other(p)].shutdown # "NONE"
                    \/ Len(read[Other(p)]) + GetBuffered(tcb[Other(p)].rbuf) = written[p]
  BY <1>1
<1> QED
  BY <1>2, Invariance, PTL DEF Spec, GracefulDelivers

-----------------------------------------------------------------------------
(* The refinement of BytePipe *)

\* The first n bytes of a stream.
Numbers(n) == [i \in 1 .. n |-> i]

LEMMA NumbersIs ==
  ASSUME NEW n \in Nat
  PROVE  /\ Numbers(n) \in Seq(Int) /\ Len(Numbers(n)) = n /\ \A i \in 1 .. n : Numbers(n)[i] = i
         /\ \A m \in 0 .. n : SubSeq(Numbers(n), 1, m) = Numbers(m)
<1>1. Numbers(n) \in Seq(Int) /\ Len(Numbers(n)) = n /\ \A i \in 1 .. n : Numbers(n)[i] = i
  BY DEF Numbers
<1>2. ASSUME NEW m \in 0 .. n PROVE SubSeq(Numbers(n), 1, m) = Numbers(m)
  <2> DEFINE s == Numbers(n)
             t == SubSeq(s, 1, m)
  <2>1. s \in Seq(Int) /\ Len(s) = n /\ \A i \in 1 .. n : s[i] = i
    BY <1>1
  <2> HIDE DEF s
  <2>2. 1 \in 1 .. Len(s) + 1 /\ m \in 1 - 1 .. Len(s) /\ m - 1 + 1 = m /\ \A j \in 1 .. m : 1 + j - 1 = j /\ j \in 1 .. n
    BY <2>1
  <2>3. t \in Seq(Int) /\ Len(t) = m /\ \A j \in 1 .. m : t[j] = s[j]
    BY <2>1, <2>2, SubSeqIs
  <2> HIDE DEF t
  <2>4. \A j \in 1 .. m : t[j] = j
    BY <2>1, <2>2, <2>3
  <2>5. t = [j \in 1 .. m |-> j]
    BY <2>3, <2>4
  <2> QED
    BY <2>5 DEF Numbers, s, t
<1> QED
  BY <1>1, <1>2

LEMMA ReadIs ==
  ASSUME NEW c, NEW d \in Tcbs, Window(d), NEW n, NEW w \in Nat, NEW W \in Nat, NEW rd \in Seq(Int),
         Side(c, d, n, w, W, rd)
  PROVE  rd = Numbers(Len(rd)) /\ Len(rd) \in Nat /\ Len(rd) <= W
<1> DEFINE v == ViewOf(d, w, W, rd)
<1>1. Sound(c, v) /\ v.rd = rd /\ v.W = W
  BY ViewOfIs DEF Side
<1> HIDE DEF v
<1>2. (\A i \in 1 .. Len(rd) : rd[i] = i) /\ Len(rd) <= W
  BY <1>1 DEF Sound, Receiver, RightReceived, Bounded
<1>3. rd = [i \in 1 .. Len(rd) |-> i]
  BY <1>2
<1> QED
  BY <1>2, <1>3 DEF Numbers

\* A step writes at one side, or reads at one side.
LEMMA Transfers ==
  ASSUME Inv, [Next]_vars
  PROVE  \/ UNCHANGED <<written, read>>
         \/ \E p \in Peers : \E len \in Nat : written' = [written EXCEPT ![p] = @ + len] /\ read' = read
         \/ \E p \in Peers : \E s \in Seq(Int) : read' = [read EXCEPT ![p] = @ \o s] /\ written' = written
<1>1. CASE UNCHANGED vars
  BY <1>1 DEF vars
<1>2. CASE Next
  <2>1. PICK p \in Peers :
          \/ Connect(p) \/ Destroy(p)
          \/ \E shutdown \in {"GRACEFUL", "FORCEFUL"} : Close(p, shutdown)
          \/ \E n \in Sizes, idle \in BOOLEAN : Send(p, n, idle) \/ Recv(p, n, idle)
          \/ \E expired \in SUBSET {"rto", "probe", "ack"}, gone \in BOOLEAN : NotifyClock(p, expired, gone)
          \/ \E k \in net[p], copy, idle \in BOOLEAN : NotifyPacket(p, k, copy, idle)
          \/ \E k \in net[p] : Lose(p, k)
    BY <1>2, Zenon DEF Next
  <2>2. CASE Connect(p)
    BY <2>2 DEF Connect
  <2>3. CASE Destroy(p)
    BY <2>3 DEF Destroy
  <2>4. CASE \E shutdown \in {"GRACEFUL", "FORCEFUL"} : Close(p, shutdown)
    BY <2>4 DEF Close
  <2>5. ASSUME NEW n \in Sizes, NEW idle \in BOOLEAN, Send(p, n, idle)
        PROVE  \E len \in Nat : written' = [written EXCEPT ![p] = @ + len] /\ read' = read
    <3> DEFINE c == tcb[p]
               g == GetWriteRemaining(c.sbuf)
               r == ToSend[p] - written[p]
               len == Min({n, r, g})
    <3>1. written' = [written EXCEPT ![p] = @ + len] /\ read' = read /\ written[p] < ToSend[p]
      BY <2>5 DEF Send
    <3>2. c \in Tcbs /\ written[p] \in Nat /\ Sender(c) /\ n \in Nat /\ ToSend[p] \in Nat
      BY <2>5, Facts, PseudoTcpAssumption DEF Sound
    <3>3. r \in Int /\ r >= 0
      BY <3>1, <3>2
    <3>4. g \in Int /\ g >= 0
      <4>1. c.sbuf \in Fifos(SndBufLen) /\ Len(c.sbuf.data) \in Nat /\ SndBufLen \in Nat /\ Len(c.sbuf.data) <= SndBufLen
        BY <3>2, TcbTypes, SegmentTypes, Constants DEF Sender, RightSent
      <4>2. g = SndBufLen - Len(c.sbuf.data)
        BY <4>1, CapacityIs
      <4> QED
        BY <4>1, <4>2
    <3> HIDE DEF g, r, c
    <3>5. Min({n, r, g}) \in {n, r, g}
      <4>1. n \in Int
        BY <3>2
      <4> QED
        BY <3>3, <3>4, <4>1, MinThree
    <3>6. len \in Nat
      BY <3>2, <3>3, <3>4, <3>5
    <3> HIDE DEF len
    <3> QED
      BY <3>1, <3>6
  <2>6. ASSUME NEW n \in Sizes, NEW idle \in BOOLEAN, Recv(p, n, idle)
        PROVE  \/ UNCHANGED <<written, read>>
               \/ \E s \in Seq(Int) : read' = [read EXCEPT ![p] = @ \o s] /\ written' = written
    <3> DEFINE b == tcb[p].rbuf
               s == ReadOffset(b, n, 0)
    <3>1. UNCHANGED written /\ (UNCHANGED read \/ read' = [read EXCEPT ![p] = @ \o s])
      BY <2>6 DEF Recv
    <3>2. b \in Fifos(RcvBufLen) /\ n \in Nat
      BY <2>6, Facts, TcbTypes, PseudoTcpAssumption
    <3> HIDE DEF b
    <3>3. s \in Seq(Int)
      <4> DEFINE m == Min({0 + n, Len(b.data)})
      <4>1. b.data \in Seq(Int) /\ Len(b.data) \in Nat /\ 0 + n \in Int /\ Len(b.data) \in Int
        BY <3>2 DEF Fifos
      <4>2. m \in 1 - 1 .. Len(b.data)
        BY <3>2, <4>1, MinTwo
      <4> HIDE DEF m
      <4>3. 0 + 1 = 1 /\ 1 \in 1 .. Len(b.data) + 1
        BY <4>1
      <4>4. SubSeq(b.data, 1, m) \in Seq(Int)
        BY <4>1, <4>2, <4>3, SubSeqIs
      <4> QED
        BY <4>3, <4>4 DEF ReadOffset, m
    <3> HIDE DEF s
    <3> QED
      BY <3>1, <3>3
  <2>7. CASE \E expired \in SUBSET {"rto", "probe", "ack"}, gone \in BOOLEAN : NotifyClock(p, expired, gone)
    BY <2>7 DEF NotifyClock
  <2>8. CASE \E k \in net[p], copy, idle \in BOOLEAN : NotifyPacket(p, k, copy, idle)
    BY <2>8, Zenon DEF NotifyPacket
  <2>9. CASE \E k \in net[p] : Lose(p, k)
    BY <2>9 DEF Lose
  <2> QED
    BY <2>1, <2>2, <2>3, <2>4, <2>5, <2>6, <2>7, <2>8, <2>9
<1> QED
  BY <1>1, <1>2

\* What the pipe has taken and given.
PipeSent == [p \in Peers |-> [i \in 1 .. written[p] |-> i]]
PipeGot == [p \in Peers |-> read[Other(p)]]

LEMMA PipeWrites ==
  ASSUME Inv, Inv', NEW p \in Peers, NEW len \in Nat, written' = [written EXCEPT ![p] = @ + len], read' = read
  PROVE  \/ UNCHANGED <<PipeSent, PipeGot>>
         \/ /\ Len(PipeSent[p]) <= Len(PipeSent'[p]) /\ PipeSent[p] # PipeSent'[p]
            /\ SubSeq(PipeSent[p], 1, Len(PipeSent[p])) = SubSeq(PipeSent'[p], 1, Len(PipeSent[p]))
            /\ PipeSent' = [PipeSent EXCEPT ![p] = PipeSent'[p]] /\ UNCHANGED PipeGot
<1>1. UNCHANGED PipeGot
  BY DEF PipeGot
<1>2. written \in [Peers -> Nat] /\ written' \in [Peers -> Nat]
  BY DEF Inv, TypeOK
<1>3. \A x \in Peers : PipeSent[x] = Numbers(written[x]) /\ PipeSent'[x] = Numbers(written'[x])
  BY DEF PipeSent, Numbers
<1>4. DOMAIN PipeSent = Peers /\ DOMAIN PipeSent' = Peers /\ PipeSent = [x \in Peers |-> PipeSent[x]]
      /\ PipeSent' = [x \in Peers |-> PipeSent'[x]]
  BY DEF PipeSent
<1>5. written'[p] = written[p] + len /\ \A x \in Peers : x # p => written'[x] = written[x]
  BY <1>2
<1>6. CASE len = 0
  <2>1. written' = written
    BY <1>2, <1>5, <1>6
  <2> QED
    BY <1>1, <2>1 DEF PipeSent
<1>7. CASE len # 0
  <2> DEFINE w == written[p]
             n == written'[p]
  <2>1. w \in Nat /\ n \in Nat /\ w < n /\ w \in 0 .. n /\ w \in 0 .. w
    BY <1>2, <1>5, <1>7
  <2>2. /\ Len(Numbers(w)) = w /\ Len(Numbers(n)) = n /\ SubSeq(Numbers(n), 1, w) = Numbers(w)
        /\ SubSeq(Numbers(w), 1, w) = Numbers(w)
    BY <2>1, NumbersIs
  <2>3. PipeSent[p] = Numbers(w) /\ PipeSent'[p] = Numbers(n)
    BY <1>3
  <2>4. PipeSent' = [PipeSent EXCEPT ![p] = PipeSent'[p]]
    <3>1. \A x \in Peers : x # p => PipeSent'[x] = PipeSent[x]
      BY <1>3, <1>5
    <3> QED
      BY <1>4, <3>1
  <2> HIDE DEF w, n
  <2>5. Len(PipeSent[p]) <= Len(PipeSent'[p]) /\ PipeSent[p] # PipeSent'[p]
    BY <2>1, <2>2, <2>3
  <2>6. SubSeq(PipeSent[p], 1, Len(PipeSent[p])) = SubSeq(PipeSent'[p], 1, Len(PipeSent[p]))
    BY <2>2, <2>3
  <2> QED
    BY <1>1, <2>4, <2>5, <2>6
<1> QED
  BY <1>6, <1>7

LEMMA PipeReads ==
  ASSUME Inv, Inv', NEW p \in Peers, NEW s \in Seq(Int), read' = [read EXCEPT ![p] = @ \o s], written' = written
  PROVE  \/ UNCHANGED <<PipeSent, PipeGot>>
         \/ /\ \E n \in Len(PipeGot[Other(p)]) + 1 .. Len(PipeSent[Other(p)]) :
                 PipeGot' = [PipeGot EXCEPT ![Other(p)] = SubSeq(PipeSent[Other(p)], 1, n)]
            /\ UNCHANGED PipeSent
<1> DEFINE q == Other(p)
           m == Len(read[p])
           n == Len(read'[p])
           w == written[q]
<1>1. q \in Peers /\ Other(q) = p /\ q # p /\ \A x \in Peers : x = p \/ x = q
  BY TwoPeers
<1>2. UNCHANGED PipeSent
  BY DEF PipeSent
<1>3. read \in [Peers -> Seq(Int)] /\ read' \in [Peers -> Seq(Int)] /\ w \in Nat
  BY <1>1 DEF Inv, TypeOK
<1>4. read[p] = Numbers(m) /\ m \in Nat
  <2>1. /\ tcb[q] \in Tcbs /\ Window(tcb[q]) /\ written[p] \in Nat /\ w \in Nat /\ read[p] \in Seq(Int)
        /\ Side(tcb[p], tcb[q], net[p], written[p], w, read[p])
    BY Facts DEF Inv
  <2> QED
    BY <2>1, ReadIs
<1>5. read'[p] = Numbers(n) /\ n \in Nat /\ n <= w
  <2>1. /\ tcb'[q] \in Tcbs /\ written'[p] \in Nat /\ written'[q] \in Nat /\ read'[p] \in Seq(Int)
        /\ Side(tcb'[p], tcb'[q], net'[p], written'[p], written'[q], read'[p])
    BY <1>1 DEF Inv, TypeOK
  <2>2. Window(tcb'[q])
    BY <1>1 DEF Inv, Side, Sound, Receiver
  <2>3. read'[p] = Numbers(n) /\ n \in Nat /\ n <= written'[q]
    BY <2>1, <2>2, ReadIs
  <2> QED
    BY <2>3
<1>6. m <= n
  <2>1. read'[p] = read[p] \o s /\ read[p] \in Seq(Int)
    BY <1>3
  <2>2. Len(read'[p]) = Len(read[p]) + Len(s) /\ Len(s) \in Nat
    BY <2>1, ConcatIs
  <2> HIDE DEF m, n
  <2> QED
    BY <1>4, <2>2 DEF m, n
<1>7. read'[q] = read[q]
  BY <1>1, <1>3
<1>8. PipeGot[q] = read[p] /\ PipeGot'[q] = read'[p] /\ PipeGot[p] = read[q] /\ PipeGot'[p] = read'[q]
      /\ PipeGot = [x \in Peers |-> PipeGot[x]] /\ PipeGot' = [x \in Peers |-> PipeGot'[x]]
  BY <1>1 DEF PipeGot
<1>9. PipeSent[q] = Numbers(w)
  BY <1>1 DEF PipeSent, Numbers
<1> HIDE DEF q, m, n, w
<1>10. CASE m = n
  <2>1. \A x \in Peers : PipeGot'[x] = PipeGot[x]
    BY <1>1, <1>4, <1>5, <1>7, <1>8, <1>10
  <2>2. PipeGot' = PipeGot
    BY <1>8, <2>1
  <2> QED
    BY <1>2, <2>2
<1>11. CASE m # n
  <2>1. Len(PipeGot[q]) = m /\ Len(PipeSent[q]) = w
    BY <1>3, <1>4, <1>8, <1>9, NumbersIs DEF m
  <2>2. n \in Len(PipeGot[q]) + 1 .. Len(PipeSent[q])
    BY <1>3, <1>4, <1>5, <1>6, <1>11, <2>1
  <2>3. SubSeq(PipeSent[q], 1, n) = read'[p]
    <3>1. n \in 0 .. w
      BY <1>3, <1>5
    <3> QED
      BY <1>3, <1>5, <1>9, <3>1, NumbersIs
  <2>4. PipeGot' = [PipeGot EXCEPT ![q] = SubSeq(PipeSent[q], 1, n)]
    BY <1>1, <1>7, <1>8, <2>3
  <2> QED
    BY <1>2, <2>2, <2>4 DEF q
<1> QED
  BY <1>10, <1>11

\* The refinement, under ConnectFirst: over a network that loses, duplicates and reorders
\* data and acknowledgements, and on which connect messages are neither lost nor
\* overtaken, two connections with buffers, windows and segments of any size implement
\* the byte pipe.  Send is its Write, Recv its Read, and all else, whatever a timer or
\* packet makes a connection do, is invisible.  The code gives no such guarantee for
\* connect messages, and without it the statement is false.
THEOREM ImplementsPipe ==
  ASSUME ConnectFirst
  PROVE  Spec => IsPipe
<1>1. Init => Pipe!Init
  <2> SUFFICES ASSUME Init PROVE Pipe!Init
    OBVIOUS
  <2>1. [i \in 1 .. 0 |-> i] = << >>
    OBVIOUS
  <2>2. \A p \in Peers : written[p] = 0 /\ read[Other(p)] = << >>
    BY TwoPeers DEF Init
  <2> QED
    BY <2>1, <2>2 DEF Pipe!Init
<1>2. Inv /\ Inv' /\ [Next]_vars => [Pipe!Next]_<<PipeSent, PipeGot>>
  <2> SUFFICES ASSUME Inv, Inv', [Next]_vars PROVE Pipe!Next \/ UNCHANGED <<PipeSent, PipeGot>>
    OBVIOUS
  <2>1. CASE UNCHANGED <<written, read>>
    BY <2>1 DEF PipeSent, PipeGot
  <2>2. ASSUME NEW p \in Peers, NEW len \in Nat, written' = [written EXCEPT ![p] = @ + len], read' = read
        PROVE  Pipe!Next \/ UNCHANGED <<PipeSent, PipeGot>>
    <3>1. CASE UNCHANGED <<PipeSent, PipeGot>>
      BY <3>1
    <3>2. CASE /\ Len(PipeSent[p]) <= Len(PipeSent'[p]) /\ PipeSent[p] # PipeSent'[p]
               /\ SubSeq(PipeSent[p], 1, Len(PipeSent[p])) = SubSeq(PipeSent'[p], 1, Len(PipeSent[p]))
               /\ PipeSent' = [PipeSent EXCEPT ![p] = PipeSent'[p]] /\ UNCHANGED PipeGot
      <4>1. Pipe!Write(p)
        BY <3>2 DEF Pipe!Write, Pipe!IsStrictPrefix, Pipe!IsPrefix, PipeSent, PipeGot
      <4> QED
        BY <4>1 DEF Pipe!Next
    <3> QED
      BY <2>2, <3>1, <3>2, PipeWrites
  <2>3. ASSUME NEW p \in Peers, NEW s \in Seq(Int), read' = [read EXCEPT ![p] = @ \o s], written' = written
        PROVE  Pipe!Next \/ UNCHANGED <<PipeSent, PipeGot>>
    <3>1. CASE UNCHANGED <<PipeSent, PipeGot>>
      BY <3>1
    <3>2. CASE /\ \E n \in Len(PipeGot[Other(p)]) + 1 .. Len(PipeSent[Other(p)]) :
                    PipeGot' = [PipeGot EXCEPT ![Other(p)] = SubSeq(PipeSent[Other(p)], 1, n)]
               /\ UNCHANGED PipeSent
      <4>1. Pipe!Read(Other(p))
        BY <3>2 DEF Pipe!Read, PipeSent, PipeGot
      <4> QED
        BY <4>1, TwoPeers DEF Pipe!Next
    <3> QED
      BY <2>3, <3>1, <3>2, PipeReads
  <2> QED
    BY <2>1, <2>2, <2>3, Transfers
<1>3. [Pipe!Next]_<<PipeSent, PipeGot>> <=> [Pipe!Next]_<<[p \in Peers |-> [i \in 1 .. written[p] |-> i]], [p \in Peers |-> read[Other(p)]]>>
  BY DEF PipeSent, PipeGot
<1> QED
  BY <1>1, <1>2, <1>3, Invariance, PTL DEF Spec, IsPipe, Pipe!Spec

=============================================================================
