----------------------------- MODULE PseudoTcp -----------------------------
(***************************************************************************)
(* cricket::PseudoTcp (webrtc/p2p/base/pseudotcp.cc): two of them over a   *)
(* network that loses, duplicates and reorders packets.                    *)
(*                                                                         *)
(* A method runs to completion, so it is an operator from the record of a  *)
(* connection to the record after it; the packets it hands to              *)
(* TcpWritePacket collect in the field out and enter the network when it   *)
(* returns.  Time is abstract: a timer that is running may expire at any   *)
(* moment, and round-trip times, which only set its length, are left out.  *)
(* Sequence numbers do not wrap (they have 32 bits in the code).  The      *)
(* bytes an application writes are numbered from 1; a connect message is   *)
(* made of zeros.                                                          *)
(***************************************************************************)
EXTENDS FifoBuffer, SequencesExt

CONSTANTS
  ToSend,          \* ToSend[p]: bytes the application of p writes
  Sizes,           \* numbers of bytes an application reads or writes at once
  ConnectLen,      \* length of a connect message
  RcvBufLen, SndBufLen,
  MssLevels,       \* PACKET_MAXIMUMS less the overhead, largest first
  PathMss,         \* largest payload the network accepts
  MaxXmit,         \* transmissions of a segment before giving up
  MaxXmitConnect,  \* the same while connecting
  Nagling, DelayAcks,  \* options OPT_NODELAY and OPT_ACKDELAY
  Connectors,      \* peers whose application connects
  Closers,         \* peers whose application closes
  MayFail,         \* peers whose TcpWritePacket may fail
  MaxCwnd,         \* bound: congestion window
  MaxPackets,      \* bound: packets under way to a peer, the rest is dropped
  MaxFaults,       \* bound: packets lost or duplicated
  ConnectFirst     \* connect messages are not lost and arrive before other packets

Peers == {"A", "B"}
Other(p) == IF p = "A" THEN "B" ELSE "A"

ASSUME PseudoTcpAssumption ==
  /\ ToSend \in [Peers -> Nat] /\ Sizes \subseteq Nat \ {0}
  /\ {ConnectLen, RcvBufLen, SndBufLen, PathMss, MaxXmit, MaxXmitConnect, MaxCwnd} \subseteq Nat \ {0}
  /\ MssLevels \in Seq(Nat \ {0}) /\ MssLevels # << >> /\ Last(MssLevels) <= PathMss
  \* A connect message, of at most 4 bytes, fits the buffers, the windows and a packet.
  /\ ConnectLen <= RcvBufLen /\ ConnectLen <= SndBufLen /\ ConnectLen <= MaxCwnd
  /\ \A l \in 1 .. Len(MssLevels) : ConnectLen <= MssLevels[l]
  /\ Nagling \in BOOLEAN /\ DelayAcks \in BOOLEAN /\ ConnectFirst \in BOOLEAN
  /\ Connectors \cup Closers \subseteq Peers /\ MayFail \subseteq Peers
  /\ MaxPackets \in Nat /\ MaxFaults \in Nat

VARIABLES
  tcb,       \* tcb[p]: the connection of p
  net,       \* net[p]: packets on their way to p
  written,   \* written[p]: number of bytes Send took from the application of p
  read,      \* read[p]: the bytes Recv gave to the application of p
  faults     \* number of packets lost or duplicated

vars == <<tcb, net, written, read, faults>>

States == {"LISTEN", "SYN_SENT", "SYN_RECEIVED", "ESTABLISHED", "CLOSED", "DESTROYED"}
Fifos(capacity) == [data : Seq(Int), ahead : [0 .. capacity - 1 -> Int]]
SSegments == [seq : Nat, len : Nat \ {0}, xmit : Nat, bCtrl : BOOLEAN]
RSegments == [seq : Nat, len : Nat]
Packets == [seq : Int, ack : Nat, ctl : BOOLEAN, wnd : Nat, data : Seq(Int)]

Tcbs ==
  [state : States, shutdown : {"NONE", "GRACEFUL", "FORCEFUL"},
   sbuf : Fifos(SndBufLen), slist : Seq(SSegments), snd_una : Nat, snd_nxt : Nat, snd_wnd : Nat,
   rbuf : Fifos(RcvBufLen), rlist : Seq(RSegments), rcv_nxt : Nat, rcv_wnd : Nat,
   level : 1 .. Len(MssLevels), cwnd : Nat \ {0}, ssthresh : Nat \ {0},
   dup_acks : 0 .. 4, recover : Nat, rto : BOOLEAN, t_ack : BOOLEAN,
   bReadEnable : BOOLEAN, bWriteEnable : BOOLEAN, out : SUBSET Packets, room : Nat]

TypeOK ==
  /\ tcb \in [Peers -> Tcbs]
  /\ net \in [Peers -> SUBSET Packets]
  /\ written \in [Peers -> Nat] /\ read \in [Peers -> Seq(Int)]
  /\ faults \in 0 .. MaxFaults

\* The constructor.
NewTcb ==
  [state |-> "LISTEN", shutdown |-> "NONE",
   sbuf |-> EmptyFifo(SndBufLen), slist |-> << >>, snd_una |-> 0, snd_nxt |-> 0, snd_wnd |-> 1,
   rbuf |-> EmptyFifo(RcvBufLen), rlist |-> << >>, rcv_nxt |-> 0, rcv_wnd |-> RcvBufLen,
   level |-> Len(MssLevels), cwnd |-> Min({2 * Last(MssLevels), MaxCwnd}), ssthresh |-> RcvBufLen,
   dup_acks |-> 0, recover |-> 0,
   rto |-> FALSE,            \* m_rto_base # 0: the retransmission timer runs
   t_ack |-> FALSE,          \* m_t_ack # 0: a delayed ack is due
   bReadEnable |-> TRUE, bWriteEnable |-> FALSE,
   out |-> {}, room |-> 0]   \* what this call sends, and what the socket still accepts

Init ==
  /\ tcb = [p \in Peers |-> NewTcb]
  /\ net = [p \in Peers |-> {}]
  /\ written = [p \in Peers |-> 0]
  /\ read = [p \in Peers |-> << >>]
  /\ faults = 0

m_mss(c) == MssLevels[c.level]
InFlight(c) == c.snd_nxt - c.snd_una
WithCwnd(c, w) == [c EXCEPT !.cwnd = Min({w, MaxCwnd})]

-----------------------------------------------------------------------------
(* Sending *)

\* packet: a segment without data counts as sent even when the socket fails.
packet(c, seq, ctl, data) ==
  LET k == [seq |-> seq, ack |-> c.rcv_nxt, ctl |-> ctl, wnd |-> c.rcv_wnd, data |-> data]
  IN IF c.room = 0 THEN [c EXCEPT !.t_ack = FALSE]
     ELSE [c EXCEPT !.out = @ \cup {k}, !.room = @ - 1, !.t_ack = FALSE]

\* Mutant: the rest has the seq of the first part.
SplitAtKeepsSeq(slist, i, n) ==
  LET s == slist[i]
  IN IF n >= s.len THEN slist
     ELSE InsertAt([slist EXCEPT ![i].len = n], i + 1, [s EXCEPT !.len = @ - n])

\* Cut the segment at index i after n bytes; the rest keeps xmit of the first part.
SplitAt(slist, i, n) ==
  LET s == slist[i]
  IN IF n >= s.len THEN slist
     ELSE InsertAt([slist EXCEPT ![i].len = n], i + 1,
                   [s EXCEPT !.seq = @ + n, !.len = @ - n])

\* WR_TOO_LARGE: the first smaller segment size that the network accepts.
FittingLevel(c, n) ==
  IF n <= PathMss THEN c.level
  ELSE Min({l \in c.level + 1 .. Len(MssLevels) : MssLevels[l] <= PathMss})

\* transmit the segment at index i, with the segment size of a level that fits; ok is
\* what it returns.
SendSegment(c, i, n) ==
  LET s == c.slist[i]
      sent == packet(c, s.seq, s.bCtrl, ReadOffset(c.sbuf, n, s.seq - c.snd_una))
      slist == [SplitAt(c.slist, i, n) EXCEPT ![i].xmit = @ + 1]
      snd_nxt == IF s.xmit = 0 THEN c.snd_nxt + n ELSE c.snd_nxt
  IN IF c.room = 0 THEN [ok |-> FALSE, c |-> c]
     ELSE [ok |-> TRUE, c |-> [sent EXCEPT !.slist = slist, !.snd_nxt = snd_nxt, !.rto = TRUE]]

AtLevel(c, level) ==
  IF level = c.level THEN c ELSE WithCwnd([c EXCEPT !.level = level], 2 * MssLevels[level])

transmit(c, i) ==
  LET s == c.slist[i]
      Fit(level) == SendSegment(AtLevel(c, level), i, Min({s.len, MssLevels[level]}))
  IN IF s.xmit >= (IF c.state = "ESTABLISHED" THEN MaxXmit ELSE MaxXmitConnect)
     THEN [ok |-> FALSE, c |-> c]
     ELSE Fit(FittingLevel(c, Min({s.len, m_mss(c)})))

\* How many bytes attemptSend may send now: 0 if the window is closed or nearly so.
Sendable(c) ==
  LET cwnd == c.cwnd + IF c.dup_acks \in {1, 2} THEN c.dup_acks * m_mss(c) ELSE 0
      nWindow == Min({c.snd_wnd, cwnd})
      nUseable == Max({nWindow - InFlight(c), 0})
      nAvailable == Min({GetBuffered(c.sbuf) - InFlight(c), m_mss(c)})
  IN IF nAvailable <= nUseable THEN nAvailable
     ELSE IF nUseable * 4 < nWindow THEN 0 ELSE nUseable

\* A segment was transmitted with result r, or was not, which ends the loop.
Transmitted(t, r) ==
  IF r.ok THEN [c |-> r.c, flags |-> "None", done |-> FALSE]
  ELSE [t EXCEPT !.c = r.c, !.done = TRUE]

\* One turn of attemptSend's loop.
SendTurn(t) ==
  LET c == t.c
      n == Sendable(c)
      i == SelectInSeq(c.slist, LAMBDA s : s.xmit = 0)
      Done(d) == [t EXCEPT !.c = d, !.done = TRUE]
  IN IF t.done THEN t
     ELSE IF n = 0
     THEN Done(CASE t.flags = "None" -> c
                 [] t.flags = "ImmediateAck" \/ (t.flags = "DelayedAck" /\ c.t_ack)
                      -> packet(c, c.snd_nxt, FALSE, << >>)
                 [] OTHER -> [c EXCEPT !.t_ack = TRUE])
     ELSE IF Nagling /\ InFlight(c) > 0 /\ n < m_mss(c) THEN Done(c)
     ELSE Transmitted(t, transmit([c EXCEPT !.slist = SplitAt(@, i, n)], i))

\* attemptSend; idle tells that nothing was sent for longer than the timeout.
attemptSend(c, flags, idle) ==
  LET turn[k \in 0 .. GetBuffered(c.sbuf) + 1] ==
        IF k = 0
        THEN [c |-> IF idle THEN WithCwnd(c, m_mss(c)) ELSE c, flags |-> flags, done |-> FALSE]
        ELSE SendTurn(turn[k - 1])
  IN turn[GetBuffered(c.sbuf) + 1].c

\* queue: data joins the last segment if that was not sent yet.
queue(c, data, bCtrl) ==
  LET s == SubSeq(data, 1, Min({Len(data), GetWriteRemaining(c.sbuf)}))
      k == Len(c.slist)
      slist == IF k > 0 /\ c.slist[k].bCtrl = bCtrl /\ c.slist[k].xmit = 0
               THEN [c.slist EXCEPT ![k].len = @ + Len(s)]
               ELSE Append(c.slist, [seq |-> c.snd_una + GetBuffered(c.sbuf), len |-> Len(s),
                                     xmit |-> 0, bCtrl |-> bCtrl])
  IN [c EXCEPT !.sbuf = Write(@, s), !.slist = slist]

queueConnectMessage(c) ==
  queue([c EXCEPT !.snd_wnd = ConnectLen], [i \in 1 .. ConnectLen |-> 0], TRUE)

\* adjustMTU, for the largest MTU, and the state that comes with it.
Establish(c) ==
  LET d == [c EXCEPT !.state = "ESTABLISHED", !.level = 1]
  IN WithCwnd([d EXCEPT !.ssthresh = Max({@, 2 * m_mss(d)})], Max({c.cwnd, m_mss(d)}))

closedown(c) == [c EXCEPT !.state = "CLOSED"]

-----------------------------------------------------------------------------
(* process, in the order of its parts *)

ProcessConnect(c, seg) ==
  IF ~seg.ctl THEN c
  ELSE IF c.state = "LISTEN" THEN queueConnectMessage([c EXCEPT !.state = "SYN_RECEIVED"])
  ELSE IF c.state = "SYN_SENT" THEN Establish(c) ELSE c

\* The segments left after n bytes were acknowledged.  A segment that is
\* acknowledged in part keeps its seq.
Acked(slist, n) ==
  LET sum[k \in 0 .. Len(slist)] == IF k = 0 THEN 0 ELSE sum[k - 1] + slist[k].len
      k == Max({j \in 0 .. Len(slist) : sum[j] <= n})
      rest == SubSeq(slist, k + 1, Len(slist))
  IN IF n > sum[k] /\ rest # << >> THEN [rest EXCEPT ![1].len = @ - (n - sum[k])] ELSE rest

Good(c) == [ok |-> TRUE, c |-> c]

\* A retransmission of the first segment; the connection closes if it fails.
OrClosed(r) == IF r.ok THEN r ELSE [ok |-> FALSE, c |-> closedown(r.c)]
Retransmit(c) == OrClosed(transmit(c, 1))

\* During recovery n bytes were acknowledged, and the next segment retransmitted.
Deflate(n, r) ==
  IF r.ok THEN Good(WithCwnd(r.c, r.c.cwnd + m_mss(r.c) - Min({n, r.c.cwnd}))) ELSE r

NewAck(c, seg) ==
  LET n == seg.ack - c.snd_una
      d == [c EXCEPT !.snd_wnd = seg.wnd, !.snd_una = seg.ack, !.rto = seg.ack # c.snd_nxt,
                     !.sbuf = ConsumeReadData(@, n), !.slist = Acked(@, n)]
  IN IF c.dup_acks < 3
     THEN Good(WithCwnd([d EXCEPT !.dup_acks = 0],
                 c.cwnd + IF c.cwnd < c.ssthresh THEN m_mss(c)
                          ELSE Max({1, (m_mss(c) * m_mss(c)) \div c.cwnd})))
     ELSE IF seg.ack >= c.recover
     THEN Good(WithCwnd([d EXCEPT !.dup_acks = 0], Min({c.ssthresh, InFlight(d) + m_mss(c)})))
     ELSE Deflate(n, Retransmit(d))

\* The third duplicate: recovery starts with a retransmission.
EnterRecovery(inFlight, r) ==
  LET ssthresh == Max({inFlight \div 2, 2 * m_mss(r.c)})
  IN IF ~r.ok THEN r
     ELSE Good(WithCwnd([r.c EXCEPT !.recover = r.c.snd_nxt, !.ssthresh = ssthresh],
                        ssthresh + 3 * m_mss(r.c)))

DuplicateAck(c, seg) ==
  LET d == [c EXCEPT !.snd_wnd = seg.wnd]
      e == [d EXCEPT !.dup_acks = Min({@ + 1, 4})]
  IN IF Len(seg.data) > 0 THEN Good(d)
     ELSE IF InFlight(c) = 0 THEN Good([d EXCEPT !.dup_acks = 0])
     ELSE IF e.dup_acks < 3 THEN Good(e)
     ELSE IF e.dup_acks > 3 THEN Good(WithCwnd(e, c.cwnd + m_mss(c)))
     ELSE EnterRecovery(InFlight(c), Retransmit(e))

ProcessAck(c, seg) ==
  IF seg.ack > c.snd_una /\ seg.ack <= c.snd_nxt THEN NewAck(c, seg)
  ELSE IF seg.ack = c.snd_una THEN DuplicateAck(c, seg)
  ELSE Good(c)

\* Room in the send buffer is announced when it is half the ideal.
Writeable(c) ==
  [c EXCEPT !.bWriteEnable = @ /\ GetBuffered(c.sbuf) >= (SndBufLen + RcvBufLen) \div 2]

AckFlags(c, seg) ==
  IF seg.seq # c.rcv_nxt THEN "ImmediateAck"
  ELSE IF seg.data = << >> THEN "None"
  ELSE IF DelayAcks THEN "DelayedAck" ELSE "ImmediateAck"

\* The part of a segment that is new and fits the receive buffer.
Trimmed(c, seg) ==
  LET from == Max({seg.seq, c.rcv_nxt})
      to == Min({seg.seq + Len(seg.data), c.rcv_nxt + GetWriteRemaining(c.rbuf)})
  IN IF from >= to THEN [seg EXCEPT !.data = << >>]
     ELSE [seg EXCEPT !.seq = from, !.data = SubSeq(@, from - seg.seq + 1, to - seg.seq)]

\* What follows rcv_nxt and was saved before becomes readable; the first k segments
\* are done with, and after them there is a gap.
Recover(c) ==
  LET reach[k \in 0 .. Len(c.rlist)] ==
        IF k = 0 THEN c.rcv_nxt ELSE Max({reach[k - 1], c.rlist[k].seq + c.rlist[k].len})
      k == Min({j \in 0 .. Len(c.rlist) : j < Len(c.rlist) => c.rlist[j + 1].seq > reach[j]})
      n == reach[k] - c.rcv_nxt
  IN [c EXCEPT !.rbuf = ConsumeWriteBuffer(@, n), !.rcv_nxt = @ + n, !.rcv_wnd = @ - n,
               !.rlist = SubSeq(@, k + 1, Len(@))]

\* Mutant: the window is not reduced.
InOrderKeepsWindow(c, seg) ==
  LET n == Len(seg.data)
  IN Recover([c EXCEPT !.rbuf = ConsumeWriteBuffer(WriteOffset(@, seg.data, 0), n),
                       !.rcv_nxt = @ + n])

InOrder(c, seg) ==
  LET n == Len(seg.data)
  IN Recover([c EXCEPT !.rbuf = ConsumeWriteBuffer(WriteOffset(@, seg.data, 0), n),
                       !.rcv_nxt = @ + n, !.rcv_wnd = @ - n])

\* A segment after a gap is written ahead and remembered, in the order of seq.
OutOfOrder(c, seg) ==
  LET k == Len(c.rlist)
      place == Min({k + 1} \cup {j \in 1 .. k : c.rlist[j].seq >= seg.seq})
  IN [c EXCEPT !.rbuf = WriteOffset(@, seg.data, seg.seq - c.rcv_nxt),
               !.rlist = InsertAt(@, place, [seq |-> seg.seq, len |-> Len(seg.data)])]

\* Data of a control segment, or after Close, is skipped.
ProcessData(c, seg) ==
  LET ignore == seg.ctl \/ c.shutdown # "NONE"
  IN IF seg.data = << >> THEN c
     ELSE IF seg.seq # c.rcv_nxt THEN (IF ignore THEN c ELSE OutOfOrder(c, seg))
     ELSE IF ignore THEN [c EXCEPT !.rcv_nxt = @ + Len(seg.data)]
     ELSE InOrder(c, seg)

\* The last part: b became d by taking s, the part of seg that is new.
Respond(b, seg, s, d, idle) ==
  LET new == GetBuffered(d.rbuf) > GetBuffered(b.rbuf)
      recovered == new /\ d.rcv_nxt > s.seq + Len(s.data)
      flags == IF recovered THEN "ImmediateAck" ELSE AckFlags(b, seg)
  IN [attemptSend(d, flags, idle) EXCEPT !.bReadEnable = @ /\ ~new]

Take(b, seg, s, idle) == Respond(b, seg, s, ProcessData(b, s), idle)

AfterAck(a, seg, idle) ==
  LET TakeNew(b) == Take(b, seg, Trimmed(b, seg), idle)
  IN IF ~a.ok THEN a.c
     ELSE TakeNew(Writeable(IF a.c.state = "SYN_RECEIVED" /\ ~seg.ctl THEN Establish(a.c) ELSE a.c))

process(c, seg, idle) ==
  IF c.state = "CLOSED" THEN c
  ELSE AfterAck(ProcessAck(ProcessConnect(c, seg), seg), seg, idle)

-----------------------------------------------------------------------------
(* The steps.  An application does not call Send again before it was told  *)
(* that it may write, nor Recv before it was told that it may read.        *)

\* What TcpWritePacket accepts during one call.
Rooms(p) == LET many == SndBufLen + 2 IN IF p \in MayFail THEN {0, many} ELSE {many}

\* A full network drops what does not fit, but no connect message if these are safe.
Sent(q, out) ==
  {S \in SUBSET (net[q] \cup out) :
     /\ net[q] \subseteq S
     /\ Cardinality(S) = Min({Cardinality(net[q] \cup out), Max({MaxPackets, Cardinality(net[q])})})
     /\ ConnectFirst => \A k \in out : k.ctl => k \in S}

\* The connection of p becomes d, and what it sends enters the network.
Becomes(p, d) ==
  /\ tcb' = [tcb EXCEPT ![p] = [d EXCEPT !.out = {}, !.room = 0]]
  /\ \E S \in Sent(Other(p), d.out) : net' = [net EXCEPT ![Other(p)] = S]

Connect(p) ==
  LET c == tcb[p] IN
  /\ p \in Connectors /\ c.state = "LISTEN"
  /\ \E room \in Rooms(p) :
       Becomes(p, attemptSend(queueConnectMessage([c EXCEPT !.state = "SYN_SENT", !.room = room]),
                              "None", FALSE))
  /\ UNCHANGED <<written, read, faults>>

Send(p, n, idle) ==
  LET c == tcb[p]
      len == Min({n, ToSend[p] - written[p], GetWriteRemaining(c.sbuf)}) IN
  /\ c.state = "ESTABLISHED" /\ ~c.bWriteEnable /\ written[p] < ToSend[p]
  /\ \E room \in Rooms(p) :
       Becomes(p, IF GetWriteRemaining(c.sbuf) = 0 THEN [c EXCEPT !.bWriteEnable = TRUE]
                  ELSE attemptSend(queue([c EXCEPT !.room = room],
                                         [i \in 1 .. len |-> written[p] + i], FALSE), "None", idle))
  /\ written' = [written EXCEPT ![p] = @ + len]
  /\ UNCHANGED <<read, faults>>

\* Recv of at most n bytes when there are some: the window opens in large steps.
RecvBytes(c, n, idle) ==
  LET d == [c EXCEPT !.rbuf = ConsumeReadData(@, Min({n, GetBuffered(c.rbuf)}))]
      free == GetWriteRemaining(d.rbuf)
      e == [d EXCEPT !.rcv_wnd = free]
  IN IF free - c.rcv_wnd < Min({RcvBufLen \div 2, m_mss(c)}) THEN d
     ELSE IF c.rcv_wnd = 0 THEN attemptSend(e, "ImmediateAck", idle) ELSE e

Recv(p, n, idle) ==
  LET c == tcb[p] IN
  /\ c.state = "ESTABLISHED" /\ ~c.bReadEnable
  /\ \/ /\ GetBuffered(c.rbuf) = 0
        /\ Becomes(p, [c EXCEPT !.bReadEnable = TRUE])
        /\ UNCHANGED read
     \/ /\ GetBuffered(c.rbuf) > 0
        /\ \E room \in Rooms(p) : Becomes(p, RecvBytes([c EXCEPT !.room = room], n, idle))
        /\ read' = [read EXCEPT ![p] = @ \o ReadOffset(c.rbuf, n, 0)]
  /\ UNCHANGED <<written, faults>>

Close(p, shutdown) ==
  /\ p \in Closers /\ tcb[p].shutdown = "NONE" /\ tcb[p].state # "DESTROYED"
  /\ tcb' = [tcb EXCEPT ![p].shutdown = shutdown]
  /\ UNCHANGED <<net, written, read, faults>>

\* The three parts of NotifyClock; gone tells that nothing came from the peer for
\* 15 seconds.
SlowStart(inFlight, r) ==
  IF ~r.ok THEN r.c
  ELSE WithCwnd([r.c EXCEPT !.ssthresh = Max({inFlight \div 2, 2 * m_mss(r.c)})], m_mss(r.c))

ClockRetransmit(c) == SlowStart(InFlight(c), Retransmit(c))

ClockProbe(c, gone) ==
  IF gone THEN closedown(c) ELSE packet(c, c.snd_nxt - 1, FALSE, << >>)

ClockAck(c) == packet(c, c.snd_nxt, FALSE, << >>)

\* Mutant: the clock is not asked for while the window is closed.
RunningTimersNoProbe(c) ==
  {name \in {"rto", "ack"} : IF name = "rto" THEN c.rto ELSE c.t_ack}

\* The timers clock_check waits for.
RunningTimers(c) ==
  {name \in {"rto", "probe", "ack"} :
     \/ name = "rto" /\ c.rto
     \/ name = "probe" /\ c.snd_wnd = 0
     \/ name = "ack" /\ c.t_ack}

\* The parts of NotifyClock when the timers in expired have expired.
AfterRto(c, expired) == IF "rto" \in expired /\ c.rto THEN ClockRetransmit(c) ELSE c

AfterProbe(c, expired, gone) ==
  IF c.state # "CLOSED" /\ "probe" \in expired /\ c.snd_wnd = 0 THEN ClockProbe(c, gone) ELSE c

AfterDelay(c, expired) ==
  IF c.state # "CLOSED" /\ "ack" \in expired /\ c.t_ack THEN ClockAck(c) ELSE c

NotifyClock(p, expired, gone) ==
  LET c == tcb[p] IN
  /\ c.state \notin {"CLOSED", "DESTROYED"}
  /\ expired \subseteq RunningTimers(c) /\ expired # {} /\ (gone => "probe" \in expired)
  /\ \E room \in Rooms(p) :
       Becomes(p, AfterDelay(AfterProbe(AfterRto([c EXCEPT !.room = room], expired), expired, gone),
                             expired))
  /\ UNCHANGED <<written, read, faults>>

\* Mutant: it is enough that nothing is in flight.
MayDestroyUnsent(c) ==
  \/ c.shutdown = "FORCEFUL"
  \/ /\ c.shutdown = "GRACEFUL"
     /\ c.state # "ESTABLISHED" \/ (InFlight(c) = 0 /\ ~c.t_ack)

\* GetNextClock returns FALSE: the connection can be destroyed.
MayDestroy(c) ==
  \/ c.shutdown = "FORCEFUL"
  \/ /\ c.shutdown = "GRACEFUL"
     /\ c.state # "ESTABLISHED" \/ (GetBuffered(c.sbuf) = 0 /\ ~c.t_ack)

Destroy(p) ==
  /\ tcb[p].state # "DESTROYED" /\ MayDestroy(tcb[p])
  /\ tcb' = [tcb EXCEPT ![p] = [NewTcb EXCEPT !.state = "DESTROYED", !.shutdown = tcb[p].shutdown]]
  /\ net' = [net EXCEPT ![p] = {}]
  /\ UNCHANGED <<written, read, faults>>

\* A packet arrives; the network may keep a copy.
NotifyPacket(p, k, copy, idle) ==
  /\ k \in net[p] /\ tcb[p].state # "DESTROYED"
  /\ ConnectFirst /\ ~k.ctl => \A j \in net[p] : ~j.ctl
  /\ faults' = IF copy THEN faults + 1 ELSE faults
  /\ faults' <= MaxFaults
  /\ \E room \in Rooms(p) : \E d \in {process([tcb[p] EXCEPT !.room = room], k, idle)} :
       /\ tcb' = [tcb EXCEPT ![p] = [d EXCEPT !.out = {}, !.room = 0]]
       /\ \E S \in Sent(Other(p), d.out) :
            net' = [net EXCEPT ![Other(p)] = S, ![p] = IF copy THEN @ ELSE @ \ {k}]
  /\ UNCHANGED <<written, read>>

Lose(p, k) ==
  /\ k \in net[p] /\ faults < MaxFaults /\ ~(ConnectFirst /\ k.ctl)
  /\ net' = [net EXCEPT ![p] = @ \ {k}]
  /\ faults' = faults + 1
  /\ UNCHANGED <<tcb, written, read>>

Next ==
  \E p \in Peers :
    \/ Connect(p) \/ Destroy(p)
    \/ \E shutdown \in {"GRACEFUL", "FORCEFUL"} : Close(p, shutdown)
    \/ \E n \in Sizes, idle \in BOOLEAN : Send(p, n, idle) \/ Recv(p, n, idle)
    \/ \E expired \in SUBSET {"rto", "probe", "ack"}, gone \in BOOLEAN : NotifyClock(p, expired, gone)
    \/ \E k \in net[p], copy, idle \in BOOLEAN : NotifyPacket(p, k, copy, idle)
    \/ \E k \in net[p] : Lose(p, k)

Spec == Init /\ [][Next]_vars

-----------------------------------------------------------------------------
(* Properties *)

\* The bytes an application reads are those the other one wrote, in order.
RightBytes == \A p \in Peers : \A i \in 1 .. Len(read[p]) : read[p][i] = i

\* Over a network that loses, duplicates and reorders data and acknowledgements, but
\* neither loses a connect message nor lets other packets overtake it (ConnectFirst),
\* the two connections are a pipe in each direction: Recv gives what Send took, in
\* order and once.  RightBytes fails without ConnectFirst.
Pipe ==
  INSTANCE BytePipe WITH
    Ends <- Peers,
    sent <- [p \in Peers |-> [i \in 1 .. written[p] |-> i]],
    got <- [p \in Peers |-> read[Other(p)]]

IsPipe == Pipe!Spec

\* The segments of the send list follow each other and are the send buffer, those
\* that were sent come first, and the retransmission timer runs while any is
\* unacknowledged: otherwise retransmissions carry the wrong bytes, or the
\* assertions of attemptSend and NotifyClock fail.
SegmentsTile ==
  \A p \in Peers : LET c == tcb[p] IN
    c.state \notin {"CLOSED", "DESTROYED"} =>
      LET start[i \in 1 .. Len(c.slist) + 1] ==
            IF i = 1 THEN c.snd_una ELSE start[i - 1] + c.slist[i - 1].len
      IN /\ \A i \in 1 .. Len(c.slist) :
              /\ c.slist[i].seq = start[i]
              /\ c.slist[i].xmit > 0 <=> start[i + 1] <= c.snd_nxt
         /\ start[Len(c.slist) + 1] = c.snd_una + GetBuffered(c.sbuf)
         /\ c.rto <=> c.snd_nxt > c.snd_una

\* The window a peer works with never reaches past the space the other one has: no
\* byte that was sent is cut off because the receive buffer is full.
WindowKept ==
  \A p \in Peers : LET c == tcb[p] d == tcb[Other(p)] IN
    {c.state, d.state} = {"ESTABLISHED"} =>
      /\ c.rcv_wnd \in 0 .. GetWriteRemaining(c.rbuf)
      /\ d.snd_nxt <= c.rcv_nxt + GetWriteRemaining(c.rbuf)

\* A peer that closes gracefully and may be destroyed while the connection is up
\* has handed over every byte its application wrote.
GracefulDelivers ==
  [][\A p \in Peers :
       Destroy(p) /\ tcb[p].state = "ESTABLISHED" /\ tcb[p].shutdown = "GRACEFUL"
         => \/ tcb[Other(p)].shutdown # "NONE"
            \/ Len(read[Other(p)]) + GetBuffered(tcb[Other(p)].rbuf) = written[p]]_vars

\* No packet is under way to p, it has no timer, and its application may not call again.
Waiting(p) == LET c == tcb[p] IN
  /\ net[p] = {} /\ RunningTimers(c) = {} /\ c.state \in {"SYN_SENT", "SYN_RECEIVED", "ESTABLISHED"}
  /\ c.state = "ESTABLISHED" => c.bReadEnable /\ (c.bWriteEnable \/ written[p] = ToSend[p])

\* The socket of p refused a packet: what attemptSend would send at once is not in
\* flight, and no timer brings attemptSend back (`TODO: consider closing socket').
Refused(p) == LET c == tcb[p] IN p \in MayFail /\ InFlight(c) = 0 /\ Sendable(c) > 0

\* When everybody waits, everything was read: no window stays shut and no connection,
\* and no application waiting for a callback, is stuck.  The one stall there is comes
\* from a socket that refused the connect message or data of its own side.
NoStall ==
  (\A p \in Peers : Waiting(p) /\ tcb[p].shutdown = "NONE")
    => \/ \A p \in Peers : tcb[p].state = "ESTABLISHED" /\ Len(read[Other(p)]) = ToSend[p]
       \/ \E p \in Peers : Refused(p)
=============================================================================
