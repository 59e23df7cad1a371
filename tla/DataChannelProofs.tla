------------------------- MODULE DataChannelProofs -------------------------
(***************************************************************************)
(* Proofs about DataChannel, for every number of messages, every size of   *)
(* message and every limit.  The inductive invariant is stated on the      *)
(* channel record, so that each method of DataChannelOps gets a lemma that *)
(* it preserves it, and each action of DataChannel cites the lemmas of the *)
(* methods it calls.                                                       *)
(***************************************************************************)
EXTENDS DataChannel, FiniteSetTheorems, SequenceTheorems, WellFoundedInduction, TLAPS

-----------------------------------------------------------------------------
(* The inductive invariant of a channel *)

\* The handshake states a role can be in; a pre-negotiated SCTP channel and an
\* RTP channel start Ready.
HandshakeFitsRole(c) ==
  /\ c.dct = "RTP" => c.role = "None"
  /\ c.role = "None" => c.handshake_state = "Ready"
  /\ c.role = "Acker" => c.handshake_state \in {"ShouldSendAck", "Ready"}
  /\ c.role = "Opener" => c.handshake_state \in {"ShouldSendOpen", "WaitingForAck", "Ready"}

\* An open channel, and one that queued data, has sent its OPEN or OPEN_ACK.
OpenedAfterHandshake(c) ==
  c.state = "Open" \/ c.queued_send # << >>
    => c.handshake_state \in {"WaitingForAck", "Ready"}

\* What an opener has sent is determined by its handshake state.
OpenerWire(c) ==
  c.role = "Opener" =>
    /\ c.handshake_state = "ShouldSendOpen" => c.wire = << >>
    /\ c.handshake_state = "Ready" => c.heard
    /\ Len(c.wire) > 0 => c.wire[1].kind = "OPEN" /\ c.wire[1].ordered
    /\ c.handshake_state # "ShouldSendOpen" => Len(c.wire) > 0
    /\ ~c.heard => \A i \in 1 .. Len(c.wire) :
                     c.wire[i].kind = "DATA" => c.wire[i].ordered

\* An SCTP channel has no SSRCs, is connected while it is not closed and has a
\* transport, and only has a stream while it is connected.
SctpConnection(c) ==
  c.dct = "SCTP" =>
    /\ ~c.send_ssrc_set /\ ~c.receive_ssrc_set
    /\ c.stream => c.connected_to_provider /\ c.has_sid
    /\ c.transport /\ c.state # "Closed" => c.connected_to_provider
    /\ c.state = "Closed" => ~c.connected_to_provider

QueueState(c) ==
  c.queued_send # << >> => c.dct = "SCTP" /\ c.state \in {"Open", "Closing"}

SignalledOnce(c) == c.closed_signals = IF c.state = "Closed" THEN 1 ELSE 0

ChannelInv(c) ==
  /\ c \in Channel
  /\ HandshakeFitsRole(c) /\ OpenedAfterHandshake(c) /\ OpenerWire(c)
  /\ SctpConnection(c) /\ QueueState(c) /\ SignalledOnce(c)

-----------------------------------------------------------------------------
(* The number of bytes in a queue *)

\* Induction up to a bound, from the well-foundedness of the naturals.
LEMMA UpTo ==
  ASSUME NEW m \in Nat, NEW T, 0 \in T, \A n \in 0 .. m - 1 : n \in T => n + 1 \in T
  PROVE  0 .. m \subseteq T
<1> DEFINE R == OpToRel(<, Nat)
           F == {n \in 0 .. m : n \notin T}
<1>1. IsWellFoundedOn(R, Nat) /\ \A x, y \in Nat : <<y, x>> \notin R => x <= y
  BY NatLessThanWellFounded DEF OpToRel
<1> SUFFICES ASSUME F # {} PROVE FALSE
  OBVIOUS
<1>2. F \subseteq Nat
  OBVIOUS
<1> HIDE DEF R, F
<1>3. PICK x \in F : \A y \in F : ~(<<y, x>> \in R)
  BY <1>1, <1>2, WFMin
<1>4. \A y \in F : x <= y
  BY <1>1, <1>2, <1>3
<1>5. x \in 0 .. m /\ x \notin T
  BY <1>3 DEF F
<1>6. x # 0 /\ x - 1 \in 0 .. m - 1 /\ (x - 1) + 1 = x
  BY <1>5
<1>7. x - 1 \in F
  BY <1>5, <1>6 DEF F
<1> QED
  BY <1>4, <1>5, <1>7

\* b counts the bytes of the first m messages of q, for every m up to a bound.
IsBytes(q, m, b) ==
  b = [n \in 0 .. m |-> IF n = 0 THEN 0 ELSE b[n - 1] + Size[q[n]]]

LEMMA BytesDefined ==
  ASSUME NEW q \in Seq(Messages)
  PROVE  \E b : IsBytes(q, Len(q), b) /\ ByteCount(q) = b[Len(q)]
<1> DEFINE T == {m \in 0 .. Len(q) : \E b : IsBytes(q, m, b)}
<1>1. 0 \in T
  <2>1. IsBytes(q, 0, [n \in 0 .. 0 |-> 0])
    BY DEF IsBytes
  <2> QED
    BY <2>1
<1>2. ASSUME NEW m \in 0 .. Len(q) - 1, m \in T PROVE m + 1 \in T
  <2>1. PICK b : IsBytes(q, m, b)
    BY <1>2
  <2> DEFINE g == [n \in 0 .. m + 1 |-> IF n = m + 1 THEN b[m] + Size[q[n]] ELSE b[n]]
  <2>2. b = [n \in 0 .. m |-> IF n = 0 THEN 0 ELSE b[n - 1] + Size[q[n]]]
    BY <2>1 DEF IsBytes
  <2>3. ASSUME NEW n \in 0 .. m + 1
        PROVE  g[n] = IF n = 0 THEN 0 ELSE g[n - 1] + Size[q[n]]
    <3>1. CASE n = m + 1
      <4>1. n - 1 = m /\ n # 0 /\ m # m + 1 /\ m \in 0 .. m + 1
        BY <3>1
      <4>2. g[n] = b[m] + Size[q[n]] /\ g[m] = b[m]
        BY <3>1, <4>1
      <4> QED
        BY <4>1, <4>2
    <3>2. CASE n # m + 1
      <4>1. n \in 0 .. m /\ g[n] = b[n]
        BY <3>2
      <4>2. n # 0 => n - 1 \in 0 .. m /\ n - 1 # m + 1
        BY <4>1
      <4>3. n # 0 => g[n - 1] = b[n - 1]
        BY <4>2
      <4>4. b[n] = IF n = 0 THEN 0 ELSE b[n - 1] + Size[q[n]]
        BY <2>2, <4>1
      <4> QED
        BY <4>1, <4>3, <4>4
    <3> QED
      BY <3>1, <3>2
  <2>4. IsBytes(q, m + 1, g)
    <3> DEFINE h == [n \in 0 .. m + 1 |-> IF n = 0 THEN 0 ELSE g[n - 1] + Size[q[n]]]
    <3>1. \A n \in 0 .. m + 1 : g[n] = h[n]
      BY <2>3
    <3>2. DOMAIN g = 0 .. m + 1 /\ DOMAIN h = 0 .. m + 1
      OBVIOUS
    <3>3. g = [n \in 0 .. m + 1 |-> g[n]] /\ h = [n \in 0 .. m + 1 |-> h[n]]
      OBVIOUS
    <3> HIDE DEF g, h
    <3>4. g = h
      BY <3>1, <3>3, Zenon
    <3> QED
      BY <3>4 DEF IsBytes, h
  <2> QED
    BY <2>4
<1>3. Len(q) \in Nat
  OBVIOUS
<1> HIDE DEF T
<1>4. 0 .. Len(q) \subseteq T
  BY <1>1, <1>2, <1>3, UpTo
<1>5. \E b : IsBytes(q, Len(q), b)
  BY <1>3, <1>4 DEF T
<1> DEFINE c == CHOOSE b : IsBytes(q, Len(q), b)
<1>6. IsBytes(q, Len(q), c)
  BY <1>5
<1>7. ByteCount(q) = c[Len(q)]
  BY DEF ByteCount, IsBytes
<1> QED
  BY <1>6, <1>7

LEMMA BytesNat ==
  ASSUME NEW q \in Seq(Messages), NEW b, IsBytes(q, Len(q), b)
  PROVE  /\ b[0] = 0 /\ \A n \in 0 .. Len(q) : b[n] \in Nat
         /\ \A n \in 0 .. Len(q) - 1 : b[n + 1] = b[n] + Size[q[n + 1]]
<1> DEFINE T == {n \in 0 .. Len(q) : b[n] \in Nat}
<1>1. Len(q) \in Nat
  OBVIOUS
<1>2. \A n \in 0 .. Len(q) : b[n] = IF n = 0 THEN 0 ELSE b[n - 1] + Size[q[n]]
  BY DEF IsBytes
<1>3. b[0] = 0
  BY <1>1, <1>2
<1>4. ASSUME NEW n \in 0 .. Len(q) - 1
      PROVE  b[n + 1] = b[n] + Size[q[n + 1]] /\ Size[q[n + 1]] \in Nat
  <2>1. n + 1 \in 0 .. Len(q) /\ n + 1 # 0 /\ (n + 1) - 1 = n /\ n + 1 \in 1 .. Len(q)
    OBVIOUS
  <2>2. q[n + 1] \in Messages
    BY <2>1
  <2> QED
    BY <1>2, <2>1, <2>2, SizeAssumption
<1>5. 0 \in T
  BY <1>1, <1>3
<1>6. \A n \in 0 .. Len(q) - 1 : n \in T => n + 1 \in T
  BY <1>4
<1>7. 0 .. Len(q) \subseteq T
  BY <1>1, <1>5, <1>6, UpTo
<1> QED
  BY <1>3, <1>4, <1>7

\* A queue r found in q from position k on has the bytes that q has there.
LEMMA BytesOfPart ==
  ASSUME NEW q \in Seq(Messages), NEW r \in Seq(Messages), NEW k \in Nat,
         k + Len(r) <= Len(q), \A i \in 1 .. Len(r) : r[i] = q[k + i],
         NEW b, IsBytes(q, Len(q), b)
  PROVE  /\ b[k] \in Nat /\ b[k + Len(r)] \in Nat /\ b[0] = 0
         /\ ByteCount(r) \in Nat /\ b[k + Len(r)] = b[k] + ByteCount(r)
<1>1. PICK g : IsBytes(r, Len(r), g) /\ ByteCount(r) = g[Len(r)]
  BY BytesDefined
<1>2. /\ b[0] = 0 /\ \A n \in 0 .. Len(q) : b[n] \in Nat
      /\ \A n \in 0 .. Len(q) - 1 : b[n + 1] = b[n] + Size[q[n + 1]]
  BY BytesNat
<1>3. /\ g[0] = 0 /\ \A n \in 0 .. Len(r) : g[n] \in Nat
      /\ \A n \in 0 .. Len(r) - 1 : g[n + 1] = g[n] + Size[r[n + 1]]
  BY <1>1, BytesNat
<1>4. Len(r) \in Nat /\ Len(q) \in Nat
  OBVIOUS
<1> DEFINE T == {n \in 0 .. Len(r) : b[k + n] = b[k] + g[n]}
<1>5. 0 \in T
  <2>1. k \in 0 .. Len(q) /\ k + 0 = k /\ 0 \in 0 .. Len(r)
    BY <1>4
  <2>2. b[k] + 0 = b[k]
    BY <1>2, <2>1
  <2> QED
    BY <1>3, <2>1, <2>2
<1>6. ASSUME NEW n \in 0 .. Len(r) - 1, n \in T PROVE n + 1 \in T
  <2>1. /\ n + 1 \in 0 .. Len(r) /\ n + 1 \in 1 .. Len(r) /\ n \in 0 .. Len(r)
        /\ k + n \in 0 .. Len(q) - 1 /\ (k + n) + 1 = k + (n + 1)
        /\ k \in 0 .. Len(q)
    BY <1>4
  <2>2. r[n + 1] = q[k + (n + 1)] /\ r[n + 1] \in Messages
    BY <2>1
  <2>3. Size[r[n + 1]] \in Nat
    BY <2>2, SizeAssumption
  <2>4. b[k + n] = b[k] + g[n]
    BY <1>6
  <2>5. b[k + (n + 1)] = b[k + n] + Size[r[n + 1]]
    BY <1>2, <2>1, <2>2
  <2>6. g[n + 1] = g[n] + Size[r[n + 1]]
    BY <1>3
  <2>7. b[k] \in Nat /\ g[n] \in Nat
    BY <1>2, <1>3, <2>1
  <2>8. (b[k] + g[n]) + Size[r[n + 1]] = b[k] + (g[n] + Size[r[n + 1]])
    BY <2>3, <2>7
  <2> QED
    BY <2>1, <2>4, <2>5, <2>6, <2>8
<1>7. 0 .. Len(r) \subseteq T
  BY <1>4, <1>5, <1>6, UpTo
<1>8. b[k + Len(r)] = b[k] + g[Len(r)]
  BY <1>4, <1>7
<1>9. k \in 0 .. Len(q) /\ k + Len(r) \in 0 .. Len(q) /\ Len(r) \in 0 .. Len(r)
  BY <1>4
<1> QED
  BY <1>1, <1>2, <1>3, <1>8, <1>9

\* Pushing adds the size of the message.
LEMMA ByteCountAppend ==
  ASSUME NEW q \in Seq(Messages), NEW m \in Messages
  PROVE  /\ ByteCount(q) \in Nat /\ Size[m] \in Nat
         /\ ByteCount(Append(q, m)) = ByteCount(q) + Size[m]
<1> DEFINE p == Append(q, m)
<1>1. /\ p \in Seq(Messages) /\ Len(p) = Len(q) + 1 /\ Len(q) \in Nat
      /\ \A i \in 1 .. Len(q) : q[i] = p[0 + i]
      /\ p[Len(q) + 1] = m
  OBVIOUS
<1> HIDE DEF p
<1>2. PICK b : IsBytes(p, Len(p), b) /\ ByteCount(p) = b[Len(p)]
  BY <1>1, BytesDefined
<1>3. 0 \in Nat /\ 0 + Len(q) <= Len(p)
  BY <1>1
<1>4. b[0] = 0 /\ ByteCount(q) \in Nat /\ b[0 + Len(q)] = b[0] + ByteCount(q)
  BY <1>1, <1>2, <1>3, BytesOfPart
<1>5. Len(q) \in 0 .. Len(p) - 1
  BY <1>1
<1>6. b[Len(q) + 1] = b[Len(q)] + Size[p[Len(q) + 1]]
  BY <1>1, <1>2, <1>5, BytesNat
<1>7. 0 + Len(q) = Len(q) /\ 0 + ByteCount(q) = ByteCount(q)
  BY <1>1, <1>4
<1> QED
  BY <1>1, <1>2, <1>4, <1>6, <1>7, SizeAssumption DEF p

LEMMA ByteCountEmpty == ByteCount(<< >>) = 0
<1> DEFINE q == << >>
<1>1. q \in Seq(Messages) /\ Len(q) = 0
  OBVIOUS
<1> HIDE DEF q
<1>2. PICK b : IsBytes(q, Len(q), b) /\ ByteCount(q) = b[Len(q)]
  BY <1>1, BytesDefined
<1>3. b[0] = 0
  BY <1>1, <1>2, BytesNat
<1> QED
  BY <1>1, <1>2, <1>3 DEF q

\* What is left after a flush is not larger than what was queued.
LEMMA ByteCountRest ==
  ASSUME NEW q \in Seq(Messages), NEW n \in 0 .. Len(q)
  PROVE  LET rest == SubSeq(q, n + 1, Len(q)) IN
         /\ ByteCount(rest) \in Nat /\ ByteCount(q) \in Nat
         /\ ByteCount(rest) <= ByteCount(q)
         /\ rest # << >> => q # << >> /\ Last(rest) = Last(q) /\ Last(q) \in Messages
<1> DEFINE r == SubSeq(q, n + 1, Len(q))
<1>1. /\ r \in Seq(Messages) /\ Len(r) = Len(q) - n /\ Len(q) \in Nat /\ n \in Nat
      /\ \A i \in 1 .. Len(r) : r[i] = q[n + i]
  <2>1. /\ r \in Seq(Messages) /\ Len(r) = IF n + 1 <= Len(q) THEN Len(q) - (n + 1) + 1 ELSE 0
    BY SubSeqProperties
  <2>2. \A i \in 1 .. Len(q) - n : r[i] = q[n + i]
    OBVIOUS
  <2>3. Len(q) \in Nat /\ n \in Nat /\ n <= Len(q)
    OBVIOUS
  <2> QED
    BY <2>1, <2>2, <2>3
<1> HIDE DEF r
<1>2. PICK b : IsBytes(q, Len(q), b) /\ ByteCount(q) = b[Len(q)]
  BY BytesDefined
<1>3. n + Len(r) <= Len(q) /\ n + Len(r) = Len(q)
  BY <1>1
<1>4. /\ b[n] \in Nat /\ b[Len(q)] \in Nat /\ ByteCount(r) \in Nat
      /\ b[Len(q)] = b[n] + ByteCount(r)
  <2>1. n \in Nat /\ r \in Seq(Messages) /\ \A i \in 1 .. Len(r) : r[i] = q[n + i]
    BY <1>1
  <2>2. /\ b[n] \in Nat /\ b[n + Len(r)] \in Nat
        /\ ByteCount(r) \in Nat /\ b[n + Len(r)] = b[n] + ByteCount(r)
    BY <1>2, <1>3, <2>1, BytesOfPart
  <2> QED
    BY <1>3, <2>2
<1>5. ASSUME r # << >> PROVE q # << >> /\ Last(r) = Last(q) /\ Last(q) \in Messages
  <2>1. Len(r) # 0
    BY <1>1, <1>5, EmptySeq
  <2>2. Len(r) \in 1 .. Len(r) /\ Len(q) \in 1 .. Len(q) /\ n + Len(r) = Len(q)
    BY <1>1, <1>3, <2>1
  <2>3. r[Len(r)] = q[Len(q)]
    BY <1>1, <2>2
  <2> QED
    BY <2>2, <2>3 DEF Last
<1> QED
  BY <1>2, <1>4, <1>5 DEF r

-----------------------------------------------------------------------------
(* Closing preserves the invariant and drops no message *)

LEMMA SetStateType ==
  ASSUME NEW c \in Channel, NEW s \in DataState
  PROVE  SetState(c, s) \in Channel
<1>1. c.closed_signals + 1 \in Nat
  BY DEF Channel
<1> QED
  BY <1>1 DEF Channel, SetState

LEMMA DisconnectType ==
  ASSUME NEW c \in Channel
  PROVE  DisconnectFromProvider(c) \in Channel
<1>1. [c EXCEPT !.connected_to_provider = FALSE,
                !.stream = @ /\ ~(c.dct = "SCTP" /\ c.has_sid)] \in Channel
  BY DEF Channel
<1> QED
  BY <1>1 DEF DisconnectFromProvider

\* Closing keeps everything but the state, the connection and the SSRCs.
Frame(c, d) ==
  /\ d.wire = c.wire /\ d.sent = c.sent /\ d.queued_send = c.queued_send
  /\ d.delivered = c.delivered /\ d.queued_received = c.queued_received
  /\ d.queued_control = c.queued_control
  /\ d.dct = c.dct /\ d.role = c.role /\ d.ordered = c.ordered
  /\ d.handshake_state = c.handshake_state /\ d.heard = c.heard
  /\ d.has_sid = c.has_sid /\ d.transport = c.transport /\ d.observer = c.observer

\* UpdateClosing ends in one of three ways: it waits for the queues, it is
\* disconnected but has an SSRC left (RTP), or it is closed.
LEMMA UpdateClosingLemma ==
  ASSUME NEW c \in Channel, c.state = "Closing"
  PROVE  LET d == UpdateClosing(c) IN
         /\ d \in Channel /\ Frame(c, d)
         /\ d.send_ssrc_set = c.send_ssrc_set /\ d.receive_ssrc_set = c.receive_ssrc_set
         /\ \/ d = c /\ (c.queued_send # << >> \/ c.queued_control # 0)
            \/ /\ ~d.connected_to_provider
               /\ d.queued_send = << >>
               /\ d.stream => c.stream /\ (c.connected_to_provider => ~(c.dct = "SCTP" /\ c.has_sid))
               /\ \/ /\ d.state = "Closing" /\ d.closed_signals = c.closed_signals
                     /\ d.send_ssrc_set \/ d.receive_ssrc_set
                  \/ d.state = "Closed" /\ d.closed_signals = c.closed_signals + 1
<1> DEFINE d == DisconnectFromProvider(c)
           e == SetState(d, "Closed")
<1>1. d \in Channel
  BY DisconnectType
<1>2. /\ Frame(c, d) /\ ~d.connected_to_provider /\ d.state = "Closing"
      /\ d.send_ssrc_set = c.send_ssrc_set /\ d.receive_ssrc_set = c.receive_ssrc_set
      /\ d.closed_signals = c.closed_signals
      /\ d.stream => c.stream /\ (c.connected_to_provider => ~(c.dct = "SCTP" /\ c.has_sid))
  BY DEF Frame, DisconnectFromProvider, Channel
<1>3. e \in Channel
  BY <1>1, SetStateType DEF DataState
<1>4. /\ Frame(d, e) /\ e.connected_to_provider = d.connected_to_provider
      /\ e.state = "Closed" /\ e.stream = d.stream
      /\ e.send_ssrc_set = d.send_ssrc_set /\ e.receive_ssrc_set = d.receive_ssrc_set
      /\ e.closed_signals = d.closed_signals + 1
  BY <1>1, <1>2 DEF Frame, SetState, Channel
<1>5. Frame(c, c)
  BY DEF Frame
<1> HIDE DEF d, e
<1>6. Frame(c, e)
  BY <1>2, <1>4 DEF Frame
<1>7. CASE c.queued_send = << >> /\ c.queued_control = 0
  <2>1. CASE ~d.send_ssrc_set /\ ~d.receive_ssrc_set
    <3>1. UpdateClosing(c) = e
      BY <1>7, <2>1 DEF UpdateClosing, d, e
    <3> QED
      BY <3>1, <1>2, <1>3, <1>4, <1>6, <1>7, <2>1 DEF Frame
  <2>2. CASE d.send_ssrc_set \/ d.receive_ssrc_set
    <3>1. UpdateClosing(c) = d
      BY <1>7, <2>2 DEF UpdateClosing, d, e
    <3> QED
      BY <3>1, <1>1, <1>2, <1>7, <2>2 DEF Frame
  <2> QED
    BY <2>1, <2>2
<1>8. CASE ~(c.queued_send = << >> /\ c.queued_control = 0)
  <2>1. UpdateClosing(c) = c
    BY <1>8 DEF UpdateClosing
  <2> QED
    BY <2>1, <1>5, <1>8
<1> QED
  BY <1>7, <1>8

\* The part Close and DoClose share, from the record with the SSRCs cleared.
LEMMA BeginClosing ==
  ASSUME NEW c, ChannelInv(c), c.state # "Closed", NEW b \in Channel,
         Frame(c, b), b.state = "Closing", b.closed_signals = c.closed_signals,
         b.connected_to_provider = c.connected_to_provider, b.stream = c.stream,
         c.dct = "SCTP" => ~b.send_ssrc_set /\ ~b.receive_ssrc_set
  PROVE  LET d == UpdateClosing(b) IN
         ChannelInv(d) /\ Frame(c, d) /\ d.state \in {"Closing", "Closed"}
<1> DEFINE d == UpdateClosing(b)
<1>1. /\ d \in Channel /\ Frame(b, d)
      /\ d.send_ssrc_set = b.send_ssrc_set /\ d.receive_ssrc_set = b.receive_ssrc_set
      /\ \/ d = b /\ (b.queued_send # << >> \/ b.queued_control # 0)
         \/ /\ ~d.connected_to_provider
            /\ d.queued_send = << >>
            /\ d.stream => b.stream /\ (b.connected_to_provider => ~(b.dct = "SCTP" /\ b.has_sid))
            /\ \/ /\ d.state = "Closing" /\ d.closed_signals = b.closed_signals
                  /\ d.send_ssrc_set \/ d.receive_ssrc_set
               \/ d.state = "Closed" /\ d.closed_signals = b.closed_signals + 1
  BY UpdateClosingLemma
<1> HIDE DEF d
<1>2. Frame(c, d)
  BY <1>1 DEF Frame
<1>3. d.state \in {"Closing", "Closed"}
  BY <1>1
<1>4. HandshakeFitsRole(d) /\ OpenedAfterHandshake(d) /\ OpenerWire(d)
  BY <1>2, <1>3 DEF Frame, ChannelInv, HandshakeFitsRole, OpenedAfterHandshake, OpenerWire
<1>5. SctpConnection(d)
  BY <1>1, <1>2 DEF Frame, ChannelInv, SctpConnection
<1>6. QueueState(d) /\ SignalledOnce(d)
  BY <1>1, <1>2, <1>3 DEF Frame, ChannelInv, QueueState, SignalledOnce
<1> QED
  BY <1>1, <1>2, <1>3, <1>4, <1>5, <1>6 DEF ChannelInv, d

LEMMA CloseLemma ==
  ASSUME NEW c, ChannelInv(c)
  PROVE  /\ ChannelInv(Close(c)) /\ Frame(c, Close(c))
         /\ Close(c).state \in {"Closing", "Closed"}
         /\ c.state = "Closed" => Close(c) = c
<1>1. CASE c.state = "Closed"
  BY <1>1 DEF Close, Frame
<1>2. CASE c.state # "Closed"
  <2> DEFINE a == [c EXCEPT !.send_ssrc_set = FALSE]
             b == SetState(a, "Closing")
  <2>1. a \in Channel
    BY DEF ChannelInv, Channel
  <2>2. b \in Channel
    BY <2>1, SetStateType DEF DataState
  <2>3. /\ Frame(c, b) /\ b.state = "Closing" /\ b.closed_signals = c.closed_signals
        /\ b.connected_to_provider = c.connected_to_provider /\ b.stream = c.stream
        /\ ~b.send_ssrc_set /\ b.receive_ssrc_set = c.receive_ssrc_set
    BY DEF ChannelInv, Channel, Frame, SetState
  <2>4. c.dct = "SCTP" => ~b.send_ssrc_set /\ ~b.receive_ssrc_set
    BY <2>3 DEF ChannelInv, SctpConnection
  <2>5. Close(c) = UpdateClosing(b)
    BY <1>2 DEF Close
  <2> HIDE DEF b
  <2> QED
    BY <1>2, <2>2, <2>3, <2>4, <2>5, BeginClosing
<1> QED
  BY <1>1, <1>2

LEMMA DoCloseLemma ==
  ASSUME NEW c, ChannelInv(c)
  PROVE  /\ ChannelInv(DoClose(c)) /\ Frame(c, DoClose(c))
         /\ DoClose(c).state \in {"Closing", "Closed"}
         /\ c.state = "Closed" => DoClose(c) = c
<1>1. CASE c.state = "Closed"
  BY <1>1 DEF DoClose, Frame
<1>2. CASE c.state # "Closed"
  <2> DEFINE a == [c EXCEPT !.send_ssrc_set = FALSE, !.receive_ssrc_set = FALSE]
             b == SetState(a, "Closing")
  <2>1. a \in Channel
    BY DEF ChannelInv, Channel
  <2>2. b \in Channel
    BY <2>1, SetStateType DEF DataState
  <2>3. /\ Frame(c, b) /\ b.state = "Closing" /\ b.closed_signals = c.closed_signals
        /\ b.connected_to_provider = c.connected_to_provider /\ b.stream = c.stream
        /\ ~b.send_ssrc_set /\ ~b.receive_ssrc_set
    BY DEF ChannelInv, Channel, Frame, SetState
  <2>4. DoClose(c) = UpdateClosing(b)
    BY <1>2 DEF DoClose
  <2> HIDE DEF b
  <2> QED
    BY <1>2, <2>2, <2>3, <2>4, BeginClosing
<1> QED
  BY <1>1, <1>2

-----------------------------------------------------------------------------
(* Sending control messages *)

\* What sending a control message keeps: the data in both directions, and the
\* state unless it closes.
KeepsData(c, d) ==
  /\ d.sent = c.sent /\ d.queued_send = c.queued_send
  /\ d.delivered = c.delivered /\ d.queued_received = c.queued_received
  /\ d.dct = c.dct /\ d.role = c.role /\ d.transport = c.transport /\ d.observer = c.observer
  /\ d.state = c.state \/ (c.state # "Closed" /\ d.state \in {"Closing", "Closed"})

LEMMA KeepsDataTransitive ==
  ASSUME NEW c, NEW d, NEW e, KeepsData(c, d), KeepsData(d, e)
  PROVE  KeepsData(c, e)
  BY DEF KeepsData

LEMMA CloseKeepsData ==
  ASSUME NEW c, ChannelInv(c)
  PROVE  ChannelInv(Close(c)) /\ KeepsData(c, Close(c))
  BY CloseLemma DEF Frame, KeepsData

LEMMA ControlAcceptedLemma ==
  ASSUME NEW c, ChannelInv(c), NEW n \in Nat \ {0}
  PROVE  ChannelInv(ControlAccepted(c, n)) /\ KeepsData(c, ControlAccepted(c, n))
<1> DEFINE m == [k \in 1 .. n |->
                   [kind |-> ControlOf(c.role),
                    ordered |-> c.ordered \/ (k = 1 /\ c.handshake_state = "ShouldSendOpen")]]
           h == AfterControl(c.handshake_state)
           w == c.wire \o m
           d == [c EXCEPT !.handshake_state = h, !.wire = w]
<1>1. d = ControlAccepted(c, n)
  BY DEF ControlAccepted
<1>2. c \in Channel /\ c.ordered \in BOOLEAN /\ c.wire \in Seq(WireMessage) /\ c.role \in Roles
  BY DEF ChannelInv, Channel
<1>3. h \in HandshakeState
  BY DEF ChannelInv, Channel, AfterControl, HandshakeState
<1>4. m \in Seq(WireMessage) /\ Len(m) = n
  <2>1. ControlOf(c.role) \in {"OPEN", "ACK", "DATA"}
    BY DEF ControlOf
  <2>2. \A k \in 1 .. n : (c.ordered \/ (k = 1 /\ c.handshake_state = "ShouldSendOpen")) \in BOOLEAN
    OBVIOUS
  <2>3. \A k \in 1 .. n : m[k] \in WireMessage
    BY <2>1, <2>2 DEF WireMessage
  <2> QED
    BY <2>3
<1>5. \A k \in 1 .. n : m[k].kind = ControlOf(c.role)
  OBVIOUS
<1>6. ASSUME c.handshake_state = "ShouldSendOpen" PROVE m[1].ordered
  <2>1. m[1].ordered = (c.ordered \/ (1 = 1 /\ c.handshake_state = "ShouldSendOpen"))
    OBVIOUS
  <2>2. c.ordered \/ (1 = 1 /\ c.handshake_state = "ShouldSendOpen")
    BY <1>6
  <2> QED
    BY <2>1, <2>2, Zenon
<1> HIDE DEF m
<1>7. /\ w \in Seq(WireMessage) /\ Len(w) = Len(c.wire) + n
      /\ \A i \in 1 .. Len(c.wire) : w[i] = c.wire[i]
      /\ \A i \in 1 .. n : w[Len(c.wire) + i] = m[i]
  BY <1>2, <1>4
<1> HIDE DEF w, h
<1>8. d \in Channel
  BY <1>2, <1>3, <1>7 DEF Channel
<1>9. /\ d.handshake_state = h /\ d.wire = w /\ d.role = c.role /\ d.dct = c.dct
      /\ d.state = c.state /\ d.queued_send = c.queued_send /\ d.heard = c.heard
      /\ d.send_ssrc_set = c.send_ssrc_set /\ d.receive_ssrc_set = c.receive_ssrc_set
      /\ d.stream = c.stream /\ d.connected_to_provider = c.connected_to_provider
      /\ d.has_sid = c.has_sid /\ d.transport = c.transport
      /\ d.closed_signals = c.closed_signals /\ KeepsData(c, d)
  BY <1>2 DEF Channel, KeepsData
<1> HIDE DEF d
<1>10. HandshakeFitsRole(d) /\ OpenedAfterHandshake(d)
  BY <1>9 DEF ChannelInv, HandshakeFitsRole, OpenedAfterHandshake, h, AfterControl
<1>11. OpenerWire(d)
  <2> SUFFICES ASSUME c.role = "Opener" PROVE OpenerWire(d)
    BY <1>9 DEF OpenerWire
  <2>1. ControlOf(c.role) = "OPEN"
    BY DEF ControlOf
  <2>2. /\ c.handshake_state = "ShouldSendOpen" => h = "WaitingForAck"
        /\ c.handshake_state # "ShouldSendOpen" => h = c.handshake_state
    BY DEF h, AfterControl, ChannelInv, HandshakeFitsRole
  <2>3. w[1].kind = "OPEN" /\ w[1].ordered
    <3>1. CASE c.handshake_state = "ShouldSendOpen"
      <4>1. c.wire = << >>
        BY <3>1 DEF ChannelInv, OpenerWire
      <4>2. w[1] = m[1]
        BY <4>1, <1>7
      <4>3. m[1].kind = "OPEN"
        BY <1>5, <2>1
      <4> QED
        BY <4>2, <4>3, <3>1, <1>6, Zenon
    <3>2. CASE c.handshake_state # "ShouldSendOpen"
      <4>1. Len(c.wire) > 0 /\ c.wire[1].kind = "OPEN" /\ c.wire[1].ordered
        BY <3>2 DEF ChannelInv, OpenerWire
      <4> QED
        BY <4>1, <1>2, <1>7
    <3> QED
      BY <3>1, <3>2
  <2>4. ~c.heard => \A i \in 1 .. Len(w) : w[i].kind = "DATA" => w[i].ordered
    <3> SUFFICES ASSUME ~c.heard, NEW i \in 1 .. Len(w), w[i].kind = "DATA"
                 PROVE  w[i].ordered
      OBVIOUS
    <3>1. CASE i \in 1 .. Len(c.wire)
      BY <3>1, <1>7 DEF ChannelInv, OpenerWire
    <3>2. CASE i \notin 1 .. Len(c.wire)
      <4>1. i - Len(c.wire) \in 1 .. n /\ w[i] = m[i - Len(c.wire)]
        BY <3>2, <1>2, <1>7
      <4> QED
        BY <4>1, <1>5, <2>1
    <3> QED
      BY <3>1, <3>2
  <2>5. h = "Ready" => c.heard
    BY <2>2 DEF ChannelInv, OpenerWire
  <2>6. h # "ShouldSendOpen" /\ Len(w) > 0
    BY <2>2, <1>2, <1>7
  <2> QED
    BY <2>3, <2>4, <2>5, <2>6, <1>9 DEF OpenerWire
<1>12. SctpConnection(d) /\ QueueState(d) /\ SignalledOnce(d)
  BY <1>9 DEF ChannelInv, SctpConnection, QueueState, SignalledOnce
<1> QED
  BY <1>1, <1>8, <1>9, <1>10, <1>11, <1>12 DEF ChannelInv

\* Fields that no part of the invariant constrains beyond their type.
LEMMA QueuedControlLemma ==
  ASSUME NEW c, ChannelInv(c), NEW n \in Nat
  PROVE  /\ ChannelInv([c EXCEPT !.queued_control = n])
         /\ KeepsData(c, [c EXCEPT !.queued_control = n])
<1> DEFINE d == [c EXCEPT !.queued_control = n]
<1>1. d \in Channel /\ KeepsData(c, d)
  BY DEF ChannelInv, Channel, KeepsData
<1>2. HandshakeFitsRole(d) /\ OpenedAfterHandshake(d) /\ OpenerWire(d)
  BY DEF ChannelInv, Channel, HandshakeFitsRole, OpenedAfterHandshake, OpenerWire
<1>3. SctpConnection(d) /\ QueueState(d) /\ SignalledOnce(d)
  BY DEF ChannelInv, Channel, SctpConnection, QueueState, SignalledOnce
<1> QED
  BY <1>1, <1>2, <1>3 DEF ChannelInv

LEMMA FailedLemma ==
  ASSUME NEW c, ChannelInv(c), NEW b \in BOOLEAN
  PROVE  /\ ChannelInv([c EXCEPT !.failed = b])
         /\ KeepsData(c, [c EXCEPT !.failed = b])
<1> DEFINE d == [c EXCEPT !.failed = b]
<1>1. d \in Channel /\ KeepsData(c, d)
  BY DEF ChannelInv, Channel, KeepsData
<1>2. HandshakeFitsRole(d) /\ OpenedAfterHandshake(d) /\ OpenerWire(d)
  BY DEF ChannelInv, Channel, HandshakeFitsRole, OpenedAfterHandshake, OpenerWire
<1>3. SctpConnection(d) /\ QueueState(d) /\ SignalledOnce(d)
  BY DEF ChannelInv, Channel, SctpConnection, QueueState, SignalledOnce
<1> QED
  BY <1>1, <1>2, <1>3 DEF ChannelInv

LEMMA SendControlMessageLemma ==
  ASSUME NEW c, ChannelInv(c), NEW r \in SendDataResult
  PROVE  ChannelInv(SendControlMessage(c, r)) /\ KeepsData(c, SendControlMessage(c, r))
<1>1. CASE r = "SUCCESS"
  BY <1>1, ControlAcceptedLemma DEF SendControlMessage
<1>2. CASE r = "BLOCK"
  <2>1. c.queued_control + 1 \in Nat
    BY DEF ChannelInv, Channel
  <2> QED
    BY <1>2, <2>1, QueuedControlLemma DEF SendControlMessage
<1>3. CASE r = "ERROR"
  <2> DEFINE d == [c EXCEPT !.failed = TRUE]
  <2>1. ChannelInv(d) /\ KeepsData(c, d)
    BY FailedLemma
  <2>2. SendControlMessage(c, r) = Close(d)
    BY <1>3 DEF SendControlMessage
  <2> HIDE DEF d
  <2>3. ChannelInv(Close(d)) /\ KeepsData(d, Close(d))
    BY <2>1, CloseKeepsData
  <2> QED
    BY <2>1, <2>2, <2>3, KeepsDataTransitive
<1> QED
  BY <1>1, <1>2, <1>3 DEF SendDataResult

LEMMA SendQueuedControlMessagesLemma ==
  ASSUME NEW c, ChannelInv(c), NEW results
  PROVE  /\ ChannelInv(SendQueuedControlMessages(c, results))
         /\ KeepsData(c, SendQueuedControlMessages(c, results))
<1> DEFINE with(r) == {i \in 1 .. c.queued_control : results[i] = r}
           errors  == with("ERROR")
           blocked == with("BLOCK")
           first   == CHOOSE i \in errors : \A j \in errors : i <= j
           before  == {i \in blocked : i < first}
           sent    == IF with("SUCCESS") = {} THEN c
                      ELSE ControlAccepted(c, Cardinality(with("SUCCESS")))
           onError == [sent EXCEPT !.failed = TRUE, !.queued_control = Cardinality(before)]
<1>1. \A S \in SUBSET (1 .. c.queued_control) :
        Cardinality(S) \in Nat /\ (S # {} => Cardinality(S) # 0)
  <2> TAKE S \in SUBSET (1 .. c.queued_control)
  <2>1. c.queued_control \in Nat
    BY DEF ChannelInv, Channel
  <2> DEFINE q == c.queued_control
  <2>2. IsFiniteSet(1 .. q)
    <3>1. 1 \in Int /\ q \in Int
      BY <2>1
    <3> HIDE DEF q
    <3> QED
      BY <3>1, FS_Interval
  <2>3. IsFiniteSet(S)
    BY <2>2, FS_Subset
  <2> QED
    BY <2>3, FS_CardinalityType, FS_EmptySet
<1>2. Cardinality(blocked) \in Nat /\ Cardinality(before) \in Nat
  BY <1>1
<1>3. ChannelInv(sent) /\ KeepsData(c, sent)
  <2>1. CASE with("SUCCESS") = {}
    BY <2>1 DEF KeepsData
  <2>2. CASE with("SUCCESS") # {}
    <3>1. Cardinality(with("SUCCESS")) \in Nat \ {0}
      BY <2>2, <1>1
    <3> QED
      BY <2>2, <3>1, ControlAcceptedLemma
  <2> QED
    BY <2>1, <2>2
<1>4. SendQueuedControlMessages(c, results) =
        IF errors = {} THEN [sent EXCEPT !.queued_control = Cardinality(blocked)]
        ELSE [Close(onError) EXCEPT !.queued_control = Cardinality(blocked)]
  BY DEF SendQueuedControlMessages
<1> HIDE DEF sent, blocked, before, errors
<1>5. CASE errors = {}
  BY <1>2, <1>3, <1>4, <1>5, QueuedControlLemma, KeepsDataTransitive
<1>6. CASE errors # {}
  <2> DEFINE f == [sent EXCEPT !.failed = TRUE]
  <2>1. ChannelInv(f) /\ KeepsData(sent, f)
    BY <1>3, FailedLemma
  <2>2. onError = [f EXCEPT !.queued_control = Cardinality(before)]
    BY <1>3 DEF ChannelInv, Channel
  <2> HIDE DEF f
  <2>3. ChannelInv(onError) /\ KeepsData(f, onError)
    BY <2>1, <2>2, <1>2, QueuedControlLemma
  <2> HIDE DEF onError
  <2> DEFINE g == Close(onError)
  <2>4. ChannelInv(g) /\ KeepsData(onError, g)
    BY <2>3, CloseKeepsData
  <2> HIDE DEF g
  <2>5. LET h == [g EXCEPT !.queued_control = Cardinality(blocked)]
        IN ChannelInv(h) /\ KeepsData(g, h)
    BY <2>4, <1>2, QueuedControlLemma
  <2>6. SendQueuedControlMessages(c, results) = [g EXCEPT !.queued_control = Cardinality(blocked)]
    BY <1>4, <1>6 DEF g
  <2>7. KeepsData(c, f)
    BY <1>3, <2>1, KeepsDataTransitive
  <2>8. KeepsData(c, g)
    BY <2>3, <2>4, <2>7, KeepsDataTransitive
  <2> QED
    BY <2>5, <2>6, <2>8, KeepsDataTransitive
<1> QED
  BY <1>5, <1>6

-----------------------------------------------------------------------------
(* Sending data messages *)

\* The state moved forward, and a closed channel sent nothing.
Forward(c, d) ==
  /\ \/ d.state = c.state
     \/ c.state = "Connecting" /\ d.state \in DataState
     \/ c.state = "Open" /\ d.state \in {"Closing", "Closed"}
     \/ c.state = "Closing" /\ d.state = "Closed"
  /\ c.state = "Closed" => d.sent = c.sent

\* Everything Send took, in order: what is on the wire, then what is queued; and what
\* arrived and was not dropped: what the observer was given, then what waits for one.
Outgoing(c) == c.sent \o c.queued_send
Incoming(c) == c.delivered \o c.queued_received

\* QueuesBounded of a channel.
QueuesFit(c) ==
  /\ c.queued_send # << >> =>
       ByteCount(c.queued_send) < kMaxQueuedSendDataBytes + Size[Last(c.queued_send)]
  /\ ByteCount(c.queued_received) <= kMaxQueuedReceivedDataBytes

\* Nothing waits for an observer that an open channel has.
NothingWaits(c) == c.state = "Open" /\ c.observer => c.queued_received = << >>

\* What every method but OnDataReceived guarantees, and what only the ones do that do
\* not open the channel or register an observer.
KeepsIncoming(c, d) == Incoming(d) = Incoming(c) /\ (QueuesFit(c) => QueuesFit(d))
StaysDrained(c, d) == NothingWaits(c) => NothingWaits(d)

LEMMA ForwardTransitive ==
  ASSUME NEW c, NEW d, NEW e, Forward(c, d), Forward(d, e)
  PROVE  Forward(c, e)
  BY DEF Forward, DataState

LEMMA KeepsDataForward ==
  ASSUME NEW c \in Channel, NEW d, KeepsData(c, d)
  PROVE  /\ Forward(c, d) /\ Outgoing(d) = Outgoing(c)
         /\ KeepsIncoming(c, d) /\ StaysDrained(c, d)
<1>1. Forward(c, d) /\ Outgoing(d) = Outgoing(c)
  BY DEF KeepsData, Forward, Outgoing, Channel, DataState
<1>2. KeepsIncoming(c, d)
  BY DEF KeepsData, KeepsIncoming, Incoming, QueuesFit
<1>3. StaysDrained(c, d)
  BY DEF KeepsData, StaysDrained, NothingWaits
<1> QED
  BY <1>1, <1>2, <1>3

\* n data messages go on the wire; s and q are what is sent and queued then.
WithData(c, n, s, q) ==
  [c EXCEPT !.wire = @ \o [i \in 1 .. n |-> Data(c)], !.sent = s, !.queued_send = q]

LEMMA WithDataLemma ==
  ASSUME NEW c, ChannelInv(c), NEW n \in Nat, NEW s \in Seq(Messages), NEW q \in Seq(Messages),
         n > 0 => c.handshake_state \in {"WaitingForAck", "Ready"},
         q # << >> => c.queued_send # << >>
  PROVE  ChannelInv(WithData(c, n, s, q))
<1> DEFINE m == [i \in 1 .. n |-> Data(c)]
           w == c.wire \o m
           d == [c EXCEPT !.wire = w, !.sent = s, !.queued_send = q]
<1>1. c \in Channel /\ c.wire \in Seq(WireMessage)
  BY DEF ChannelInv, Channel
<1>2. Data(c) \in WireMessage /\ Data(c).kind = "DATA"
  <2>1. SendsOrdered(c) \in BOOLEAN
    BY DEF SendsOrdered
  <2> QED
    BY <2>1 DEF Data, WireMessage
<1>3. m \in Seq(WireMessage) /\ Len(m) = n /\ \A i \in 1 .. n : m[i] = Data(c)
  BY <1>2
<1> HIDE DEF m
<1>4. /\ w \in Seq(WireMessage) /\ Len(w) = Len(c.wire) + n
      /\ \A i \in 1 .. Len(c.wire) : w[i] = c.wire[i]
      /\ \A i \in 1 .. n : w[Len(c.wire) + i] = Data(c)
  BY <1>1, <1>3
<1> HIDE DEF w
<1>5. d \in Channel
  BY <1>1, <1>4 DEF Channel
<1>6. /\ d.wire = w /\ d.queued_send = q /\ d.handshake_state = c.handshake_state
      /\ d.role = c.role /\ d.dct = c.dct /\ d.state = c.state /\ d.heard = c.heard
      /\ d.send_ssrc_set = c.send_ssrc_set /\ d.receive_ssrc_set = c.receive_ssrc_set
      /\ d.stream = c.stream /\ d.connected_to_provider = c.connected_to_provider
      /\ d.has_sid = c.has_sid /\ d.transport = c.transport
      /\ d.closed_signals = c.closed_signals
  BY <1>1 DEF Channel
<1>7. d = WithData(c, n, s, q)
  BY DEF WithData, w, m
<1> HIDE DEF d
<1>8. HandshakeFitsRole(d) /\ OpenedAfterHandshake(d) /\ QueueState(d)
  BY <1>6 DEF ChannelInv, HandshakeFitsRole, OpenedAfterHandshake, QueueState
<1>9. OpenerWire(d)
  <2> SUFFICES ASSUME c.role = "Opener" PROVE OpenerWire(d)
    BY <1>6 DEF OpenerWire
  <2>1. CASE n = 0
    <3>1. w = c.wire
      BY <2>1, <1>1, <1>4
    <3> QED
      BY <3>1, <1>6 DEF ChannelInv, OpenerWire
  <2>2. CASE n > 0
    <3>1. c.handshake_state \in {"WaitingForAck", "Ready"}
      BY <2>2
    <3>2. Len(c.wire) > 0 /\ c.wire[1].kind = "OPEN" /\ c.wire[1].ordered
      BY <3>1 DEF ChannelInv, OpenerWire
    <3>3. Len(w) > 0 /\ w[1] = c.wire[1]
      BY <3>2, <1>1, <1>4
    <3>4. ~c.heard => Data(c).ordered
      <4> SUFFICES ASSUME ~c.heard PROVE Data(c).ordered
        OBVIOUS
      <4>1. c.handshake_state # "Ready" /\ c.dct = "SCTP"
        BY DEF ChannelInv, OpenerWire, HandshakeFitsRole, Channel
      <4>2. SendsOrdered(c)
        BY <4>1 DEF SendsOrdered
      <4>3. Data(c).ordered = SendsOrdered(c)
        BY DEF Data
      <4> QED
        BY <4>2, <4>3, Zenon
    <3>5. ~c.heard => \A i \in 1 .. Len(w) : w[i].kind = "DATA" => w[i].ordered
      <4> SUFFICES ASSUME ~c.heard, NEW i \in 1 .. Len(w), w[i].kind = "DATA"
                   PROVE  w[i].ordered
        OBVIOUS
      <4>1. CASE i \in 1 .. Len(c.wire)
        BY <4>1, <1>4 DEF ChannelInv, OpenerWire
      <4>2. CASE i \notin 1 .. Len(c.wire)
        <5>1. i - Len(c.wire) \in 1 .. n /\ i = Len(c.wire) + (i - Len(c.wire))
          BY <4>2, <1>1, <1>4
        <5>2. w[i] = Data(c)
          BY <5>1, <1>4
        <5> QED
          BY <5>2, <3>4
      <4> QED
        BY <4>1, <4>2
    <3> QED
      BY <3>1, <3>2, <3>3, <3>5, <1>6 DEF ChannelInv, OpenerWire
  <2> QED
    BY <2>1, <2>2
<1>10. SctpConnection(d) /\ SignalledOnce(d)
  BY <1>6 DEF ChannelInv, SctpConnection, SignalledOnce
<1> QED
  BY <1>5, <1>7, <1>8, <1>9, <1>10 DEF ChannelInv

\* DataAccepted with a new queue.
Flushed(c, msgs, q) == [DataAccepted(c, msgs) EXCEPT !.queued_send = q]

LEMMA DataAcceptedLemma ==
  ASSUME NEW c, ChannelInv(c), NEW msgs \in Seq(Messages), NEW q \in Seq(Messages),
         Len(msgs) > 0 => c.handshake_state \in {"WaitingForAck", "Ready"},
         q # << >> => c.queued_send # << >>
  PROVE  /\ ChannelInv(Flushed(c, msgs, q))
         /\ Flushed(c, msgs, q).sent = c.sent \o msgs
         /\ Flushed(c, msgs, q).queued_send = q
         /\ Flushed(c, msgs, q).state = c.state
         /\ Flushed(c, msgs, q).delivered = c.delivered
         /\ Flushed(c, msgs, q).queued_received = c.queued_received
         /\ Flushed(c, msgs, q).observer = c.observer
<1> DEFINE s == c.sent \o msgs
           d == Flushed(c, msgs, q)
<1>1. c \in Channel /\ c.sent \in Seq(Messages)
  BY DEF ChannelInv, Channel
<1>2. s \in Seq(Messages) /\ Len(msgs) \in Nat
  BY <1>1
<1>3. d = WithData(c, Len(msgs), s, q)
  BY <1>1 DEF DataAccepted, WithData, Flushed, Channel
<1>4. /\ d.sent = s /\ d.queued_send = q /\ d.state = c.state
      /\ d.delivered = c.delivered /\ d.queued_received = c.queued_received
      /\ d.observer = c.observer
  BY <1>1 DEF DataAccepted, Flushed, Channel
<1> HIDE DEF s, d
<1>5. ChannelInv(d)
  BY <1>2, <1>3, WithDataLemma
<1> QED
  BY <1>4, <1>5 DEF s, d

LEMMA QueuedSendUnchanged ==
  ASSUME NEW c, ChannelInv(c), NEW msgs \in Seq(Messages)
  PROVE  DataAccepted(c, msgs) = Flushed(c, msgs, c.queued_send)
  BY DEF ChannelInv, Channel, DataAccepted, Flushed

\* Queueing a message on an open SCTP channel.
LEMMA PushLemma ==
  ASSUME NEW c, ChannelInv(c), NEW m \in Messages, c.dct = "SCTP", c.state = "Open",
         CanQueueSend(c)
  PROVE  LET d == [c EXCEPT !.queued_send = Append(@, m)] IN
         /\ ChannelInv(d) /\ Outgoing(d) = Append(Outgoing(c), m) /\ Forward(c, d)
         /\ KeepsIncoming(c, d) /\ StaysDrained(c, d)
<1> DEFINE d == [c EXCEPT !.queued_send = Append(@, m)]
<1>1. c \in Channel /\ c.queued_send \in Seq(Messages) /\ c.sent \in Seq(Messages)
  BY DEF ChannelInv, Channel
<1>7. Append(c.queued_send, m) \in Seq(Messages)
  BY <1>1
<1>2. d \in Channel
  BY <1>1, <1>7 DEF Channel
<1>3. HandshakeFitsRole(d) /\ OpenedAfterHandshake(d) /\ OpenerWire(d)
  BY <1>1 DEF ChannelInv, Channel, HandshakeFitsRole, OpenedAfterHandshake, OpenerWire
<1>4. SctpConnection(d) /\ QueueState(d) /\ SignalledOnce(d)
  BY <1>1 DEF ChannelInv, Channel, SctpConnection, QueueState, SignalledOnce
<1>5. /\ d.sent = c.sent /\ d.queued_send = Append(c.queued_send, m) /\ d.state = c.state
      /\ d.delivered = c.delivered /\ d.queued_received = c.queued_received
      /\ d.observer = c.observer
  BY <1>1 DEF Channel
<1>6. c.sent \o Append(c.queued_send, m) = Append(c.sent \o c.queued_send, m)
  <2> DEFINE x == c.sent
             y == c.queued_send
  <2>1. x \in Seq(Messages) /\ y \in Seq(Messages) /\ <<m>> \in Seq(Messages)
    BY <1>1
  <2> HIDE DEF x, y
  <2>2. Append(y, m) = y \o <<m>> /\ Append(x \o y, m) = (x \o y) \o <<m>>
    BY <2>1, AppendIsConcat, ConcatProperties
  <2>3. (x \o y) \o <<m>> = x \o (y \o <<m>>)
    BY <2>1, ConcatAssociative
  <2> QED
    BY <2>2, <2>3 DEF x, y
<1> HIDE DEF d
<1>8. QueuesFit(c) => QueuesFit(d)
  <2> DEFINE q == Append(c.queued_send, m)
  <2>1. ByteCount(q) < kMaxQueuedSendDataBytes + Size[m]
    <3>1. /\ ByteCount(c.queued_send) \in Nat /\ Size[m] \in Nat
          /\ ByteCount(q) = ByteCount(c.queued_send) + Size[m]
      BY <1>1, ByteCountAppend
    <3> QED
      BY <3>1, LimitAssumption DEF CanQueueSend
  <2>2. Last(q) = m
    BY <1>1 DEF Last
  <2> HIDE DEF q
  <2> QED
    BY <1>5, <2>1, <2>2 DEF QueuesFit, q
<1>9. KeepsIncoming(c, d) /\ StaysDrained(c, d)
  BY <1>5, <1>8 DEF KeepsIncoming, StaysDrained, Incoming, NothingWaits
<1> QED
  BY <1>2, <1>3, <1>4, <1>5, <1>6, <1>9 DEF ChannelInv, Outgoing, Forward, d

\* Close after an error or after a message that did not fit.
LEMMA CloseFailedLemma ==
  ASSUME NEW c, ChannelInv(c), NEW b \in BOOLEAN
  PROVE  LET d == Close([c EXCEPT !.failed = b]) IN
         /\ ChannelInv(d) /\ Outgoing(d) = Outgoing(c) /\ Forward(c, d)
         /\ KeepsIncoming(c, d) /\ StaysDrained(c, d)
<1> DEFINE f == [c EXCEPT !.failed = b]
<1>1. ChannelInv(f) /\ KeepsData(c, f)
  BY FailedLemma
<1> HIDE DEF f
<1>2. ChannelInv(Close(f)) /\ KeepsData(f, Close(f))
  BY <1>1, CloseKeepsData
<1>3. KeepsData(c, Close(f))
  BY <1>1, <1>2, KeepsDataTransitive
<1>4. c \in Channel
  BY DEF ChannelInv
<1> QED
  BY <1>2, <1>3, <1>4, KeepsDataForward DEF f

\* What every method but Send and OnDataReceived guarantees; a method that opens the
\* channel or registers an observer first makes a Move, and then drains.
Move(c, d) ==
  ChannelInv(d) /\ Forward(c, d) /\ Outgoing(d) = Outgoing(c) /\ KeepsIncoming(c, d)
Step(c, d) == Move(c, d) /\ StaysDrained(c, d)

LEMMA StepTransitive ==
  ASSUME NEW c, NEW d, NEW e, Step(c, d), Step(d, e)
  PROVE  Step(c, e)
<1>1. Move(c, e)
  BY ForwardTransitive DEF Step, Move, KeepsIncoming
<1> QED
  BY <1>1 DEF Step, StaysDrained

LEMMA MoveTransitive ==
  ASSUME NEW c, NEW d, NEW e, Move(c, d), Move(d, e)
  PROVE  Move(c, e)
  BY ForwardTransitive DEF Move, KeepsIncoming

LEMMA StepReflexive ==
  ASSUME NEW c, ChannelInv(c)
  PROVE  Step(c, c)
  BY DEF Step, Move, Forward, KeepsIncoming, StaysDrained

LEMMA KeepsDataStep ==
  ASSUME NEW c, ChannelInv(c), NEW d, ChannelInv(d), KeepsData(c, d)
  PROVE  Step(c, d)
  BY KeepsDataForward DEF Step, Move, ChannelInv

\* SendDataMessage on an open or closing channel whose handshake went out.  It
\* takes the message exactly if it is accepted, or blocked and then queued.
LEMMA SendDataMessageLemma ==
  ASSUME NEW c, ChannelInv(c), NEW m \in Messages, NEW q \in BOOLEAN,
         NEW r \in SendDataResult,
         r = "SUCCESS" => c.queued_send = << >> /\ c.state = "Open",
         q => c.state = "Open"
  PROVE  LET d == SendDataMessage(c, m, q, r)
             takes == r = "SUCCESS" \/ (r = "BLOCK" /\ q /\ c.dct = "SCTP" /\ CanQueueSend(c))
         IN /\ ChannelInv(d) /\ Forward(c, d) /\ KeepsIncoming(c, d) /\ StaysDrained(c, d)
            /\ Outgoing(d) = IF takes THEN Append(Outgoing(c), m) ELSE Outgoing(c)
<1> DEFINE d == SendDataMessage(c, m, q, r)
<1>1. CASE r = "SUCCESS"
  <2> DEFINE e == Flushed(c, <<m>>, c.queued_send)
  <2>1. <<m>> \in Seq(Messages) /\ c.queued_send \in Seq(Messages)
        /\ c.sent \in Seq(Messages) /\ c.state = "Open" /\ c.queued_send = << >>
    BY <1>1 DEF ChannelInv, Channel
  <2>2. c.handshake_state \in {"WaitingForAck", "Ready"}
    BY <2>1 DEF ChannelInv, OpenedAfterHandshake
  <2>3. d = e
    <3>1. d = DataAccepted(c, <<m>>)
      BY <1>1 DEF SendDataMessage
    <3> QED
      BY <3>1, <2>1, QueuedSendUnchanged
  <2>4. /\ ChannelInv(e) /\ e.sent = c.sent \o <<m>> /\ e.queued_send = c.queued_send
        /\ e.state = c.state /\ e.observer = c.observer
        /\ e.delivered = c.delivered /\ e.queued_received = c.queued_received
    BY <2>1, <2>2, DataAcceptedLemma
  <2>5. Outgoing(e) = Append(Outgoing(c), m)
    <3> DEFINE x == c.sent
    <3>1. x \in Seq(Messages) /\ x \o <<m>> \in Seq(Messages)
      BY <2>1, ConcatProperties
    <3>2. Outgoing(e) = (x \o <<m>>) \o << >> /\ Outgoing(c) = x \o << >>
      BY <2>1, <2>4 DEF Outgoing
    <3> HIDE DEF x, e
    <3>3. Outgoing(e) = x \o <<m>> /\ Outgoing(c) = x
      BY <3>1, <3>2, ConcatEmptySeq
    <3> QED
      BY <3>1, <3>3, AppendIsConcat
  <2> HIDE DEF d, e
  <2>6. KeepsIncoming(c, e) /\ StaysDrained(c, e)
    BY <2>4 DEF KeepsIncoming, StaysDrained, Incoming, QueuesFit, NothingWaits
  <2> QED
    BY <1>1, <2>1, <2>3, <2>4, <2>5, <2>6 DEF Forward, d
<1>2. CASE r # "SUCCESS" /\ (c.dct # "SCTP" \/ (r = "BLOCK" /\ ~q))
  <2>1. d = c
    BY <1>2 DEF SendDataMessage
  <2> QED
    BY <1>2, <2>1 DEF Forward, KeepsIncoming, StaysDrained
<1>3. CASE r = "BLOCK" /\ c.dct = "SCTP" /\ q /\ CanQueueSend(c)
  <2> DEFINE e == [c EXCEPT !.queued_send = Append(@, m)]
  <2>1. d = e
    BY <1>3 DEF SendDataMessage
  <2>2. c.state = "Open"
    BY <1>3
  <2>3. /\ ChannelInv(e) /\ Outgoing(e) = Append(Outgoing(c), m) /\ Forward(c, e)
        /\ KeepsIncoming(c, e) /\ StaysDrained(c, e)
    BY <1>3, <2>2, PushLemma
  <2> HIDE DEF d, e
  <2> QED
    BY <1>3, <2>1, <2>3 DEF d
<1>4. CASE r # "SUCCESS" /\ c.dct = "SCTP" /\ ~(r = "BLOCK" /\ (~q \/ CanQueueSend(c)))
  <2>1. d = Close([c EXCEPT !.failed = @ \/ r = "ERROR"])
    BY <1>4 DEF SendDataMessage
  <2>2. (c.failed \/ r = "ERROR") \in BOOLEAN
    OBVIOUS
  <2> QED
    BY <1>4, <2>1, <2>2, CloseFailedLemma
<1> QED
  BY <1>1, <1>2, <1>3, <1>4

LEMMA SendLemma ==
  ASSUME NEW c, ChannelInv(c), c.state = "Open", NEW m \in Messages,
         NEW r \in SendDataResult
  PROVE  LET d == Send(c, m, r) IN
         /\ ChannelInv(d) /\ Forward(c, d) /\ KeepsIncoming(c, d) /\ StaysDrained(c, d)
         /\ Outgoing(d) = IF Takes(c, r) THEN Append(Outgoing(c), m) ELSE Outgoing(c)
<1>1. CASE c.queued_send # << >> /\ CanQueueSend(c)
  <2>1. c.dct = "SCTP"
    BY <1>1 DEF ChannelInv, QueueState
  <2> QED
    BY <1>1, <2>1, PushLemma DEF Send, Takes
<1>2. CASE c.queued_send # << >> /\ ~CanQueueSend(c)
  <2>1. Send(c, m, r) = Close(c) /\ ~Takes(c, r)
    BY <1>2 DEF Send, Takes
  <2>2. Step(c, Close(c))
    BY CloseKeepsData, KeepsDataStep
  <2> QED
    BY <2>1, <2>2 DEF Step, Move
<1>3. CASE c.queued_send = << >>
  <2>1. Send(c, m, r) = SendDataMessage(c, m, TRUE, r)
    BY <1>3 DEF Send
  <2> DEFINE d == SendDataMessage(c, m, TRUE, r)
             takes == r = "SUCCESS" \/ (r = "BLOCK" /\ TRUE /\ c.dct = "SCTP" /\ CanQueueSend(c))
  <2>2. /\ ChannelInv(d) /\ Forward(c, d) /\ KeepsIncoming(c, d) /\ StaysDrained(c, d)
        /\ Outgoing(d) = IF takes THEN Append(Outgoing(c), m) ELSE Outgoing(c)
    BY <1>3, SendDataMessageLemma
  <2>3. takes <=> Takes(c, r)
    BY <1>3 DEF Takes
  <2> HIDE DEF d, takes
  <2> QED
    BY <2>1, <2>2, <2>3 DEF d
<1> QED
  BY <1>1, <1>2, <1>3

\* Flushing moves a prefix of the queue to the wire.
LEMMA SendQueuedDataMessagesLemma ==
  ASSUME NEW c, ChannelInv(c), NEW n \in 0 .. Len(c.queued_send),
         NEW r \in SendDataResult \ {"SUCCESS"}
  PROVE  Step(c, SendQueuedDataMessages(c, n, r))
<1> DEFINE q == c.queued_send
           first == SubSeq(q, 1, n)
           rest == SubSeq(q, n + 1, Len(q))
           e == Flushed(c, first, rest)
<1>1. q \in Seq(Messages) /\ c.sent \in Seq(Messages) /\ Len(q) \in Nat /\ n \in Nat
  BY DEF ChannelInv, Channel
<1>2. /\ first \in Seq(Messages) /\ Len(first) = n
      /\ rest \in Seq(Messages)
      /\ rest # << >> => q # << >>
      /\ n > 0 => q # << >>
  BY <1>1
<1>3. first \o rest = q
  <2> HIDE DEF q
  <2>1. first \o rest = SubSeq(q, 1, Len(q))
    <3>1. 1 \in 1 .. Len(q) + 1 /\ n \in 1 - 1 .. Len(q) /\ Len(q) \in n .. Len(q)
      BY <1>1 DEF q
    <3> QED
      BY <1>1, <3>1, ConcatAdjacentSubSeq
  <2> QED
    BY <1>1, <2>1, SubSeqFull
<1>4. q # << >> => c.handshake_state \in {"WaitingForAck", "Ready"}
  BY DEF ChannelInv, OpenedAfterHandshake
<1>5. q # << >> => c.state # "Closed"
  BY DEF ChannelInv, QueueState
<1> DEFINE result == SendQueuedDataMessages(c, n, r)
<1>6. result = IF n = Len(q) THEN e ELSE SendDataMessage(e, q[n + 1], FALSE, r)
  <2>1. e = [DataAccepted(c, first) EXCEPT !.queued_send = SubSeq(@, n + 1, Len(@))]
    <3>1. DataAccepted(c, first).queued_send = q
      BY DEF ChannelInv, Channel, DataAccepted
    <3> QED
      BY <3>1 DEF Flushed
  <2> QED
    BY <2>1 DEF SendQueuedDataMessages
<1>7. ~(n = Len(q)) => q[n + 1] \in Messages
  BY <1>1
<1> HIDE DEF first, rest
<1>8. /\ ChannelInv(e) /\ e.sent = c.sent \o first /\ e.queued_send = rest
      /\ e.state = c.state /\ e.observer = c.observer
      /\ e.delivered = c.delivered /\ e.queued_received = c.queued_received
  BY <1>2, <1>4, DataAcceptedLemma
<1>12. /\ ByteCount(rest) \in Nat /\ ByteCount(q) \in Nat /\ ByteCount(rest) <= ByteCount(q)
       /\ rest # << >> => q # << >> /\ Last(rest) = Last(q) /\ Last(q) \in Messages
  BY <1>1, ByteCountRest DEF rest
<1> HIDE DEF e, q
<1>13. QueuesFit(c) => QueuesFit(e)
  <2> SUFFICES ASSUME QueuesFit(c), rest # << >>
               PROVE  ByteCount(rest) < kMaxQueuedSendDataBytes + Size[Last(rest)]
    BY <1>8 DEF QueuesFit
  <2>1. ByteCount(q) < kMaxQueuedSendDataBytes + Size[Last(q)]
    BY <1>12 DEF QueuesFit, q
  <2>2. Size[Last(q)] \in Nat
    BY <1>12, SizeAssumption
  <2> QED
    BY <1>12, <2>1, <2>2, LimitAssumption
<1>14. KeepsIncoming(c, e) /\ StaysDrained(c, e)
  BY <1>8, <1>13 DEF KeepsIncoming, StaysDrained, Incoming, NothingWaits
<1>9. Step(c, e)
  <2> DEFINE x == c.sent
  <2>1. x \in Seq(Messages)
    BY <1>1
  <2>2. Outgoing(e) = (x \o first) \o rest /\ Outgoing(c) = x \o q
    BY <1>8 DEF Outgoing, q
  <2>3. c.state = "Closed" => e.sent = c.sent
    <3>1. c.state = "Closed" => n = 0
      BY <1>2, <1>5, <1>1
    <3>2. n = 0 => first = << >>
      BY <1>2
    <3> QED
      BY <3>1, <3>2, <1>8, <2>1, ConcatEmptySeq
  <2> HIDE DEF x
  <2>4. (x \o first) \o rest = x \o (first \o rest)
    BY <2>1, <1>2, ConcatAssociative
  <2> QED
    BY <1>3, <1>8, <1>14, <2>2, <2>3, <2>4 DEF Step, Move, Forward
<1> HIDE DEF result
<1>10. CASE n = Len(q)
  BY <1>6, <1>9, <1>10 DEF result
<1>11. CASE n # Len(q)
  <2> DEFINE d == SendDataMessage(e, q[n + 1], FALSE, r)
  <2>1. /\ ChannelInv(d) /\ Forward(e, d) /\ Outgoing(d) = Outgoing(e)
        /\ KeepsIncoming(e, d) /\ StaysDrained(e, d)
    BY <1>7, <1>8, <1>11, SendDataMessageLemma
  <2> HIDE DEF d
  <2>2. Step(e, d)
    BY <2>1 DEF Step, Move
  <2>3. result = d
    BY <1>6, <1>11 DEF d
  <2> QED
    BY <1>9, <2>2, <2>3, StepTransitive DEF result
<1> QED
  BY <1>10, <1>11

-----------------------------------------------------------------------------
(* Receiving and opening *)

\* The parts the invariant speaks of that belong to sending; with those of receiving;
\* and with those of the connection.
SameSending(c, d) ==
  /\ d.dct = c.dct /\ d.role = c.role /\ d.state = c.state
  /\ d.handshake_state = c.handshake_state /\ d.heard = c.heard
  /\ d.wire = c.wire /\ d.sent = c.sent /\ d.queued_send = c.queued_send
  /\ d.closed_signals = c.closed_signals

SameCore(c, d) ==
  /\ SameSending(c, d)
  /\ d.delivered = c.delivered /\ d.queued_received = c.queued_received
  /\ d.observer = c.observer

SameConnection(c, d) ==
  /\ d.send_ssrc_set = c.send_ssrc_set /\ d.receive_ssrc_set = c.receive_ssrc_set
  /\ d.stream = c.stream /\ d.connected_to_provider = c.connected_to_provider
  /\ d.has_sid = c.has_sid /\ d.transport = c.transport

LEMMA SameSendingInv ==
  ASSUME NEW c, ChannelInv(c), NEW d \in Channel, SameSending(c, d), SctpConnection(d)
  PROVE  ChannelInv(d) /\ Forward(c, d) /\ Outgoing(d) = Outgoing(c)
<1>1. HandshakeFitsRole(d) /\ OpenedAfterHandshake(d) /\ OpenerWire(d)
  BY DEF SameSending, ChannelInv, HandshakeFitsRole, OpenedAfterHandshake, OpenerWire
<1>2. QueueState(d) /\ SignalledOnce(d)
  BY DEF SameSending, ChannelInv, QueueState, SignalledOnce
<1>3. Forward(c, d) /\ Outgoing(d) = Outgoing(c)
  BY DEF SameSending, Forward, Outgoing
<1> QED
  BY <1>1, <1>2, <1>3 DEF ChannelInv

LEMMA SameCoreStep ==
  ASSUME NEW c, ChannelInv(c), NEW d \in Channel, SameCore(c, d), SctpConnection(d)
  PROVE  Step(c, d)
<1>1. ChannelInv(d) /\ Forward(c, d) /\ Outgoing(d) = Outgoing(c)
  BY SameSendingInv DEF SameCore
<1>2. KeepsIncoming(c, d) /\ StaysDrained(c, d)
  BY DEF SameCore, SameSending, KeepsIncoming, StaysDrained, Incoming, QueuesFit, NothingWaits
<1> QED
  BY <1>1, <1>2 DEF Step, Move

LEMMA SameStep ==
  ASSUME NEW c, ChannelInv(c), NEW d \in Channel, SameCore(c, d), SameConnection(c, d)
  PROVE  Step(c, d)
<1>1. SctpConnection(d)
  BY DEF SameCore, SameSending, SameConnection, ChannelInv, SctpConnection
<1> QED
  BY <1>1, SameCoreStep

\* The channel after what was delivered or what waits changed.
WithIncoming(c, s, q) == [c EXCEPT !.delivered = s, !.queued_received = q]

LEMMA WithIncomingLemma ==
  ASSUME NEW c, ChannelInv(c), NEW s \in Seq(Messages), NEW q \in Seq(Messages),
         NEW d, d = WithIncoming(c, s, q)
  PROVE  /\ ChannelInv(d) /\ Forward(c, d) /\ Outgoing(d) = Outgoing(c)
         /\ d.delivered = s /\ d.queued_received = q /\ d.observer = c.observer
         /\ d.queued_send = c.queued_send /\ d.state = c.state
<1>1. c \in Channel
  BY DEF ChannelInv
<1>2. d \in Channel
  BY <1>1 DEF Channel, WithIncoming
<1>3. SameSending(c, d) /\ SameConnection(c, d)
  BY <1>1 DEF Channel, SameSending, SameConnection, WithIncoming
<1>4. d.delivered = s /\ d.queued_received = q /\ d.observer = c.observer
  BY <1>1 DEF Channel, WithIncoming
<1>5. SctpConnection(d)
  BY <1>3 DEF SameSending, SameConnection, ChannelInv, SctpConnection
<1>6. ChannelInv(d) /\ Forward(c, d) /\ Outgoing(d) = Outgoing(c)
  BY <1>2, <1>3, <1>5, SameSendingInv
<1>7. d.queued_send = c.queued_send /\ d.state = c.state
  BY <1>3 DEF SameSending
<1> QED
  BY <1>4, <1>6, <1>7

LEMMA IncomingType ==
  ASSUME NEW c, ChannelInv(c)
  PROVE  /\ c \in Channel /\ c.delivered \in Seq(Messages) /\ c.queued_received \in Seq(Messages)
         /\ c.observer \in BOOLEAN /\ << >> \in Seq(Messages)
  BY DEF ChannelInv, Channel

\* Delivering moves the queue to the observer, and leaves nothing waiting for it.
LEMMA DeliverLemma ==
  ASSUME NEW c, ChannelInv(c)
  PROVE  /\ Move(c, DeliverQueuedReceivedData(c))
         /\ NothingWaits(DeliverQueuedReceivedData(c))
<1> DEFINE s == c.delivered \o c.queued_received
           d == WithIncoming(c, s, << >>)
<1>1. /\ c \in Channel /\ c.delivered \in Seq(Messages) /\ c.queued_received \in Seq(Messages)
      /\ c.observer \in BOOLEAN /\ << >> \in Seq(Messages)
  BY IncomingType
<1>2. s \in Seq(Messages)
  BY <1>1
<1>3. CASE c.observer
  <2>1. DeliverQueuedReceivedData(c) = d
    BY <1>1, <1>3 DEF DeliverQueuedReceivedData, WithIncoming, Channel
  <2> HIDE DEF s
  <2>2. /\ ChannelInv(d) /\ Forward(c, d) /\ Outgoing(d) = Outgoing(c)
        /\ d.delivered = s /\ d.queued_received = << >> /\ d.queued_send = c.queued_send
    <3> DEFINE q == << >>
    <3>1. q \in Seq(Messages) /\ d = WithIncoming(c, s, q)
      OBVIOUS
    <3> HIDE DEF q, d
    <3>2. /\ ChannelInv(d) /\ Forward(c, d) /\ Outgoing(d) = Outgoing(c)
          /\ d.delivered = s /\ d.queued_received = q /\ d.queued_send = c.queued_send
      BY <1>2, <3>1, WithIncomingLemma
    <3> QED
      BY <3>2 DEF q
  <2> HIDE DEF d
  <2>3. s \o << >> = s
    BY <1>2, ConcatEmptySeq
  <2>4. Incoming(d) = Incoming(c)
    BY <2>2, <2>3 DEF Incoming, s
  <2>5. QueuesFit(c) => QueuesFit(d)
    BY <2>2, ByteCountEmpty, LimitAssumption DEF QueuesFit
  <2> QED
    BY <2>1, <2>2, <2>4, <2>5 DEF Move, KeepsIncoming, NothingWaits
<1>4. CASE ~c.observer
  BY <1>4, StepReflexive DEF DeliverQueuedReceivedData, Step, NothingWaits
<1> QED
  BY <1>3, <1>4

\* A connected channel whose handshake went out and that is writable opens.
LEMMA OpenLemma ==
  ASSUME NEW c, ChannelInv(c), c.state = "Connecting",
         c.handshake_state \in {"Ready", "WaitingForAck"}
  PROVE  Move(c, SetState(c, "Open"))
<1> DEFINE d == SetState(c, "Open")
<1>1. c \in Channel /\ d \in Channel
  BY SetStateType DEF ChannelInv, DataState
<1>2. d.state = "Open" /\ d.closed_signals = c.closed_signals
      /\ d.connected_to_provider = c.connected_to_provider /\ Frame(c, d) /\ d.stream = c.stream
      /\ d.send_ssrc_set = c.send_ssrc_set /\ d.receive_ssrc_set = c.receive_ssrc_set
  BY <1>1 DEF SetState, Channel, Frame
<1> HIDE DEF d
<1>3. HandshakeFitsRole(d) /\ OpenedAfterHandshake(d) /\ OpenerWire(d)
  BY <1>2 DEF Frame, ChannelInv, HandshakeFitsRole, OpenedAfterHandshake, OpenerWire
<1>4. SctpConnection(d) /\ QueueState(d) /\ SignalledOnce(d)
  BY <1>2 DEF Frame, ChannelInv, SctpConnection, QueueState, SignalledOnce
<1>5. Forward(c, d) /\ Outgoing(d) = Outgoing(c)
  BY <1>2 DEF Forward, Outgoing, Frame, DataState
<1>6. ChannelInv(d)
  BY <1>1, <1>3, <1>4 DEF ChannelInv
<1>7. KeepsIncoming(c, d)
  BY <1>2 DEF Frame, KeepsIncoming, Incoming, QueuesFit
<1> QED
  BY <1>5, <1>6, <1>7 DEF Move, d

\* RTP: the provider is connected when the SSRCs agree.
LEMMA RtpConnectLemma ==
  ASSUME NEW c, ChannelInv(c), c.dct = "RTP", NEW b \in BOOLEAN
  PROVE  Step(c, [c EXCEPT !.connected_to_provider = b])
<1> DEFINE d == [c EXCEPT !.connected_to_provider = b]
<1>1. c \in Channel
  BY DEF ChannelInv
<1>2. d \in Channel
  BY <1>1 DEF Channel
<1>3. SameCore(c, d)
  BY <1>1 DEF Channel, SameCore, SameSending
<1> HIDE DEF d
<1>4. SctpConnection(d)
  BY <1>3 DEF SctpConnection, SameCore, SameSending
<1> QED
  BY <1>2, <1>3, <1>4, SameCoreStep DEF d

\* A refused control message closes the channel before its handshake goes out.
LEMMA RefusedControl ==
  ASSUME NEW c, ChannelInv(c), NEW r \in SendDataResult
  PROVE  \/ SendControlMessage(c, r).state = c.state
         \/ SendControlMessage(c, r).handshake_state = c.handshake_state
<1>1. c \in Channel
  BY DEF ChannelInv
<1>2. CASE r = "SUCCESS"
  BY <1>1, <1>2 DEF SendControlMessage, ControlAccepted, Channel
<1>3. CASE r = "BLOCK"
  BY <1>1, <1>3 DEF SendControlMessage, Channel
<1>4. CASE r = "ERROR"
  <2> DEFINE f == [c EXCEPT !.failed = TRUE]
  <2>1. ChannelInv(f)
    BY FailedLemma
  <2>2. f.handshake_state = c.handshake_state
    BY <1>1 DEF Channel
  <2>3. SendControlMessage(c, r) = Close(f)
    BY <1>4 DEF SendControlMessage
  <2> HIDE DEF f
  <2> QED
    BY <2>1, <2>2, <2>3, CloseLemma DEF Frame
<1> QED
  BY <1>2, <1>3, <1>4 DEF SendDataResult

LEMMA UpdateStateLemma ==
  ASSUME NEW c, ChannelInv(c), NEW r \in SendDataResult
  PROVE  Step(c, UpdateState(c, r))
<1>0. c \in Channel
  BY DEF ChannelInv
<1>1. CASE c.state = "Connecting" /\ c.send_ssrc_set = c.receive_ssrc_set
  <2> DEFINE d == IF c.dct = "RTP" /\ ~c.connected_to_provider
                  THEN [c EXCEPT !.connected_to_provider = c.transport] ELSE c
             e == IF d.handshake_state \in {"ShouldSendOpen", "ShouldSendAck"}
                  THEN SendControlMessage(d, r) ELSE d
             opens == e.writable /\ e.handshake_state \in {"Ready", "WaitingForAck"}
             o == SetState(e, "Open")
             u == UpdateState(c, r)
  <2>1. u = IF ~d.connected_to_provider THEN d
            ELSE IF opens THEN DeliverQueuedReceivedData(o) ELSE e
    BY <1>1 DEF UpdateState
  <2>2. Step(c, d) /\ d.state = "Connecting"
    <3>1. CASE c.dct = "RTP" /\ ~c.connected_to_provider
      <4>1. c.transport \in BOOLEAN
        BY <1>0 DEF Channel
      <4>2. d.state = c.state
        BY <1>0 DEF Channel
      <4> QED
        BY <1>1, <3>1, <4>1, <4>2, RtpConnectLemma
    <3>2. CASE ~(c.dct = "RTP" /\ ~c.connected_to_provider)
      BY <1>1, <3>2, StepReflexive
    <3> QED
      BY <3>1, <3>2
  <2> HIDE DEF d
  <2>3. ChannelInv(d)
    BY <2>2 DEF Step, Move
  <2>4. Step(d, e)
    BY <2>3, StepReflexive, SendControlMessageLemma, KeepsDataStep
  <2>5. opens => e.state = "Connecting"
    BY <2>2, <2>3, RefusedControl
  <2> HIDE DEF e
  <2>6. opens => Move(e, o)
    BY <2>4, <2>5, OpenLemma DEF Step, Move
  <2> HIDE DEF o
  <2>7. opens => /\ Move(o, DeliverQueuedReceivedData(o))
                 /\ NothingWaits(DeliverQueuedReceivedData(o))
    BY <2>6, DeliverLemma DEF Move
  <2> HIDE DEF opens, u
  <2>8. u \in {d, e, DeliverQueuedReceivedData(o)} /\ (u = DeliverQueuedReceivedData(o) => opens \/ u \in {d, e})
    BY <2>1
  <2>9. Step(c, e)
    BY <2>2, <2>4, StepTransitive
  <2>10. opens => Step(c, DeliverQueuedReceivedData(o))
    BY <2>6, <2>7, <2>9, MoveTransitive DEF Step, StaysDrained
  <2> QED
    BY <2>2, <2>8, <2>9, <2>10 DEF u
<1>2. CASE c.state = "Closing"
  <2>1. UpdateState(c, r) = UpdateClosing(c)
    BY <1>2 DEF UpdateState
  <2>2. Frame(c, c) /\ (c.dct = "SCTP" => ~c.send_ssrc_set /\ ~c.receive_ssrc_set)
    BY DEF Frame, ChannelInv, SctpConnection
  <2> DEFINE d == UpdateClosing(c)
  <2>3. ChannelInv(d) /\ Frame(c, d) /\ d.state \in {"Closing", "Closed"}
    BY <1>0, <1>2, <2>2, BeginClosing
  <2> HIDE DEF d
  <2>4. KeepsData(c, d)
    BY <1>2, <2>3 DEF Frame, KeepsData
  <2> QED
    BY <2>1, <2>3, <2>4, KeepsDataStep DEF d
<1>3. CASE ~(c.state = "Connecting" /\ c.send_ssrc_set = c.receive_ssrc_set) /\ c.state # "Closing"
  BY <1>3, StepReflexive DEF UpdateState
<1> QED
  BY <1>1, <1>2, <1>3

LEMMA OnChannelReadyLemma ==
  ASSUME NEW c, ChannelInv(c), NEW answers, answers \in Answers(c)
  PROVE  Step(c, OnChannelReady(c, TRUE, answers))
<1> DEFINE c0 == [c EXCEPT !.writable = TRUE]
           c1 == SendQueuedControlMessages(c0, answers.control)
           c2 == SendQueuedDataMessages(c1, answers.n, answers.data)
<1>1. /\ answers.n \in 0 .. Len(c.queued_send)
      /\ answers.data \in SendDataResult \ {"SUCCESS"}
      /\ answers.handshake \in SendDataResult
  BY DEF Answers, DataResults, ControlResults, SendDataResult
<1>2. Step(c, c0) /\ c0.queued_send = c.queued_send
  <2>1. c \in Channel
    BY DEF ChannelInv
  <2>2. c0 \in Channel
    BY <2>1 DEF Channel
  <2>3. SameCore(c, c0) /\ SameConnection(c, c0)
    BY <2>1 DEF Channel, SameCore, SameSending, SameConnection
  <2> HIDE DEF c0
  <2> QED
    BY <2>2, <2>3, SameStep DEF SameCore, SameSending, SameConnection
<1>3. OnChannelReady(c, TRUE, answers) = UpdateState(c2, answers.handshake)
  BY DEF OnChannelReady
<1> HIDE DEF c0
<1>4. ChannelInv(c0)
  BY <1>2 DEF Step, Move
<1>5. ChannelInv(c1) /\ KeepsData(c0, c1)
  BY <1>4, SendQueuedControlMessagesLemma
<1> HIDE DEF c1
<1>6. Step(c0, c1) /\ c1.queued_send = c.queued_send
  BY <1>2, <1>4, <1>5, KeepsDataStep DEF KeepsData
<1>7. Step(c1, c2)
  BY <1>1, <1>5, <1>6, SendQueuedDataMessagesLemma
<1> HIDE DEF c2
<1>8. Step(c2, UpdateState(c2, answers.handshake))
  BY <1>1, <1>7, UpdateStateLemma DEF Step, Move
<1>9. Step(c, c2)
  BY <1>2, <1>6, <1>7, StepTransitive
<1> QED
  BY <1>3, <1>8, <1>9, StepTransitive

\* The remote side was heard: a channel waiting for the ACK is ready.
Heard(c) == [c EXCEPT !.heard = TRUE,
                      !.handshake_state = IF @ = "WaitingForAck" THEN "Ready" ELSE @]

LEMMA HeardLemma ==
  ASSUME NEW c, ChannelInv(c)
  PROVE  Step(c, Heard(c))
<1> DEFINE h == IF c.handshake_state = "WaitingForAck" THEN "Ready" ELSE c.handshake_state
           d == Heard(c)
<1>1. c \in Channel
  BY DEF ChannelInv
<1>2. h \in HandshakeState
  BY <1>1 DEF Channel, HandshakeState
<1>3. d \in Channel
  BY <1>1, <1>2 DEF Channel, Heard
<1>4. /\ d.heard = TRUE /\ d.handshake_state = h
      /\ d.dct = c.dct /\ d.role = c.role /\ d.state = c.state
      /\ d.wire = c.wire /\ d.sent = c.sent /\ d.queued_send = c.queued_send
      /\ d.send_ssrc_set = c.send_ssrc_set /\ d.receive_ssrc_set = c.receive_ssrc_set
      /\ d.stream = c.stream /\ d.connected_to_provider = c.connected_to_provider
      /\ d.has_sid = c.has_sid /\ d.transport = c.transport
      /\ d.closed_signals = c.closed_signals /\ d.observer = c.observer
      /\ d.delivered = c.delivered /\ d.queued_received = c.queued_received
  BY <1>1 DEF Channel, Heard
<1> HIDE DEF d
<1>5. HandshakeFitsRole(d) /\ OpenedAfterHandshake(d) /\ OpenerWire(d)
  BY <1>4 DEF ChannelInv, HandshakeFitsRole, OpenedAfterHandshake, OpenerWire
<1>6. SctpConnection(d) /\ QueueState(d) /\ SignalledOnce(d)
  BY <1>4 DEF ChannelInv, SctpConnection, QueueState, SignalledOnce
<1>7. Forward(c, d) /\ Outgoing(d) = Outgoing(c)
  BY <1>4 DEF Forward, Outgoing
<1>8. KeepsIncoming(c, d) /\ StaysDrained(c, d)
  BY <1>4 DEF KeepsIncoming, StaysDrained, Incoming, QueuesFit, NothingWaits
<1> QED
  BY <1>3, <1>5, <1>6, <1>7, <1>8 DEF Step, Move, ChannelInv, d

\* A message is given to the observer or joins the queue; one that does not fit drops
\* the queue with it, and what is left is what was delivered.
LEMMA OnDataReceivedLemma ==
  ASSUME NEW c, ChannelInv(c), QueuesFit(c), NothingWaits(c), NEW m \in Messages
  PROVE  LET d == OnDataReceived(c, m) IN
         /\ ChannelInv(d) /\ Forward(c, d) /\ Outgoing(d) = Outgoing(c)
         /\ QueuesFit(d) /\ NothingWaits(d)
         /\ Incoming(d) = Append(Incoming(c), m) \/ Incoming(d) = c.delivered
<1> DEFINE d == Heard(c)
           over == ByteCount(d.queued_received) + Size[m] > kMaxQueuedReceivedDataBytes
           open == d.state = "Open" /\ d.observer
           given == WithIncoming(d, Append(d.delivered, m), d.queued_received)
           queued == WithIncoming(d, d.delivered, Append(d.queued_received, m))
           dropped == WithIncoming(d, d.delivered, << >>)
           result == OnDataReceived(c, m)
<1>1. Step(c, d) /\ d.delivered = c.delivered /\ d.queued_received = c.queued_received
  <2>1. c \in Channel
    BY DEF ChannelInv
  <2> QED
    BY <2>1, HeardLemma DEF Heard, Channel
<1>2. ChannelInv(d) /\ QueuesFit(d) /\ NothingWaits(d)
  BY <1>1 DEF Step, Move, KeepsIncoming, StaysDrained
<1>3. /\ d \in Channel /\ d.delivered \in Seq(Messages) /\ d.queued_received \in Seq(Messages)
      /\ d.observer \in BOOLEAN /\ << >> \in Seq(Messages)
  BY <1>2, IncomingType
<1>4. /\ Append(d.delivered, m) \in Seq(Messages)
      /\ Append(d.queued_received, m) \in Seq(Messages)
  BY <1>3
<1>5. /\ open => result = given
      /\ ~open /\ ~over => result = queued
      /\ ~open /\ over => result = IF d.dct # "RTP" THEN Close(dropped) ELSE dropped
  <2>1. /\ given = [d EXCEPT !.delivered = Append(@, m)]
        /\ queued = [d EXCEPT !.queued_received = Append(@, m)]
        /\ dropped = [d EXCEPT !.queued_received = << >>]
    BY <1>3 DEF WithIncoming, Channel
  <2> HIDE DEF given, queued, dropped
  <2> QED
    BY <2>1 DEF OnDataReceived, Heard
<1> HIDE DEF d, result
<1>6. ASSUME NEW e, ChannelInv(e), Forward(d, e), Outgoing(e) = Outgoing(d)
      PROVE  ChannelInv(e) /\ Forward(c, e) /\ Outgoing(e) = Outgoing(c)
  BY <1>1, <1>6, ForwardTransitive DEF Step, Move
<1>7. CASE open
  <2>1. /\ ChannelInv(given) /\ Forward(d, given) /\ Outgoing(given) = Outgoing(d)
        /\ given.delivered = Append(d.delivered, m) /\ given.queued_received = d.queued_received
        /\ given.queued_send = d.queued_send
    <3> DEFINE s == Append(d.delivered, m)
               q == d.queued_received
    <3>1. s \in Seq(Messages) /\ q \in Seq(Messages) /\ given = WithIncoming(d, s, q)
      BY <1>3, <1>4
    <3> HIDE DEF s, q, given
    <3>2. /\ ChannelInv(given) /\ Forward(d, given) /\ Outgoing(given) = Outgoing(d)
          /\ given.delivered = s /\ given.queued_received = q
          /\ given.queued_send = d.queued_send
      BY <1>2, <3>1, WithIncomingLemma
    <3> QED
      BY <3>2 DEF s, q
  <2> HIDE DEF given
  <2>2. d.queued_received = << >>
    BY <1>2, <1>7 DEF NothingWaits
  <2>3. Incoming(given) = Append(Incoming(c), m)
    BY <1>1, <1>3, <1>4, <2>1, <2>2, ConcatEmptySeq DEF Incoming
  <2>4. QueuesFit(given) /\ NothingWaits(given)
    BY <1>2, <2>1, <2>2 DEF QueuesFit, NothingWaits
  <2> QED
    BY <1>5, <1>6, <1>7, <2>1, <2>3, <2>4 DEF result
<1>8. CASE ~open /\ ~over
  <2>1. /\ ChannelInv(queued) /\ Forward(d, queued) /\ Outgoing(queued) = Outgoing(d)
        /\ queued.delivered = d.delivered /\ queued.queued_received = Append(d.queued_received, m)
        /\ queued.queued_send = d.queued_send
        /\ queued.observer = d.observer /\ queued.state = d.state
    <3> DEFINE s == d.delivered
               q == Append(d.queued_received, m)
    <3>1. s \in Seq(Messages) /\ q \in Seq(Messages) /\ queued = WithIncoming(d, s, q)
      BY <1>3, <1>4
    <3> HIDE DEF s, q, queued
    <3>2. /\ ChannelInv(queued) /\ Forward(d, queued) /\ Outgoing(queued) = Outgoing(d)
          /\ queued.delivered = s /\ queued.queued_received = q
          /\ queued.queued_send = d.queued_send
          /\ queued.observer = d.observer /\ queued.state = d.state
      BY <1>2, <3>1, WithIncomingLemma
    <3> QED
      BY <3>2 DEF s, q
  <2> HIDE DEF queued
  <2>2. Incoming(queued) = Append(Incoming(c), m)
    <3> DEFINE x == d.delivered
               y == d.queued_received
    <3>1. x \in Seq(Messages) /\ y \in Seq(Messages) /\ <<m>> \in Seq(Messages)
      BY <1>3
    <3>2. Incoming(queued) = x \o Append(y, m) /\ Incoming(c) = x \o y
      BY <1>1, <2>1 DEF Incoming
    <3> HIDE DEF x, y
    <3>3. Append(y, m) = y \o <<m>> /\ Append(x \o y, m) = (x \o y) \o <<m>>
      BY <3>1, AppendIsConcat, ConcatProperties
    <3>4. (x \o y) \o <<m>> = x \o (y \o <<m>>)
      BY <3>1, ConcatAssociative
    <3> QED
      BY <3>2, <3>3, <3>4
  <2>3. ByteCount(queued.queued_received) <= kMaxQueuedReceivedDataBytes
    <3>1. /\ ByteCount(d.queued_received) \in Nat /\ Size[m] \in Nat
          /\ ByteCount(Append(d.queued_received, m)) = ByteCount(d.queued_received) + Size[m]
      BY <1>3, ByteCountAppend
    <3> QED
      BY <1>8, <2>1, <3>1, LimitAssumption
  <2>4. QueuesFit(queued) /\ NothingWaits(queued)
    BY <1>2, <1>8, <2>1, <2>3 DEF QueuesFit, NothingWaits
  <2> QED
    BY <1>5, <1>6, <1>8, <2>1, <2>2, <2>4 DEF result
<1>9. CASE ~open /\ over
  <2>1. /\ ChannelInv(dropped) /\ Forward(d, dropped) /\ Outgoing(dropped) = Outgoing(d)
        /\ dropped.delivered = d.delivered /\ dropped.queued_received = << >>
        /\ dropped.queued_send = d.queued_send
    <3> DEFINE s == d.delivered
               q == << >>
    <3>1. s \in Seq(Messages) /\ q \in Seq(Messages) /\ dropped = WithIncoming(d, s, q)
      BY <1>3, <1>4
    <3> HIDE DEF s, q, dropped
    <3>2. /\ ChannelInv(dropped) /\ Forward(d, dropped) /\ Outgoing(dropped) = Outgoing(d)
          /\ dropped.delivered = s /\ dropped.queued_received = q
          /\ dropped.queued_send = d.queued_send
      BY <1>2, <3>1, WithIncomingLemma
    <3> QED
      BY <3>2 DEF s, q
  <2> HIDE DEF dropped
  <2>2. Incoming(dropped) = c.delivered
    BY <1>1, <1>3, <2>1, ConcatEmptySeq DEF Incoming
  <2>3. QueuesFit(dropped) /\ NothingWaits(dropped)
    BY <1>2, <2>1, ByteCountEmpty, LimitAssumption DEF QueuesFit, NothingWaits
  <2>4. Step(dropped, Close(dropped))
    BY <2>1, CloseKeepsData, KeepsDataStep
  <2> DEFINE e == Close(dropped)
  <2>5. /\ ChannelInv(e) /\ Forward(dropped, e) /\ Outgoing(e) = Outgoing(dropped)
        /\ Incoming(e) = Incoming(dropped) /\ QueuesFit(e) /\ NothingWaits(e)
    BY <2>3, <2>4 DEF Step, Move, KeepsIncoming, StaysDrained
  <2> HIDE DEF e
  <2>6. Forward(d, e) /\ Outgoing(e) = Outgoing(d)
    BY <2>1, <2>5, ForwardTransitive
  <2>7. result \in {dropped, e}
    BY <1>5, <1>9 DEF e
  <2>8. ChannelInv(dropped) /\ Forward(c, dropped) /\ Outgoing(dropped) = Outgoing(c)
    BY <1>6, <2>1
  <2>9. ChannelInv(e) /\ Forward(c, e) /\ Outgoing(e) = Outgoing(c)
    BY <1>6, <2>5, <2>6
  <2> QED
    BY <2>2, <2>3, <2>5, <2>7, <2>8, <2>9 DEF result
<1> QED
  BY <1>7, <1>8, <1>9

-----------------------------------------------------------------------------
(* The calls of the session *)

LEMMA TransportCreatedLemma ==
  ASSUME NEW c, ChannelInv(c)
  PROVE  LET d == [c EXCEPT !.transport = TRUE]
         IN Step(c, IF c.dct = "SCTP" /\ c.state # "Closed"
                    THEN OnTransportChannelCreated(d) ELSE d)
<1> DEFINE d == [c EXCEPT !.transport = TRUE]
           e == OnTransportChannelCreated(d)
<1>1. c \in Channel
  BY DEF ChannelInv
<1>2. d \in Channel
  BY <1>1 DEF Channel
<1>3. SameCore(c, d) /\ d.transport = TRUE
      /\ d.send_ssrc_set = c.send_ssrc_set /\ d.receive_ssrc_set = c.receive_ssrc_set
      /\ d.stream = c.stream /\ d.connected_to_provider = c.connected_to_provider
      /\ d.has_sid = c.has_sid
  BY <1>1 DEF Channel, SameCore, SameSending
<1> HIDE DEF d
<1>4. CASE c.dct = "SCTP" /\ c.state # "Closed"
  <2>1. e \in Channel
    BY <1>2 DEF Channel, OnTransportChannelCreated
  <2>2. SameCore(d, e) /\ e.connected_to_provider /\ e.transport
        /\ e.send_ssrc_set = d.send_ssrc_set /\ e.receive_ssrc_set = d.receive_ssrc_set
        /\ (e.stream => d.stream \/ d.has_sid) /\ e.has_sid = d.has_sid
    BY <1>2, <1>3 DEF Channel, OnTransportChannelCreated, SameCore, SameSending
  <2> HIDE DEF e
  <2>3. SameCore(c, e)
    BY <1>3, <2>2 DEF SameCore, SameSending
  <2>4. SctpConnection(e)
    BY <1>3, <1>4, <2>2 DEF SameCore, SameSending, ChannelInv, SctpConnection
  <2> QED
    BY <1>4, <2>1, <2>3, <2>4, SameCoreStep DEF d, e
<1>5. CASE ~(c.dct = "SCTP" /\ c.state # "Closed")
  <2>1. SctpConnection(d)
    BY <1>3, <1>5 DEF SameCore, SameSending, ChannelInv, SctpConnection
  <2> QED
    BY <1>2, <1>3, <1>5, <2>1, SameCoreStep DEF d
<1> QED
  BY <1>4, <1>5

LEMMA TransportDestroyedLemma ==
  ASSUME NEW c, ChannelInv(c)
  PROVE  Step(c, [DoClose(c) EXCEPT !.transport = FALSE])
<1> DEFINE d == DoClose(c)
           e == [d EXCEPT !.transport = FALSE]
<1>1. ChannelInv(d) /\ KeepsData(c, d)
  BY DoCloseLemma DEF Frame, KeepsData
<1> HIDE DEF d
<1>2. d \in Channel
  BY <1>1 DEF ChannelInv
<1>3. e \in Channel
  BY <1>2 DEF Channel
<1>4. SameCore(d, e) /\ e.transport = FALSE
      /\ e.send_ssrc_set = d.send_ssrc_set /\ e.receive_ssrc_set = d.receive_ssrc_set
      /\ e.stream = d.stream /\ e.connected_to_provider = d.connected_to_provider
      /\ e.has_sid = d.has_sid
  BY <1>2 DEF Channel, SameCore, SameSending
<1> HIDE DEF e
<1>5. SctpConnection(e)
  BY <1>1, <1>4 DEF SameCore, SameSending, ChannelInv, SctpConnection
<1>6. Step(d, e)
  BY <1>1, <1>3, <1>4, <1>5, SameCoreStep
<1> QED
  BY <1>1, <1>6, KeepsDataStep, StepTransitive DEF d, e

LEMMA SetSctpSidLemma ==
  ASSUME NEW c, ChannelInv(c), c.dct = "SCTP", c.transport, c.state # "Closed"
  PROVE  Step(c, SetSctpSid(c))
<1> DEFINE d == SetSctpSid(c)
<1>1. c \in Channel
  BY DEF ChannelInv
<1>2. d \in Channel
  BY <1>1 DEF Channel, SetSctpSid
<1>3. SameCore(c, d) /\ d.has_sid
      /\ d.send_ssrc_set = c.send_ssrc_set /\ d.receive_ssrc_set = c.receive_ssrc_set
      /\ d.connected_to_provider = c.connected_to_provider
  BY <1>1 DEF Channel, SetSctpSid, SameCore, SameSending
<1> HIDE DEF d
<1>4. SctpConnection(d)
  BY <1>3 DEF SameCore, SameSending, ChannelInv, SctpConnection
<1> QED
  BY <1>2, <1>3, <1>4, SameCoreStep DEF d

LEMMA StreamResetLemma ==
  ASSUME NEW c, ChannelInv(c)
  PROVE  Step(c, [c EXCEPT !.stream = FALSE])
<1> DEFINE d == [c EXCEPT !.stream = FALSE]
<1>1. c \in Channel
  BY DEF ChannelInv
<1>2. d \in Channel
  BY <1>1 DEF Channel
<1>3. SameCore(c, d) /\ d.stream = FALSE /\ d.transport = c.transport
      /\ d.send_ssrc_set = c.send_ssrc_set /\ d.receive_ssrc_set = c.receive_ssrc_set
      /\ d.connected_to_provider = c.connected_to_provider /\ d.has_sid = c.has_sid
  BY <1>1 DEF Channel, SameCore, SameSending
<1> HIDE DEF d
<1>4. SctpConnection(d)
  BY <1>3 DEF SameCore, SameSending, ChannelInv, SctpConnection
<1> QED
  BY <1>2, <1>3, <1>4, SameCoreStep DEF d

LEMMA SetSsrcLemma ==
  ASSUME NEW c, ChannelInv(c), c.dct = "RTP"
  PROVE  Step(c, SetSendSsrc(c)) /\ Step(c, SetReceiveSsrc(c))
<1> DEFINE d == [c EXCEPT !.send_ssrc_set = TRUE]
           e == [c EXCEPT !.receive_ssrc_set = TRUE]
<1>1. c \in Channel
  BY DEF ChannelInv
<1>2. d \in Channel /\ SameCore(c, d)
  BY <1>1 DEF Channel, SameCore, SameSending
<1>3. e \in Channel /\ SameCore(c, e)
  BY <1>1 DEF Channel, SameCore, SameSending
<1> HIDE DEF d, e
<1>4. SctpConnection(d) /\ SctpConnection(e)
  BY <1>2, <1>3 DEF SameCore, SameSending, SctpConnection
<1>5. Step(c, d) /\ Step(c, e)
  BY <1>2, <1>3, <1>4, SameCoreStep
<1>6. "ERROR" \in SendDataResult
  BY DEF SendDataResult
<1>7. Step(d, UpdateState(d, "ERROR")) /\ Step(e, UpdateState(e, "ERROR"))
  BY <1>5, <1>6, UpdateStateLemma DEF Step, Move
<1>8. Step(c, UpdateState(d, "ERROR")) /\ Step(c, UpdateState(e, "ERROR"))
  BY <1>5, <1>7, StepTransitive
<1>9. SetSendSsrc(c) = c \/ SetSendSsrc(c) = UpdateState(d, "ERROR")
  BY DEF SetSendSsrc, d
<1>10. SetReceiveSsrc(c) = c \/ SetReceiveSsrc(c) = UpdateState(e, "ERROR")
  BY DEF SetReceiveSsrc, e
<1> QED
  BY <1>8, <1>9, <1>10, StepReflexive

LEMMA ObserverLemma ==
  ASSUME NEW c, ChannelInv(c), NEW b \in BOOLEAN
  PROVE  LET d == [c EXCEPT !.observer = b] IN Move(c, d) /\ (~b => NothingWaits(d))
<1> DEFINE d == [c EXCEPT !.observer = b]
<1>1. c \in Channel
  BY DEF ChannelInv
<1>2. d \in Channel
  BY <1>1 DEF Channel
<1>3. /\ SameSending(c, d) /\ SameConnection(c, d) /\ d.observer = b
      /\ d.delivered = c.delivered /\ d.queued_received = c.queued_received
  BY <1>1 DEF Channel, SameSending, SameConnection
<1> HIDE DEF d
<1>4. SctpConnection(d)
  BY <1>3 DEF SameSending, SameConnection, ChannelInv, SctpConnection
<1>5. ChannelInv(d) /\ Forward(c, d) /\ Outgoing(d) = Outgoing(c)
  BY <1>2, <1>3, <1>4, SameSendingInv
<1>6. Move(c, d) /\ (~b => NothingWaits(d))
  BY <1>3, <1>5 DEF Move, KeepsIncoming, Incoming, QueuesFit, NothingWaits, SameSending
<1> QED
  BY <1>6 DEF d

LEMMA WritableLemma ==
  ASSUME NEW c, ChannelInv(c), NEW b \in BOOLEAN
  PROVE  Step(c, [c EXCEPT !.writable = b])
<1> DEFINE d == [c EXCEPT !.writable = b]
<1>1. c \in Channel
  BY DEF ChannelInv
<1>2. d \in Channel
  BY <1>1 DEF Channel
<1>3. SameCore(c, d) /\ SameConnection(c, d)
  BY <1>1 DEF Channel, SameCore, SameSending, SameConnection
<1> HIDE DEF d
<1> QED
  BY <1>2, <1>3, SameStep DEF d

-----------------------------------------------------------------------------
(* The theorems *)

\* The inductive invariant of the specification.
Inv ==
  /\ TypeOK /\ ChannelInv(ch) /\ NoLossNoReorder
  /\ ReceivedInOrder /\ QueuesFit(ch) /\ NothingWaits(ch)

LEMMA CreateLemma ==
  ASSUME NEW dct \in {"SCTP", "RTP"}, NEW role \in Roles, NEW ordered \in BOOLEAN,
         NEW has_sid \in BOOLEAN, NEW transport \in BOOLEAN,
         dct = "RTP" => role = "None"
  PROVE  LET c == Create(dct, role, ordered, has_sid, transport)
         IN /\ ChannelInv(c) /\ Outgoing(c) = << >> /\ c.state = "Connecting"
            /\ Incoming(c) = << >> /\ QueuesFit(c) /\ NothingWaits(c)
<1> DEFINE c == Create(dct, role, ordered, has_sid, transport)
<1>1. InitialHandshake(dct, role) \in HandshakeState
  BY DEF InitialHandshake, HandshakeState
<1>2. << >> \in Seq(Messages) /\ << >> \in Seq(WireMessage) /\ 0 \in Nat
  OBVIOUS
<1>3. "Connecting" \in DataState
  BY DEF DataState
<1>4. c \in Channel
  BY <1>1, <1>2, <1>3 DEF Create, OnTransportChannelCreated, Channel
<1>5. /\ c.dct = dct /\ c.role = role /\ c.state = "Connecting" /\ c.closed_signals = 0
      /\ c.handshake_state = InitialHandshake(dct, role) /\ c.has_sid = has_sid
      /\ c.wire = << >> /\ c.sent = << >> /\ c.queued_send = << >> /\ c.transport = transport
      /\ c.send_ssrc_set = FALSE /\ c.receive_ssrc_set = FALSE /\ c.heard = FALSE
      /\ c.delivered = << >> /\ c.queued_received = << >>
  BY DEF Create, OnTransportChannelCreated
<1>6. /\ c.connected_to_provider <=> (dct = "SCTP" /\ transport)
      /\ c.stream <=> (dct = "SCTP" /\ has_sid /\ transport)
  BY DEF Create, OnTransportChannelCreated
<1> HIDE DEF c
<1>7. HandshakeFitsRole(c) /\ OpenedAfterHandshake(c) /\ OpenerWire(c)
  BY <1>5 DEF HandshakeFitsRole, OpenedAfterHandshake, OpenerWire, InitialHandshake, Roles
<1>8. SctpConnection(c) /\ QueueState(c) /\ SignalledOnce(c)
  BY <1>5, <1>6 DEF SctpConnection, QueueState, SignalledOnce
<1>9. Outgoing(c) = << >> /\ Incoming(c) = << >>
  BY <1>5, <1>2, ConcatEmptySeq DEF Outgoing, Incoming
<1>10. QueuesFit(c) /\ NothingWaits(c)
  BY <1>5, ByteCountEmpty, LimitAssumption DEF QueuesFit, NothingWaits
<1> QED
  BY <1>4, <1>5, <1>7, <1>8, <1>9, <1>10 DEF ChannelInv, c

LEMMA PostsType == << >> \in Seq(Posts) /\ <<"CHANNELREADY">> \in Seq(Posts)
<1>1. "CHANNELREADY" \in Posts
  BY DEF Posts
<1> HIDE DEF Posts
<1> QED
  BY <1>1

LEMMA InitInv == Init => Inv
<1> SUFFICES ASSUME Init PROVE Inv
  OBVIOUS
<1>1. PICK dct \in {"SCTP", "RTP"}, role \in Roles, ordered \in BOOLEAN, has_sid \in BOOLEAN,
           transport \in BOOLEAN, ready \in BOOLEAN :
        /\ dct = "RTP" => role = "None" /\ ~has_sid /\ ordered
        /\ ch = Create(dct, role, ordered, has_sid, transport)
        /\ posts = IF ready THEN <<"CHANNELREADY">> ELSE << >>
  BY DEF Init
<1>2. /\ ChannelInv(ch) /\ Outgoing(ch) = << >>
      /\ Incoming(ch) = << >> /\ QueuesFit(ch) /\ NothingWaits(ch)
  BY <1>1, CreateLemma
<1>3. posts \in Seq(Posts)
  BY <1>1, PostsType
<1>4. accepted = 0 /\ arrived = 0 /\ gone = FALSE /\ MaxMsgs \in Nat
  BY BoundAssumption DEF Init
<1>5. TypeOK
  <2>1. ch \in Channel
    BY <1>2 DEF ChannelInv
  <2>2. accepted \in 0 .. MaxMsgs /\ arrived \in 0 .. MaxMsgs
    BY <1>4
  <2>3. gone \in BOOLEAN
    BY <1>4
  <2> QED
    BY <1>3, <2>1, <2>2, <2>3 DEF TypeOK
<1>6. NoLossNoReorder
  <2>1. [i \in 1 .. 0 |-> i] = << >>
    OBVIOUS
  <2> QED
    BY <1>2, <1>4, <2>1 DEF NoLossNoReorder, Outgoing
<1>7. ReceivedInOrder
  BY <1>2 DEF ReceivedInOrder, Incoming
<1> QED
  BY <1>2, <1>5, <1>6, <1>7 DEF Inv

\* An action whose methods are steps of the channel preserves the invariant.
LEMMA StepInv ==
  ASSUME Inv, Step(ch, ch'), accepted' = accepted, posts' \in Seq(Posts),
         arrived' = arrived, gone' \in BOOLEAN
  PROVE  Inv' /\ Forward(ch, ch')
<1>1. /\ ChannelInv(ch') /\ Forward(ch, ch') /\ Outgoing(ch') = Outgoing(ch)
      /\ Incoming(ch') = Incoming(ch) /\ QueuesFit(ch') /\ NothingWaits(ch')
  BY DEF Step, Move, KeepsIncoming, StaysDrained, Inv
<1>2. ch' \in Channel
  BY <1>1 DEF ChannelInv
<1>3. TypeOK'
  BY <1>2 DEF TypeOK, Inv
<1>4. NoLossNoReorder'
  BY <1>1 DEF NoLossNoReorder, Outgoing, Inv
<1>5. ReceivedInOrder'
  BY <1>1 DEF ReceivedInOrder, Incoming, Inv
<1> QED
  BY <1>1, <1>3, <1>4, <1>5 DEF Inv

LEMMA AppSendInv ==
  ASSUME Inv, AppSend
  PROVE  Inv' /\ Forward(ch, ch')
<1> DEFINE m == accepted + 1
<1>1. PICK r \in DataResults(ch) :
        /\ ch' = Send(ch, m, r)
        /\ accepted' = IF Takes(ch, r) THEN m ELSE accepted
  BY DEF AppSend
<1>2. /\ ch.state = "Open" /\ m \in Messages /\ ChannelInv(ch)
      /\ r \in SendDataResult
  BY DEF AppSend, Inv, DataResults, SendDataResult
<1> HIDE DEF m
<1>3. /\ ChannelInv(ch') /\ Forward(ch, ch')
      /\ KeepsIncoming(ch, ch') /\ StaysDrained(ch, ch')
      /\ Outgoing(ch') = IF Takes(ch, r) THEN Append(Outgoing(ch), m) ELSE Outgoing(ch)
  BY <1>1, <1>2, SendLemma
<1>4. /\ accepted \in Nat /\ MaxMsgs \in Nat /\ accepted <= MaxMsgs
      /\ m = accepted + 1 /\ m <= MaxMsgs
  BY <1>2, BoundAssumption DEF Inv, TypeOK, m
<1>5. TypeOK'
  <2>1. ch' \in Channel
    BY <1>3 DEF ChannelInv
  <2>2. accepted' \in 0 .. MaxMsgs
    BY <1>1, <1>4
  <2> QED
    BY <2>1, <2>2 DEF AppSend, Inv, TypeOK
<1>6. NoLossNoReorder'
  <2>1. Outgoing(ch) = [i \in 1 .. accepted |-> i]
    BY DEF Inv, NoLossNoReorder, Outgoing
  <2>2. Append([i \in 1 .. accepted |-> i], m) = [i \in 1 .. m |-> i]
    BY <1>4
  <2>3. Outgoing(ch') = [i \in 1 .. accepted' |-> i]
    BY <1>1, <1>3, <2>1, <2>2
  <2> QED
    BY <2>3 DEF NoLossNoReorder, Outgoing
<1>7. QueuesFit(ch') /\ NothingWaits(ch')
  BY <1>3 DEF KeepsIncoming, StaysDrained, Inv
<1>8. ReceivedInOrder'
  BY <1>3 DEF AppSend, KeepsIncoming, ReceivedInOrder, Incoming, Inv
<1> QED
  BY <1>3, <1>5, <1>6, <1>7, <1>8 DEF Inv

LEMMA HandleDataInv ==
  ASSUME Inv, HandleData
  PROVE  Inv' /\ Forward(ch, ch')
<1> DEFINE m == arrived + 1
<1>1. /\ ChannelInv(ch) /\ QueuesFit(ch) /\ NothingWaits(ch) /\ m \in Messages
      /\ ch' = OnDataReceived(ch, m) /\ arrived' = m /\ posts' = Tail(posts) /\ posts # << >>
      /\ UNCHANGED <<accepted, gone>>
  BY DEF HandleData, Inv
<1> HIDE DEF m
<1>2. /\ ChannelInv(ch') /\ Forward(ch, ch') /\ Outgoing(ch') = Outgoing(ch)
      /\ QueuesFit(ch') /\ NothingWaits(ch')
      /\ Incoming(ch') = Append(Incoming(ch), m) \/ Incoming(ch') = ch.delivered
  BY <1>1, OnDataReceivedLemma
<1>3. arrived \in Nat /\ m = arrived + 1 /\ m \in 0 .. MaxMsgs
  BY <1>1, BoundAssumption DEF Inv, TypeOK, m
<1>4. TypeOK'
  <2>1. posts' \in Seq(Posts)
    BY <1>1 DEF Inv, TypeOK
  <2>2. ch' \in Channel
    BY <1>2 DEF ChannelInv
  <2> QED
    BY <1>1, <1>3, <2>1, <2>2 DEF Inv, TypeOK
<1>5. NoLossNoReorder'
  BY <1>1, <1>2 DEF NoLossNoReorder, Outgoing, Inv
<1>6. ReceivedInOrder'
  <2> DEFINE all == Incoming(ch)
             new == Incoming(ch')
             old == ch.delivered
  <2>1. /\ \A i, j \in 1 .. Len(all) : i < j => all[i] < all[j]
        /\ \A i \in 1 .. Len(all) : all[i] <= arrived
    BY DEF ReceivedInOrder, Incoming, Inv
  <2>2. ch.delivered \in Seq(Messages) /\ ch.queued_received \in Seq(Messages)
    BY <1>1, IncomingType
  <2>3. Len(all) \in Nat /\ \A i \in 1 .. Len(all) : all[i] \in Nat
    <3>1. Messages \subseteq Nat
      BY BoundAssumption
    <3> DEFINE x == ch.delivered
               y == ch.queued_received
    <3>2. x \in Seq(Messages) /\ y \in Seq(Messages)
      BY <2>2
    <3>3. all = x \o y
      BY DEF Incoming
    <3> HIDE DEF x, y, all
    <3>4. all \in Seq(Messages)
      BY <3>2, <3>3, ConcatProperties
    <3>5. Len(all) \in Nat /\ \A i \in 1 .. Len(all) : all[i] \in Messages
      BY <3>4
    <3> QED
      BY <3>1, <3>5
  <2>4. Len(old) \in Nat /\ Len(old) <= Len(all) /\ \A i \in 1 .. Len(old) : old[i] = all[i]
    <3> DEFINE y == ch.queued_received
    <3>1. old \in Seq(Messages) /\ y \in Seq(Messages)
      BY <2>2
    <3>2. all = old \o y
      BY DEF Incoming
    <3> HIDE DEF old, y, all
    <3> QED
      BY <3>1, <3>2
  <2> HIDE DEF all, new, old
  <2>5. CASE new = Append(all, m)
    <3>1. /\ Len(new) = Len(all) + 1 /\ new[Len(all) + 1] = m /\ Len(all) \in Nat
          /\ \A i \in 1 .. Len(all) : new[i] = all[i] /\ all[i] \in Nat
      BY <2>3, <2>5
    <3>2. ASSUME NEW i \in 1 .. Len(new) PROVE new[i] <= m
      BY <1>3, <2>1, <3>1
    <3>3. ASSUME NEW i \in 1 .. Len(new), NEW j \in 1 .. Len(new), i < j
          PROVE  new[i] < new[j]
      <4>1. i \in 1 .. Len(all) /\ new[i] = all[i] /\ all[i] \in Nat /\ all[i] <= arrived
        BY <2>1, <3>1, <3>3
      <4>2. CASE j = Len(all) + 1
        BY <1>3, <3>1, <4>1, <4>2
      <4>3. CASE j # Len(all) + 1
        <5>1. j \in 1 .. Len(all)
          BY <3>1, <4>3
        <5> QED
          BY <2>1, <3>1, <3>3, <4>1, <5>1
      <4> QED
        BY <4>2, <4>3
    <3> QED
      BY <1>1, <3>2, <3>3 DEF ReceivedInOrder, Incoming, new
  <2>6. CASE new = old
    <3>1. \A i \in 1 .. Len(new) : i \in 1 .. Len(all) /\ new[i] = all[i] /\ all[i] \in Nat
      <4>1. Len(all) \in Nat /\ \A i \in 1 .. Len(all) : all[i] \in Nat
        BY <2>3
      <4> QED
        BY <2>4, <2>6, <4>1
    <3>2. ASSUME NEW i \in 1 .. Len(new) PROVE new[i] <= m
      <4>1. new[i] \in Nat /\ new[i] <= arrived
        BY <2>1, <3>1
      <4> QED
        BY <1>3, <4>1
    <3>3. ASSUME NEW i \in 1 .. Len(new), NEW j \in 1 .. Len(new), i < j
          PROVE  new[i] < new[j]
      BY <2>1, <3>1, <3>3
    <3> QED
      BY <1>1, <3>2, <3>3 DEF ReceivedInOrder, Incoming, new
  <2> QED
    BY <1>2, <2>5, <2>6 DEF all, new, old
<1> QED
  BY <1>2, <1>4, <1>5, <1>6 DEF Inv

LEMMA HandlePostInv ==
  ASSUME Inv, HandlePost
  PROVE  Inv' /\ Forward(ch, ch')
<1>1. /\ ChannelInv(ch) /\ posts \in Seq(Posts) /\ arrived \in 0 .. MaxMsgs /\ gone \in BOOLEAN
      /\ MaxMsgs \in Nat
  BY BoundAssumption DEF Inv, TypeOK
<1>2. posts # << >> /\ posts' = Tail(posts)
  BY DEF HandlePost, HandleReady, HandleNotReady, HandleAck, HandleData,
         HandleStreamClosed, HandleUnconnected
<1>3. posts' \in Seq(Posts)
  BY <1>1, <1>2
<1>4. CASE \E answers \in Answers(ch) : HandleReady(answers)
  <2>1. PICK answers \in Answers(ch) : HandleReady(answers)
    BY <1>4
  <2>2. Step(ch, ch')
    BY <1>1, <2>1, OnChannelReadyLemma DEF HandleReady
  <2> QED
    BY <1>1, <1>3, <2>1, <2>2, StepInv DEF HandleReady
<1>5. CASE HandleNotReady
  <2>1. Step(ch, ch')
    BY <1>1, <1>5, WritableLemma DEF HandleNotReady
  <2> QED
    BY <1>1, <1>3, <1>5, <2>1, StepInv DEF HandleNotReady
<1>6. CASE HandleAck
  <2>1. ch' = Heard(ch)
    BY <1>6 DEF HandleAck, OnControlReceived, Heard
  <2>2. Step(ch, ch')
    BY <1>1, <2>1, HeardLemma
  <2> QED
    BY <1>1, <1>3, <1>6, <2>2, StepInv DEF HandleAck
<1>7. CASE HandleData
  BY <1>7, HandleDataInv
<1>8. CASE HandleStreamClosed
  <2>1. Step(ch, ch')
    BY <1>1, <1>8, CloseKeepsData, KeepsDataStep DEF HandleStreamClosed
  <2> QED
    BY <1>1, <1>3, <1>8, <2>1, StepInv DEF HandleStreamClosed
<1>9. CASE HandleUnconnected
  <2>1. Step(ch, ch')
    BY <1>1, <1>9, StepReflexive DEF HandleUnconnected
  <2> QED
    BY <1>1, <1>3, <1>9, <2>1, StepInv DEF HandleUnconnected
<1> QED
  BY <1>4, <1>5, <1>6, <1>7, <1>8, <1>9 DEF HandlePost

LEMMA NextInv ==
  ASSUME Inv, [Next]_vars
  PROVE  Inv' /\ Forward(ch, ch')
<1>1. /\ ChannelInv(ch) /\ posts \in Seq(Posts) /\ arrived \in 0 .. MaxMsgs /\ gone \in BOOLEAN
  BY DEF Inv, TypeOK
<1>2. CASE AppSend
  BY <1>2, AppSendInv
<1>3. CASE AppClose
  <2>1. Step(ch, ch')
    BY <1>1, <1>3, CloseKeepsData, KeepsDataStep DEF AppClose
  <2> QED
    BY <1>1, <1>3, <2>1, StepInv DEF AppClose
<1>4. CASE AppRegisterObserver
  <2> DEFINE d == [ch EXCEPT !.observer = TRUE]
  <2>1. Move(ch, d)
    BY <1>1, ObserverLemma
  <2>2. ch' = DeliverQueuedReceivedData(d)
    BY <1>4 DEF AppRegisterObserver, RegisterObserver
  <2> HIDE DEF d
  <2>3. Move(d, ch') /\ NothingWaits(ch')
    BY <2>1, <2>2, DeliverLemma DEF Move
  <2>4. Step(ch, ch')
    BY <2>1, <2>3, MoveTransitive DEF Step, StaysDrained
  <2> QED
    BY <1>1, <1>4, <2>4, StepInv DEF AppRegisterObserver
<1>5. CASE AppUnregisterObserver
  <2>1. Step(ch, ch')
    BY <1>1, <1>5, ObserverLemma DEF AppUnregisterObserver, UnregisterObserver, Step, StaysDrained
  <2> QED
    BY <1>1, <1>5, <2>1, StepInv DEF AppUnregisterObserver
<1>6. CASE TransportCreated
  <2>1. Step(ch, ch')
    BY <1>1, <1>6, TransportCreatedLemma DEF TransportCreated
  <2> QED
    BY <1>1, <1>6, <2>1, StepInv DEF TransportCreated
<1>7. CASE AssignSid
  <2>1. Step(ch, ch')
    BY <1>1, <1>7, SetSctpSidLemma DEF AssignSid
  <2> QED
    BY <1>1, <1>7, <2>1, StepInv DEF AssignSid
<1>8. CASE TransportDestroyed
  <2>1. Step(ch, ch')
    BY <1>1, <1>8, TransportDestroyedLemma DEF TransportDestroyed
  <2>2. posts' \in Seq(Posts)
    BY <1>8, PostsType DEF TransportDestroyed
  <2> QED
    BY <1>1, <1>8, <2>1, <2>2, StepInv DEF TransportDestroyed
<1>9. CASE LocalDescription
  <2>1. Step(ch, ch')
    BY <1>1, <1>9, SetSsrcLemma DEF LocalDescription
  <2> QED
    BY <1>1, <1>9, <2>1, StepInv DEF LocalDescription
<1>10. CASE RemoteDescription
  <2>1. Step(ch, SetReceiveSsrc(ch))
    BY <1>1, <1>10, SetSsrcLemma DEF RemoteDescription
  <2>2. Step(ch, DoClose(ch))
    BY <1>1, DoCloseLemma, KeepsDataStep DEF Frame, KeepsData
  <2>3. Step(ch, ch')
    BY <1>10, <2>1, <2>2 DEF RemoteDescription
  <2> QED
    BY <1>1, <1>10, <2>3, StepInv DEF RemoteDescription
<1>11. CASE PostReady \/ PostNotReady \/ \E p \in {"ACK", "DATA"} : PostReceived(p)
  <2>1. Step(ch, ch')
    BY <1>1, <1>11, StepReflexive DEF PostReady, PostNotReady, PostReceived
  <2>2. posts' \in Seq(Posts)
    BY <1>1, <1>11 DEF PostReady, PostNotReady, PostReceived, Post, Posts
  <2> QED
    BY <1>1, <1>11, <2>1, <2>2, StepInv DEF PostReady, PostNotReady, PostReceived
<1>12. CASE PostStreamClosed
  <2>1. Step(ch, ch')
    BY <1>1, <1>12, StreamResetLemma DEF PostStreamClosed
  <2>2. posts' \in Seq(Posts)
    BY <1>1, <1>12 DEF PostStreamClosed, Post, Posts
  <2> QED
    BY <1>1, <1>12, <2>1, <2>2, StepInv DEF PostStreamClosed
<1>13. CASE HandlePost
  BY <1>13, HandlePostInv
<1>14. CASE UNCHANGED vars
  <2>1. Step(ch, ch')
    BY <1>1, <1>14, StepReflexive DEF vars
  <2> QED
    BY <1>1, <1>14, <2>1, StepInv DEF vars
<1> QED
  BY <1>2, <1>3, <1>4, <1>5, <1>6, <1>7, <1>8, <1>9, <1>10, <1>11, <1>12, <1>13, <1>14
  DEF Next

THEOREM Invariance == Spec => []Inv
<1>1. Inv /\ [Next]_vars => Inv'
  BY NextInv
<1> QED
  BY <1>1, InitInv, PTL DEF Spec

\* Every variable keeps its type; in particular the channel stays a channel
\* whatever the order of calls, posts and answers of the provider.
THEOREM TypeCorrect == Spec => []TypeOK
<1>1. Inv => TypeOK
  BY DEF Inv
<1> QED
  BY <1>1, Invariance, PTL

\* Send's promise: the wire and the send queue hold exactly the messages Send
\* took, in order, for any number of messages, blocks, flushes and errors.
THEOREM NothingLostOrReordered == Spec => []NoLossNoReorder
<1>1. Inv => NoLossNoReorder
  BY DEF Inv
<1> QED
  BY <1>1, Invariance, PTL

\* The assertion in SendQueuedDataMessages never fires.
THEOREM QueuedDataAssertion == Spec => []QueuedDataHasState
<1>1. Inv => QueuedDataHasState
  BY DEF Inv, ChannelInv, QueueState, QueuedDataHasState
<1> QED
  BY <1>1, Invariance, PTL

\* No data can overtake the OPEN of SendControlMessage.
THEOREM OpenIsFirst == Spec => []OpenLeads
<1>1. Inv => OpenLeads
  BY DEF Inv, ChannelInv, OpenerWire, OpenLeads
<1> QED
  BY <1>1, Invariance, PTL

\* SignalClosed fires once, and then the sid has no stream left.
THEOREM SignalsClosedOnce == Spec => []ClosedOnce
<1>1. Inv => ClosedOnce
  BY DEF Inv, ChannelInv, SignalledOnce, SctpConnection, ClosedOnce
<1> QED
  BY <1>1, Invariance, PTL

\* OnDataReceived and DeliverQueuedReceivedData give the observer what arrived in the
\* order of arrival and never twice, whenever it registers, leaves and comes back.
THEOREM DeliveredInOrder == Spec => []ReceivedInOrder
<1>1. Inv => ReceivedInOrder
  BY DEF Inv
<1> QED
  BY <1>1, Invariance, PTL

\* The limits of the two queues hold for every limit and every size of message.
THEOREM QueuesStayBounded == Spec => []QueuesBounded
<1>1. Inv => QueuesBounded
  BY DEF Inv, QueuesFit, QueuesBounded
<1> QED
  BY <1>1, Invariance, PTL

\* readyState only moves forward, and a closed channel sends nothing.
THEOREM StateOnlyForward == Spec => OnlyForward
<1>1. Inv /\ [Next]_vars => [/\ Rank(ch'.state) >= Rank(ch.state)
                             /\ ch.state = "Closed" => ch'.sent = ch.sent]_vars
  <2> SUFFICES ASSUME Inv, [Next]_vars
               PROVE  /\ Rank(ch'.state) >= Rank(ch.state)
                      /\ ch.state = "Closed" => ch'.sent = ch.sent
    OBVIOUS
  <2>1. Forward(ch, ch') /\ ch.state \in DataState /\ ch'.state \in DataState
    BY NextInv DEF Inv, TypeOK, Channel
  <2> QED
    BY <2>1 DEF Forward, Rank, DataState
<1> QED
  BY <1>1, Invariance, PTL DEF Spec, OnlyForward
=============================================================================
