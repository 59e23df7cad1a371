------------------------- MODULE SctpStreamsProofs -------------------------
(***************************************************************************)
(* Proofs about SctpStreams, for every number of sids, of channels and of  *)
(* messages under way.  The inductive invariant says of each media channel *)
(* that its three sets of streams are disjoint and that a stream to reset  *)
(* belonged to a channel, and ties the allocator to the list of channels.  *)
(* A second one, ResetInv, follows the resets over the wire: each has one  *)
(* packet under way that will end it, and a stream can be left behind only *)
(* if it was queued before the association was up.                         *)
(***************************************************************************)
EXTENDS SctpStreams, FiniteSetTheorems, SequenceTheorems, WellFoundedInduction, TLAPS

ChannelRecord ==
  [n : 0 .. MaxChannels, state : {"Connecting", "Open", "Closed"}, role : Roles \cup {"None"}]
MediaRecord ==
  [open : SUBSET Sids, queued : SUBSET Sids, sent : SUBSET Sids, last : [Sids -> 0 .. MaxChannels]]
PostRecord == [type : PostTypes, sid : Sids, n : ChannelNumbers]
Abouts == UNION {[S -> ChannelNumbers] : S \in SUBSET Sids}

Disjoint(m) == m.open \cap (m.queued \cup m.sent) = {} /\ m.queued \cap m.sent = {}

MediaInv(m) ==
  /\ m \in MediaRecord
  /\ Disjoint(m)
  /\ \A s \in m.queued \cup m.sent : m.last[s] \in ChannelNumbers

ChannelsInv ==
  /\ used \in [Peers -> SUBSET Sids]
  /\ chan \in [Peers -> [Sids -> ChannelRecord]]
  /\ SidsOfChannels
  /\ \A p \in Peers, s \in Sids : chan[p][s].state # "Closed" => Live(chan[p][s])

StreamsInv ==
  /\ media \in [Peers -> MediaRecord] /\ \A p \in Peers : MediaInv(media[p])
  /\ sctp \in [Peers -> BOOLEAN]
  /\ up \in [Peers -> BOOLEAN] /\ early \in [Peers -> SUBSET Sids]

PostsInv == posts \in [Peers -> Seq(PostRecord)]
WireInv == wire \in [Peers -> Seq(Packets)]
CountInv == created \in 0 .. MaxChannels

Inv == ChannelsInv /\ StreamsInv /\ PostsInv /\ WireInv /\ CountInv

-----------------------------------------------------------------------------
(* The operators on a media channel *)

\* AddStream keeps the sets disjoint: it refuses a stream that is still closing.
LEMMA AddStreamLemma ==
  ASSUME NEW m, MediaInv(m), NEW s \in Sids
  PROVE  MediaInv(AddStream(m, s))
<1>1. CASE s \in m.open \cup m.queued \cup m.sent
  BY <1>1 DEF AddStream
<1>2. CASE s \notin m.open \cup m.queued \cup m.sent
  <2> DEFINE d == [m EXCEPT !.open = @ \cup {s}]
  <2>1. AddStream(m, s) = d
    BY <1>2 DEF AddStream
  <2>2. d \in MediaRecord
    BY DEF MediaInv, MediaRecord
  <2>3. d.open = m.open \cup {s} /\ d.queued = m.queued /\ d.sent = m.sent /\ d.last = m.last
    BY DEF MediaInv, MediaRecord
  <2> QED
    BY <1>2, <2>1, <2>2, <2>3 DEF MediaInv, Disjoint
<1> QED
  BY <1>1, <1>2

\* Sending the queued resets moves them to the set of those that were sent.
LEMMA SendQueuedStreamResetsLemma ==
  ASSUME NEW m, MediaInv(m), NEW refused \in BOOLEAN
  PROVE  MediaInv(SendQueuedStreamResets(m, refused))
<1>1. CASE ~CanReset(m, refused)
  BY <1>1 DEF SendQueuedStreamResets
<1>2. CASE CanReset(m, refused)
  <2> DEFINE d == [m EXCEPT !.sent = m.queued, !.queued = {}]
  <2>1. SendQueuedStreamResets(m, refused) = d
    BY <1>2 DEF SendQueuedStreamResets
  <2>2. d \in MediaRecord
    BY DEF MediaInv, MediaRecord
  <2>3. d.open = m.open /\ d.queued = {} /\ d.sent = m.queued /\ d.last = m.last
    BY DEF MediaInv, MediaRecord
  <2> QED
    BY <2>1, <2>2, <2>3 DEF MediaInv, Disjoint
<1> QED
  BY <1>1, <1>2

\* ResetStream queues an open stream, with the number of its channel.
LEMMA QueueResetLemma ==
  ASSUME NEW m, MediaInv(m), NEW s \in Sids, NEW n \in ChannelNumbers
  PROVE  MediaInv(QueueReset(m, s, n))
<1>1. CASE s \notin m.open
  BY <1>1 DEF QueueReset
<1>2. CASE s \in m.open
  <2> DEFINE d == [m EXCEPT !.open = @ \ {s}, !.queued = @ \cup {s}, !.last[s] = n]
  <2>1. QueueReset(m, s, n) = d
    BY <1>2 DEF QueueReset
  <2>2. n \in 0 .. MaxChannels
    BY SctpAssumption DEF ChannelNumbers
  <2>3. d \in MediaRecord
    BY <2>2 DEF MediaInv, MediaRecord
  <2>4. /\ d.open = m.open \ {s} /\ d.queued = m.queued \cup {s} /\ d.sent = m.sent
        /\ d.last = [m.last EXCEPT ![s] = n] /\ m.last \in [Sids -> 0 .. MaxChannels]
    BY DEF MediaInv, MediaRecord
  <2>5. \A t \in d.queued \cup d.sent : d.last[t] \in ChannelNumbers
    BY <2>4 DEF MediaInv, MediaRecord
  <2>6. Disjoint(d)
    BY <1>2, <2>4 DEF MediaInv, Disjoint
  <2> QED
    BY <2>1, <2>3, <2>5, <2>6 DEF MediaInv
<1> QED
  BY <1>1, <1>2

\* A failed reset is queued again.
LEMMA ResetFailedLemma ==
  ASSUME NEW m, MediaInv(m)
  PROVE  MediaInv(ResetFailed(m))
<1> DEFINE d == ResetFailed(m)
<1>1. d \in MediaRecord
  BY DEF MediaInv, MediaRecord, ResetFailed
<1>2. d.open = m.open /\ d.queued = m.queued \cup m.sent /\ d.sent = {} /\ d.last = m.last
  BY DEF MediaInv, MediaRecord, ResetFailed
<1> QED
  BY <1>1, <1>2 DEF MediaInv, Disjoint

\* A reset of the peer only takes streams out of the sets.
LEMMA ResetIncomingLemma ==
  ASSUME NEW m, MediaInv(m), NEW S
  PROVE  MediaInv(ResetIncoming(m, S))
<1> DEFINE d == ResetIncoming(m, S)
<1>1. d \in MediaRecord
  BY DEF MediaInv, MediaRecord, ResetIncoming
<1>2. /\ d.open \subseteq m.open /\ d.queued \subseteq m.queued /\ d.sent \subseteq m.sent
      /\ d.last = m.last
  BY DEF MediaInv, MediaRecord, ResetIncoming
<1> QED
  BY <1>1, <1>2 DEF MediaInv, Disjoint

\* What usrsctp is asked to send is a reset of sids with the numbers of channels.
LEMMA ResetPacketsType ==
  ASSUME NEW m, MediaInv(m), NEW refused \in BOOLEAN
  PROVE  ResetPackets(m, refused) \in Seq(Packets)
<1> DEFINE about == [s \in m.queued |-> m.last[s]]
<1>1. m.queued \in SUBSET Sids /\ about \in [m.queued -> ChannelNumbers]
  BY DEF MediaInv, MediaRecord
<1>2. about \in Abouts
  BY <1>1 DEF Abouts
<1>3. [type |-> "RESET", about |-> about] \in Packets
  BY <1>2 DEF Packets, Resets, Abouts
<1> HIDE DEF about
<1>4. << [type |-> "RESET", about |-> about] >> \in Seq(Packets)
  BY <1>3
<1> QED
  BY <1>4 DEF ResetPackets, about

-----------------------------------------------------------------------------
(* The steps on the state *)

LEMMA OtherType == \A p \in Peers : Other(p) \in Peers
  BY DEF Peers, Other

\* The allocator and the channel list lose the same sid.
LEMMA CloseChannelsLemma ==
  ASSUME ChannelsInv, NEW p \in Peers, NEW s \in Sids,
         chan' = [chan EXCEPT ![p][s] = NoChannel],
         used' = [used EXCEPT ![p] = @ \ {s}]
  PROVE  ChannelsInv'
<1>1. NoChannel \in ChannelRecord
  BY SctpAssumption DEF NoChannel, ChannelRecord
<1>2. chan' \in [Peers -> [Sids -> ChannelRecord]]
  BY <1>1 DEF ChannelsInv
<1>3. used' \in [Peers -> SUBSET Sids]
  BY DEF ChannelsInv
<1>4. ASSUME NEW q \in Peers, NEW t \in Sids
      PROVE  t \in used'[q] <=> Live(chan'[q][t])
  <2>1. t \in used[q] <=> Live(chan[q][t])
    BY DEF ChannelsInv, SidsOfChannels
  <2>2. CASE q = p /\ t = s
    BY <2>2 DEF ChannelsInv, Live, NoChannel
  <2>3. CASE ~(q = p /\ t = s)
    BY <2>1, <2>3 DEF ChannelsInv, Live
  <2> QED
    BY <2>2, <2>3
<1>5. SidsOfChannels'
  BY <1>3, <1>4 DEF SidsOfChannels
<1>6. ASSUME NEW q \in Peers, NEW t \in Sids, chan'[q][t].state # "Closed"
      PROVE  Live(chan'[q][t])
  BY <1>6 DEF ChannelsInv, NoChannel
<1> QED
  BY <1>2, <1>3, <1>5, <1>6 DEF ChannelsInv

\* AddChannel gives the allocator and the channel list the same sid.
LEMMA AddChannelLemma ==
  ASSUME ChannelsInv, StreamsInv, NEW p \in Peers, NEW s \in Sids,
         NEW c \in ChannelRecord, c.n # 0, AddChannel(p, s, c), UNCHANGED <<sctp, assoc>>
  PROVE  ChannelsInv' /\ StreamsInv'
<1>1. chan' \in [Peers -> [Sids -> ChannelRecord]] /\ used' \in [Peers -> SUBSET Sids]
  BY DEF ChannelsInv, AddChannel
<1>2. ASSUME NEW q \in Peers, NEW t \in Sids
      PROVE  t \in used'[q] <=> Live(chan'[q][t])
  <2>1. t \in used[q] <=> Live(chan[q][t])
    BY DEF ChannelsInv, SidsOfChannels
  <2>2. CASE q = p /\ t = s
    BY <2>2 DEF ChannelsInv, Live, AddChannel
  <2>3. CASE ~(q = p /\ t = s)
    BY <2>1, <2>3 DEF ChannelsInv, Live, AddChannel
  <2> QED
    BY <2>2, <2>3
<1>3. SidsOfChannels'
  BY <1>1, <1>2 DEF SidsOfChannels
<1>7. ASSUME NEW q \in Peers, NEW t \in Sids, chan'[q][t].state # "Closed"
      PROVE  Live(chan'[q][t])
  BY <1>7 DEF ChannelsInv, AddChannel, Live
<1>4. MediaInv(AddStream(media[p], s))
  BY AddStreamLemma DEF StreamsInv
<1>5. AddStream(media[p], s) \in MediaRecord
  BY <1>4 DEF MediaInv
<1>6. StreamsInv'
  BY <1>4, <1>5 DEF StreamsInv, AddChannel, assoc
<1> QED
  BY <1>1, <1>3, <1>6, <1>7 DEF ChannelsInv

\* A channel that is replaced by another one, live too, keeps its sid.
LEMMA ReplaceChannelLemma ==
  ASSUME ChannelsInv, NEW p \in Peers, NEW s \in Sids, NEW c \in ChannelRecord, c.n # 0,
         Live(chan[p][s]), chan' = [chan EXCEPT ![p][s] = c], used' = used
  PROVE  ChannelsInv'
<1>1. chan' \in [Peers -> [Sids -> ChannelRecord]] /\ used' \in [Peers -> SUBSET Sids]
  BY DEF ChannelsInv
<1>2. ASSUME NEW q \in Peers, NEW t \in Sids
      PROVE  t \in used'[q] <=> Live(chan'[q][t])
  <2>1. t \in used[q] <=> Live(chan[q][t])
    BY DEF ChannelsInv, SidsOfChannels
  <2>2. CASE q = p /\ t = s
    BY <2>1, <2>2 DEF ChannelsInv, Live
  <2>3. CASE ~(q = p /\ t = s)
    BY <2>1, <2>3 DEF ChannelsInv, Live
  <2> QED
    BY <2>2, <2>3
<1>3. SidsOfChannels'
  BY <1>1, <1>2 DEF SidsOfChannels
<1>4. ASSUME NEW q \in Peers, NEW t \in Sids, chan'[q][t].state # "Closed"
      PROVE  Live(chan'[q][t])
  BY <1>4 DEF ChannelsInv, Live
<1> QED
  BY <1>1, <1>3, <1>4 DEF ChannelsInv

\* The media channel of a peer changes and the queued resets are tried; w is the
\* wire before that.
LEMMA StreamsLemma ==
  ASSUME StreamsInv, NEW p \in Peers, NEW m, MediaInv(m), NEW outstanding \in BOOLEAN,
         NEW refused \in BOOLEAN, NEW w \in [Peers -> Seq(Packets)],
         media' = [media EXCEPT ![p] = SendQueuedStreamResets(m, refused)],
         sctp' = [sctp EXCEPT ![p] = outstanding \/ CanReset(m, refused)],
         wire' = [w EXCEPT ![Other(p)] = @ \o ResetPackets(m, refused)],
         early' = [early EXCEPT ![p] = @ \cap media'[p].queued], UNCHANGED up
  PROVE  StreamsInv' /\ WireInv'
<1>1. MediaInv(SendQueuedStreamResets(m, refused))
  BY SendQueuedStreamResetsLemma
<1>2. SendQueuedStreamResets(m, refused) \in MediaRecord
  BY <1>1 DEF MediaInv
<1>3. (outstanding \/ CanReset(m, refused)) \in BOOLEAN
  BY DEF CanReset
<1>4. sctp' \in [Peers -> BOOLEAN]
  BY <1>3 DEF StreamsInv
<1>5. early' \in [Peers -> SUBSET Sids] /\ up' \in [Peers -> BOOLEAN]
  BY DEF StreamsInv
<1>6. StreamsInv'
  BY <1>1, <1>2, <1>4, <1>5 DEF StreamsInv
<1>7. w[Other(p)] \o ResetPackets(m, refused) \in Seq(Packets)
  BY OtherType, ResetPacketsType
<1>8. WireInv'
  BY <1>7, OtherType DEF WireInv
<1> QED
  BY <1>6, <1>8

\* CloseChannel as a whole.
LEMMA CloseChannelLemma ==
  ASSUME Inv, NEW p \in Peers, NEW s \in Sids, Live(chan[p][s]), CloseChannel(p, s)
  PROVE  ChannelsInv' /\ StreamsInv' /\ WireInv'
<1> DEFINE m == QueueReset(media[p], s, chan[p][s].n)
<1>1. chan[p][s].n \in ChannelNumbers
  BY SctpAssumption DEF Inv, ChannelsInv, ChannelRecord, Live, ChannelNumbers
<1>2. MediaInv(m)
  BY <1>1, QueueResetLemma DEF Inv, StreamsInv
<1>3. ChannelsInv'
  BY CloseChannelsLemma DEF Inv, CloseChannel
<1>4. UpdateMedia(p, m)
  BY DEF CloseChannel
<1>5. Refused(p) \in BOOLEAN /\ sctp[p] \in BOOLEAN /\ wire \in [Peers -> Seq(Packets)]
  BY DEF Inv, StreamsInv, WireInv, Refused
<1> HIDE DEF m
<1>6. StreamsInv' /\ WireInv'
  BY <1>2, <1>4, <1>5, StreamsLemma DEF Inv, UpdateMedia
<1> QED
  BY <1>3, <1>6

\* What ResetEvent posts: one CLOSED for each stream that the peer closed.
Closings(sids, about) ==
  [i \in DOMAIN sids |-> [type |-> "CLOSED", sid |-> sids[i], n |-> about[sids[i]]]]

LEMMA PostClosedLemma ==
  ASSUME PostsInv, NEW p \in Peers, NEW S \in SUBSET Sids, NEW about,
         \A s \in S : about[s] \in ChannelNumbers,
         NEW sids \in [1 .. Cardinality(S) -> S],
         posts' = [posts EXCEPT ![p] = @ \o Closings(sids, about)]
  PROVE  PostsInv'
<1> DEFINE q == Closings(sids, about)
<1>0. IsFiniteSet(Sids)
  <2>1. 0 \in Int /\ kMaxSctpSid \in Int
    BY SctpAssumption
  <2> QED
    BY <2>1, FS_Interval DEF Sids
<1>1. IsFiniteSet(S)
  BY <1>0, FS_Subset
<1>2. Cardinality(S) \in Nat
  BY <1>1, FS_CardinalityType
<1>3. \A i \in 1 .. Cardinality(S) :
        [type |-> "CLOSED", sid |-> sids[i], n |-> about[sids[i]]] \in PostRecord
  BY DEF PostRecord, PostTypes
<1>4. q \in [1 .. Cardinality(S) -> PostRecord]
  BY <1>3 DEF Closings
<1>5. q \in Seq(PostRecord)
  BY <1>2, <1>4
<1>6. posts' = [posts EXCEPT ![p] = @ \o q]
  OBVIOUS
<1> HIDE DEF q
<1>7. posts[p] \o q \in Seq(PostRecord)
  BY <1>5 DEF PostsInv
<1> QED
  BY <1>6, <1>7 DEF PostsInv

\* ResetEvent, for an event that leaves the media channel m.
LEMMA ResetEventLemma ==
  ASSUME Inv, NEW p \in Peers, wire[p] # << >>, NEW m, MediaInv(m), NEW S \in SUBSET Sids,
         \A s \in S : Head(wire[p]).about[s] \in ChannelNumbers,
         NEW outstanding \in BOOLEAN, NEW extra \in Seq(Packets),
         ResetEvent(p, m, S, outstanding, extra)
  PROVE  Inv'
<1> DEFINE v == [Received(p) EXCEPT ![Other(p)] = @ \o extra]
<1>1. Received(p) \in [Peers -> Seq(Packets)] /\ Other(p) \in Peers
  BY OtherType DEF Inv, WireInv, Received
<1>5. v \in [Peers -> Seq(Packets)] /\ v[Other(p)] = Received(p)[Other(p)] \o extra
  <2>1. Received(p)[Other(p)] \o extra \in Seq(Packets)
    BY <1>1
  <2> QED
    BY <1>1, <2>1
<1>6. wire' = [v EXCEPT ![Other(p)] = @ \o ResetPackets(m, outstanding)]
  <2>1. wire' = [Received(p) EXCEPT ![Other(p)] = @ \o extra \o ResetPackets(m, outstanding)]
    BY DEF ResetEvent
  <2> QED
    BY <1>1, <1>5, <2>1
<1> HIDE DEF v
<1>2. StreamsInv' /\ WireInv'
  BY <1>5, <1>6, StreamsLemma DEF Inv, ResetEvent
<1>3. PostsInv'
  <2>1. PICK sids \in [1 .. Cardinality(S) -> S] :
          posts' = [posts EXCEPT ![p] = @ \o [i \in DOMAIN sids |->
            [type |-> "CLOSED", sid |-> sids[i], n |-> Head(wire[p]).about[sids[i]]]]]
    BY DEF ResetEvent
  <2>2. PostsInv
    BY DEF Inv
  <2> DEFINE about == Head(wire[p]).about
  <2>3. \A s \in S : about[s] \in ChannelNumbers
    OBVIOUS
  <2>4. posts' = [posts EXCEPT ![p] = @ \o Closings(sids, about)]
    BY <2>1 DEF Closings
  <2> HIDE DEF about
  <2> QED
    BY <2>2, <2>3, <2>4, PostClosedLemma
<1>4. ChannelsInv' /\ CountInv'
  BY DEF ResetEvent, Inv, ChannelsInv, CountInv, SidsOfChannels, Live
<1> QED
  BY <1>2, <1>3, <1>4 DEF Inv

\* The head of a list of posts or packets.
LEMMA HeadPost ==
  ASSUME PostsInv, NEW p \in Peers, posts[p] # << >>
  PROVE  Head(posts[p]) \in PostRecord /\ Tail(posts[p]) \in Seq(PostRecord)
  BY DEF PostsInv

LEMMA HeadPacket ==
  ASSUME WireInv, NEW p \in Peers, wire[p] # << >>
  PROVE  Head(wire[p]) \in Packets
  BY DEF WireInv

LEMMA PostsTail ==
  ASSUME PostsInv, NEW p \in Peers, posts[p] # << >>, posts' = [posts EXCEPT ![p] = Tail(@)]
  PROVE  PostsInv'
  BY HeadPost DEF PostsInv

\* A reset names sids and the channels that had them.
LEMMA AboutLemma ==
  ASSUME NEW k \in Packets, k.type \in {"RESET", "RESPONSE"}
  PROVE  /\ DOMAIN k.about \subseteq Sids
         /\ \A s \in DOMAIN k.about : k.about[s] \in ChannelNumbers
         /\ << [k EXCEPT !.type = "RESPONSE"] >> \in Seq(Packets)
<1>1. k \in Resets
  BY DEF Packets
<1>2. k.about \in Abouts
  BY <1>1 DEF Resets, Abouts
<1>3. PICK S \in SUBSET Sids : k.about \in [S -> ChannelNumbers]
  BY <1>2 DEF Abouts
<1>4. [k EXCEPT !.type = "RESPONSE"] \in Resets
  BY <1>1 DEF Resets
<1>5. [k EXCEPT !.type = "RESPONSE"] \in Packets
  BY <1>4 DEF Packets
<1> QED
  BY <1>3, <1>5

-----------------------------------------------------------------------------
(* One lemma per action *)

\* The allocator returns the smallest sid that is free.
LEMMA MinimumExists ==
  ASSUME NEW T \in SUBSET Nat, T # {}
  PROVE  \E x \in T : \A y \in T : x <= y
<1> DEFINE R == OpToRel(<, Nat)
<1>1. \A x, y \in Nat : <<y, x>> \notin R => x <= y
  BY DEF OpToRel
<1>2. IsWellFoundedOn(R, Nat)
  BY NatLessThanWellFounded
<1> HIDE DEF R
<1>3. \E x \in T : \A y \in T : ~(<<y, x>> \in R)
  BY <1>2, WFMin
<1> QED
  BY <1>1, <1>3

LEMMA AllocateSidType ==
  ASSUME NEW p \in Peers, Available(p) # {}
  PROVE  AllocateSid(p) \in Sids
<1>1. Available(p) \subseteq 0 .. kMaxSctpSid
  BY DEF Available, Sids
<1>2. \E t \in Available(p) : \A u \in Available(p) : t <= u
  <2>1. Available(p) \in SUBSET Nat
    BY <1>1, SctpAssumption
  <2> QED
    BY <2>1, MinimumExists
<1>3. AllocateSid(p) \in Available(p)
  BY <1>2 DEF AllocateSid
<1> QED
  BY <1>1, <1>3 DEF Sids

LEMMA CreateStep ==
  ASSUME Inv, NEW p \in Peers, Create(p)
  PROVE  Inv'
<1> DEFINE s == AllocateSid(p)
           c == [n |-> created + 1, state |-> "Connecting", role |-> "Opener"]
<1>1. s \in Sids
  BY AllocateSidType DEF Create
<1>2. created + 1 \in ChannelNumbers /\ created + 1 \in 0 .. MaxChannels
  BY SctpAssumption DEF Inv, CountInv, Create, ChannelNumbers
<1>3. c \in ChannelRecord /\ c.n # 0
  BY <1>2 DEF ChannelRecord, Roles, ChannelNumbers
<1>4. AddChannel(p, s, c) /\ UNCHANGED <<sctp, assoc>>
  BY DEF Create
<1>5. posts' = [posts EXCEPT ![p] = Append(@, [type |-> "READY", sid |-> s, n |-> created + 1])]
  BY DEF Create
<1> HIDE DEF s, c
<1>6. ChannelsInv' /\ StreamsInv'
  BY <1>1, <1>3, <1>4, AddChannelLemma DEF Inv
<1>7. [type |-> "READY", sid |-> s, n |-> created + 1] \in PostRecord
  BY <1>1, <1>2 DEF PostRecord, PostTypes
<1>8. PostsInv'
  BY <1>5, <1>7 DEF Inv, PostsInv
<1>9. WireInv' /\ CountInv'
  BY <1>2 DEF Create, Inv, WireInv, CountInv
<1> QED
  BY <1>6, <1>8, <1>9 DEF Inv

LEMMA CloseStep ==
  ASSUME Inv, NEW p \in Peers, NEW s \in Sids, Close(p, s)
  PROVE  Inv'
<1>1. ChannelsInv' /\ StreamsInv' /\ WireInv'
  BY CloseChannelLemma DEF Close
<1> QED
  BY <1>1 DEF Close, Inv, PostsInv, CountInv

LEMMA SendStep ==
  ASSUME Inv, NEW p \in Peers, NEW s \in Sids, Send(p, s)
  PROVE  Inv'
<1>1. PostsInv' /\ CountInv'
  BY DEF Send, Inv, PostsInv, CountInv
<1>2. CASE s \in media[p].open
  <2> DEFINE k == [type |-> "DATA", sid |-> s, n |-> chan[p][s].n]
  <2>1. /\ wire' = [wire EXCEPT ![Other(p)] = Append(@, k)]
        /\ UNCHANGED <<used, chan, media, sctp, assoc>>
    BY <1>2 DEF Send
  <2>2. chan[p][s].n \in ChannelNumbers
    BY SctpAssumption DEF Inv, ChannelsInv, ChannelRecord, Live, ChannelNumbers, Send
  <2>3. k \in Packets
    BY <2>2 DEF Packets
  <2> HIDE DEF k
  <2>4. WireInv'
    BY <2>1, <2>3, OtherType DEF Inv, WireInv
  <2>5. ChannelsInv' /\ StreamsInv'
    BY <2>1 DEF Inv, ChannelsInv, StreamsInv, SidsOfChannels, Live, assoc
  <2> QED
    BY <1>1, <2>4, <2>5 DEF Inv
<1>3. CASE s \notin media[p].open
  <2>1. Live(chan[p][s]) /\ CloseChannel(p, s)
    BY <1>3 DEF Send, Inv, ChannelsInv
  <2>2. ChannelsInv' /\ StreamsInv' /\ WireInv'
    BY <2>1, CloseChannelLemma
  <2> QED
    BY <1>1, <2>2 DEF Inv
<1> QED
  BY <1>2, <1>3

LEMMA HandleReadyStep ==
  ASSUME Inv, NEW p \in Peers, HandleReady(p)
  PROVE  Inv'
<1> DEFINE post == Head(posts[p])
<1>1. post \in PostRecord
  BY HeadPost DEF Inv, HandleReady
<1>2. post.sid \in Sids /\ post.n \in ChannelNumbers
  BY <1>1 DEF PostRecord
<1>3. PostsInv'
  BY PostsTail DEF Inv, HandleReady
<1>4. StreamsInv' /\ CountInv'
  BY DEF HandleReady, Inv, StreamsInv, CountInv, assoc
<1>5. CASE chan[p][post.sid].n # post.n
  <2>1. UNCHANGED <<chan, wire, used>>
    BY <1>5 DEF HandleReady
  <2>2. ChannelsInv' /\ WireInv'
    BY <2>1 DEF Inv, ChannelsInv, WireInv, SidsOfChannels, Live
  <2> QED
    BY <1>3, <1>4, <2>2 DEF Inv
<1>6. CASE chan[p][post.sid].n = post.n
  <2> DEFINE k == [type |-> "OPEN", sid |-> post.sid, n |-> post.n]
  <2>1. /\ chan' = [chan EXCEPT ![p][post.sid].state = "Open"] /\ used' = used
        /\ wire' = wire \/ wire' = [wire EXCEPT ![Other(p)] = Append(@, k)]
    BY <1>6 DEF HandleReady
  <2>2. k \in Packets
    BY <1>2 DEF Packets
  <2> HIDE DEF k
  <2>3. WireInv'
    <3>1. wire \in [Peers -> Seq(Packets)] /\ Append(wire[Other(p)], k) \in Seq(Packets)
      BY <2>2, OtherType DEF Inv, WireInv
    <3> QED
      BY <2>1, <3>1 DEF WireInv
  <2> DEFINE c == chan[p][post.sid]
             d == [c EXCEPT !.state = "Open"]
  <2>4. c \in ChannelRecord
    BY <1>2 DEF Inv, ChannelsInv
  <2>5. d \in ChannelRecord /\ d.n = c.n
    BY <2>4 DEF ChannelRecord
  <2>6. chan' = [chan EXCEPT ![p][post.sid] = d]
    BY <2>1
  <2>7. d.n # 0 /\ Live(c)
    BY <1>2, <1>6, <2>5 DEF ChannelNumbers, Live
  <2> HIDE DEF post, c, d
  <2>8. ChannelsInv'
    BY <1>2, <2>1, <2>5, <2>6, <2>7, ReplaceChannelLemma DEF Inv, c
  <2> QED
    BY <1>3, <1>4, <2>3, <2>8 DEF Inv
<1> QED
  BY <1>5, <1>6

LEMMA HandleOpenStep ==
  ASSUME Inv, NEW p \in Peers, HandleOpen(p)
  PROVE  Inv'
<1> DEFINE post == Head(posts[p])
<1>1. post \in PostRecord /\ Tail(posts[p]) \in Seq(PostRecord)
  BY HeadPost DEF Inv, HandleOpen
<1>2. post.sid \in Sids /\ post.n \in ChannelNumbers
  BY <1>1 DEF PostRecord
<1>3. WireInv' /\ CountInv'
  BY DEF HandleOpen, Inv, WireInv, CountInv
<1>4. CASE post.sid \in used[p]
  <2>1. PostsInv'
    BY <1>4, PostsTail DEF Inv, HandleOpen
  <2>2. ChannelsInv' /\ StreamsInv'
    BY <1>4 DEF HandleOpen, Inv, ChannelsInv, StreamsInv, SidsOfChannels, Live, assoc
  <2> QED
    BY <1>3, <2>1, <2>2 DEF Inv
<1>5. CASE post.sid \notin used[p]
  <2> DEFINE c == [n |-> post.n, state |-> "Connecting", role |-> "Acker"]
             k == [post EXCEPT !.type = "READY"]
  <2>1. /\ AddChannel(p, post.sid, c) /\ UNCHANGED <<sctp, assoc>>
        /\ posts' = [posts EXCEPT ![p] = Append(Tail(@), k)]
    BY <1>5 DEF HandleOpen
  <2>2. c \in ChannelRecord /\ c.n # 0
    BY <1>2, SctpAssumption DEF ChannelRecord, ChannelNumbers, Roles
  <2>3. k \in PostRecord
    BY <1>1 DEF PostRecord, PostTypes
  <2> HIDE DEF c, k
  <2>4. ChannelsInv' /\ StreamsInv'
    BY <1>2, <2>1, <2>2, AddChannelLemma DEF Inv
  <2>5. PostsInv'
    BY <1>1, <2>1, <2>3 DEF Inv, PostsInv
  <2> QED
    BY <1>3, <2>4, <2>5 DEF Inv
<1> QED
  BY <1>4, <1>5

LEMMA HandleClosedStep ==
  ASSUME Inv, NEW p \in Peers, HandleClosed(p)
  PROVE  Inv'
<1> DEFINE post == Head(posts[p])
<1>1. post \in PostRecord
  BY HeadPost DEF Inv, HandleClosed
<1>2. post.sid \in Sids
  BY <1>1 DEF PostRecord
<1>3. PostsInv' /\ CountInv'
  BY PostsTail DEF Inv, HandleClosed, CountInv
<1>4. CASE Live(chan[p][post.sid])
  <2>1. CloseChannel(p, post.sid)
    BY <1>4 DEF HandleClosed
  <2> HIDE DEF post
  <2>2. ChannelsInv' /\ StreamsInv' /\ WireInv'
    BY <1>2, <1>4, <2>1, CloseChannelLemma
  <2> QED
    BY <1>3, <2>2 DEF Inv
<1>5. CASE ~Live(chan[p][post.sid])
  <2>1. UNCHANGED <<used, chan, media, sctp, wire, assoc>>
    BY <1>5 DEF HandleClosed
  <2>2. ChannelsInv' /\ StreamsInv' /\ WireInv'
    BY <2>1 DEF Inv, ChannelsInv, StreamsInv, WireInv, SidsOfChannels, Live, assoc
  <2> QED
    BY <1>3, <2>2 DEF Inv
<1> QED
  BY <1>4, <1>5

LEMMA HandleDataStep ==
  ASSUME Inv, NEW p \in Peers, HandleData(p)
  PROVE  Inv'
<1>1. PostsInv'
  BY PostsTail DEF Inv, HandleData
<1>2. ChannelsInv' /\ StreamsInv' /\ WireInv' /\ CountInv'
  BY DEF HandleData, Inv, ChannelsInv, StreamsInv, WireInv, CountInv, SidsOfChannels, Live, assoc
<1> QED
  BY <1>1, <1>2 DEF Inv

LEMMA DeliverStep ==
  ASSUME Inv, NEW p \in Peers, Deliver(p)
  PROVE  Inv'
<1> DEFINE pk == Head(wire[p])
<1>1. wire[p] # << >> /\ pk.type \in {"OPEN", "DATA"}
  BY DEF Deliver, Arrives
<1>2. pk \in Packets
  BY <1>1, HeadPacket DEF Inv
<1>3. posts' = [posts EXCEPT ![p] = Append(@, pk)] /\ wire' = Received(p)
  BY DEF Deliver
<1>4. WireInv'
  BY <1>1, <1>3 DEF Inv, WireInv, Received
<1> HIDE DEF pk
<1>5. pk \in PostRecord
  BY <1>1, <1>2 DEF Packets, Resets, PostRecord, PostTypes
<1>6. PostsInv'
  BY <1>3, <1>5 DEF Inv, PostsInv
<1>7. ChannelsInv' /\ StreamsInv' /\ CountInv'
  BY DEF Deliver, Inv, ChannelsInv, StreamsInv, CountInv, SidsOfChannels, Live, assoc
<1> QED
  BY <1>4, <1>6, <1>7 DEF Inv

\* The events of a reset of the peer, request or response.
LEMMA IncomingStep ==
  ASSUME Inv, NEW p \in Peers, wire[p] # << >>, Head(wire[p]).type \in {"RESET", "RESPONSE"},
         NEW outstanding \in BOOLEAN, NEW extra \in Seq(Packets), NEW S,
         S = DOMAIN Head(wire[p]).about,
         ResetEvent(p, ResetIncoming(media[p], S), ClosedRemotely(media[p], S), outstanding, extra)
  PROVE  Inv'
<1> DEFINE m == ResetIncoming(media[p], S)
           C == ClosedRemotely(media[p], S)
<1>1. Head(wire[p]) \in Packets
  BY HeadPacket DEF Inv
<1>2. C \in SUBSET Sids /\ \A s \in C : Head(wire[p]).about[s] \in ChannelNumbers
  BY <1>1, AboutLemma DEF ClosedRemotely
<1>3. MediaInv(m)
  BY ResetIncomingLemma DEF Inv, StreamsInv
<1>4. ResetEvent(p, m, C, outstanding, extra)
  OBVIOUS
<1> HIDE DEF m, C
<1> QED
  BY <1>2, <1>3, <1>4, ResetEventLemma

LEMMA OnResetRequestStep ==
  ASSUME Inv, NEW p \in Peers, OnResetRequest(p)
  PROVE  Inv'
<1> DEFINE S == DOMAIN Head(wire[p]).about
           extra == IF sctp[p] THEN <<[type |-> "FAILED"]>>
                    ELSE <<[Head(wire[p]) EXCEPT !.type = "RESPONSE"]>>
<1>1. wire[p] # << >> /\ Head(wire[p]).type = "RESET"
  BY DEF OnResetRequest, Arrives
<1>2. Head(wire[p]) \in Packets
  BY <1>1, HeadPacket DEF Inv
<1>3. [type |-> "FAILED"] \in Packets
  BY DEF Packets
<1>4. extra \in Seq(Packets)
  BY <1>1, <1>2, <1>3, AboutLemma
<1>5. ResetEvent(p, ResetIncoming(media[p], S), ClosedRemotely(media[p], S), TRUE, extra)
  BY DEF OnResetRequest
<1>6. TRUE \in BOOLEAN
  OBVIOUS
<1> HIDE DEF extra
<1> QED
  BY <1>1, <1>4, <1>5, <1>6, IncomingStep

LEMMA OnResetResponseStep ==
  ASSUME Inv, NEW p \in Peers, OnResetResponse(p)
  PROVE  Inv'
<1> DEFINE S == DOMAIN Head(wire[p]).about
           extra == <<[type |-> "DONE"]>>
<1>1. wire[p] # << >> /\ Head(wire[p]).type = "RESPONSE"
  BY DEF OnResetResponse, Arrives
<1>2. [type |-> "DONE"] \in Packets
  BY DEF Packets
<1>3. extra \in Seq(Packets) /\ FALSE \in BOOLEAN
  BY <1>2
<1>4. ResetEvent(p, ResetIncoming(media[p], S), ClosedRemotely(media[p], S), FALSE, extra)
  BY DEF OnResetResponse
<1> HIDE DEF extra
<1> QED
  BY <1>1, <1>3, <1>4, IncomingStep

\* The events that close no stream: a failed reset, or the end of one.
LEMMA OutgoingStep ==
  ASSUME Inv, NEW p \in Peers, OnResetFailed(p) \/ OnResetDone(p)
  PROVE  Inv'
<1>1. wire[p] # << >>
  BY DEF OnResetFailed, OnResetDone, Arrives
<1>2. PICK m : MediaInv(m) /\ ResetEvent(p, m, {}, FALSE, << >>)
  <2>1. MediaInv(media[p]) /\ MediaInv(ResetFailed(media[p]))
    BY ResetFailedLemma DEF Inv, StreamsInv
  <2> QED
    BY <2>1 DEF OnResetFailed, OnResetDone
<1>3. << >> \in Seq(Packets) /\ FALSE \in BOOLEAN /\ {} \in SUBSET Sids
  OBVIOUS
<1>4. \A s \in {} : Head(wire[p]).about[s] \in ChannelNumbers
  OBVIOUS
<1> QED
  BY <1>1, <1>2, <1>3, <1>4, ResetEventLemma

LEMMA AssociateStep ==
  ASSUME Inv, NEW p \in Peers, Associate(p)
  PROVE  Inv'
<1>1. media[p].queued \in SUBSET Sids
  BY DEF Inv, StreamsInv, MediaRecord
<1>2. StreamsInv'
  BY <1>1 DEF Associate, Inv, StreamsInv
<1>3. ChannelsInv' /\ PostsInv' /\ WireInv' /\ CountInv'
  BY DEF Associate, Inv, ChannelsInv, PostsInv, WireInv, CountInv, SidsOfChannels, Live
<1> QED
  BY <1>2, <1>3 DEF Inv

-----------------------------------------------------------------------------
(* The theorems *)

LEMMA InitInv == Init => Inv
<1> SUFFICES ASSUME Init PROVE Inv
  OBVIOUS
<1> DEFINE m == [open |-> {}, queued |-> {}, sent |-> {}, last |-> [s \in Sids |-> 0]]
<1>1. NoChannel \in ChannelRecord /\ ~Live(NoChannel) /\ NoChannel.state = "Closed"
  BY SctpAssumption DEF NoChannel, ChannelRecord, Live
<1>2. chan = [p \in Peers |-> [s \in Sids |-> NoChannel]] /\ used = [p \in Peers |-> {}]
  BY DEF Init
<1>3. ChannelsInv
  BY <1>1, <1>2 DEF ChannelsInv, SidsOfChannels
<1>4. m \in MediaRecord
  BY SctpAssumption DEF MediaRecord
<1>5. m.open = {} /\ m.queued = {} /\ m.sent = {}
  OBVIOUS
<1>6. media = [p \in Peers |-> m]
  BY DEF Init
<1> HIDE DEF m
<1>7. MediaInv(m)
  BY <1>4, <1>5 DEF MediaInv, Disjoint
<1>8. /\ sctp \in [Peers -> BOOLEAN]
      /\ up \in [Peers -> BOOLEAN] /\ early \in [Peers -> SUBSET Sids]
  BY DEF Init
<1>9. StreamsInv
  BY <1>4, <1>6, <1>7, <1>8 DEF StreamsInv
<1>10. PostsInv /\ WireInv /\ CountInv
  BY SctpAssumption DEF Init, PostsInv, WireInv, CountInv
<1> QED
  BY <1>3, <1>9, <1>10 DEF Inv

LEMMA NextInv == Inv /\ [Next]_vars => Inv'
<1> SUFFICES ASSUME Inv, [Next]_vars PROVE Inv'
  OBVIOUS
<1>1. CASE UNCHANGED vars
  BY <1>1 DEF vars, Inv, ChannelsInv, StreamsInv, PostsInv, WireInv, CountInv,
              SidsOfChannels, Live
<1>2. ASSUME NEW p \in Peers, Create(p) PROVE Inv'
  BY <1>2, CreateStep
<1>3. ASSUME NEW p \in Peers, NEW s \in Sids, Close(p, s) \/ Send(p, s) PROVE Inv'
  BY <1>3, CloseStep, SendStep
<1>4. ASSUME NEW p \in Peers, HandlePost(p) PROVE Inv'
  BY <1>4, HandleReadyStep, HandleOpenStep, HandleDataStep, HandleClosedStep DEF HandlePost
<1>5. ASSUME NEW p \in Peers, Receive(p) PROVE Inv'
  BY <1>5, DeliverStep, OnResetRequestStep, OnResetResponseStep, OutgoingStep DEF Receive
<1>6. ASSUME NEW p \in Peers, Associate(p) PROVE Inv'
  BY <1>6, AssociateStep
<1> QED
  BY <1>1, <1>2, <1>3, <1>4, <1>5, <1>6 DEF Next

\* The inductive invariant holds in every state.
THEOREM Invariance == Spec => []Inv
<1> QED
  BY InitInv, NextInv, PTL DEF Spec

\* The allocator's sids, the channels, the sets of streams, the posts and the
\* packets under way keep their types, for any number of sids and of channels.
THEOREM TypeCorrect == Spec => []TypeOK
<1>1. Inv => TypeOK
  <2> SUFFICES ASSUME Inv PROVE TypeOK
    OBVIOUS
  <2>1. \A p \in Peers : \A i \in 1 .. Len(posts[p]) : posts[p][i] \in PostRecord
    BY DEF Inv, PostsInv
  <2>2. \A p \in Peers : \A i \in 1 .. Len(wire[p]) : wire[p][i] \in Packets
    BY DEF Inv, WireInv
  <2>3. chan \in [Peers -> [Sids -> ChannelRecord]] /\ used \in [Peers -> SUBSET Sids]
    BY DEF Inv, ChannelsInv
  <2>4. /\ media \in [Peers -> MediaRecord] /\ sctp \in [Peers -> BOOLEAN]
        /\ up \in [Peers -> BOOLEAN] /\ early \in [Peers -> SUBSET Sids]
    BY DEF Inv, StreamsInv
  <2>5. created \in 0 .. MaxChannels
    BY DEF Inv, CountInv
  <2> QED
    BY <2>1, <2>2, <2>3, <2>4, <2>5 DEF TypeOK, PostRecord, ChannelRecord, MediaRecord
<1> QED
  BY <1>1, Invariance, PTL

\* No sequence of opens, closes and resets of the two peers puts a stream into
\* two of open_streams_, queued_reset_streams_ and sent_reset_streams_.
THEOREM StreamsStayDisjoint == Spec => []StreamsDisjoint
<1>1. Inv => StreamsDisjoint
  BY DEF Inv, StreamsInv, MediaInv, Disjoint, StreamsDisjoint
<1> QED
  BY <1>1, Invariance, PTL

\* The sids that the allocator holds are those of the PeerConnection's channels,
\* however opens, closes and remote resets interleave.
THEOREM AllocatorMatchesChannels == Spec => []SidsOfChannels
<1>1. Inv => SidsOfChannels
  BY DEF Inv, ChannelsInv
<1> QED
  BY <1>1, Invariance, PTL

-----------------------------------------------------------------------------
(* Resets that are under way *)

\* The packet k on its way to r keeps the reset of p outstanding: p's request or the
\* answer to it, or p's answer to a request of its peer or the end of that one.
IsToken(p, r, k) ==
  IF r = p THEN k.type \in {"RESPONSE", "FAILED", "DONE"} ELSE k.type \in {"RESET", "RESPONSE"}

Unique(w, p) ==
  \A r, u \in Peers : \A i \in 1 .. Len(w[r]), j \in 1 .. Len(w[u]) :
    IsToken(p, r, w[r][i]) /\ IsToken(p, u, w[u][j]) => r = u /\ i = j

Underway(w, p) == \E r \in Peers : \E i \in 1 .. Len(w[r]) : IsToken(p, r, w[r][i])

\* k settles all the streams S that p waits for; if it fails they are queued again.
Settles(p, r, k, S) ==
  /\ k.type = "RESET" \/ (k.type = "RESPONSE" /\ r = p) => S \subseteq DOMAIN k.about
  /\ k.type = "DONE" \/ (k.type = "RESPONSE" /\ r # p) => S = {}

\* One packet settles the resets of p if usrsctp has one outstanding, none otherwise.
Answered(w, p, outstanding, S) ==
  /\ Unique(w, p)
  /\ outstanding <=> Underway(w, p)
  /\ \A r \in Peers : \A i \in 1 .. Len(w[r]) :
       IsToken(p, r, w[r][i]) => Settles(p, r, w[r][i], S)

ResetInv ==
  /\ NoStrandedReset
  /\ \A p \in Peers : ~sctp[p] => media[p].sent = {}
  /\ \A p \in Peers : Answered(wire, p, sctp[p], media[p].sent)

LEMMA AppendPackets ==
  ASSUME NEW q \in Seq(Packets), NEW k \in Packets
  PROVE  /\ Append(q, k) \in Seq(Packets) /\ Len(q) \in Nat /\ Len(Append(q, k)) = Len(q) + 1
         /\ \A i \in 1 .. Len(q) : Append(q, k)[i] = q[i]
         /\ Append(q, k)[Len(q) + 1] = k
  OBVIOUS

LEMMA TailPackets ==
  ASSUME NEW q \in Seq(Packets), q # << >>
  PROVE  /\ Tail(q) \in Seq(Packets) /\ Len(q) \in Nat /\ Len(q) > 0 /\ Len(Tail(q)) = Len(q) - 1
         /\ Head(q) = q[1]
         /\ \A i \in 1 .. Len(q) - 1 : Tail(q)[i] = q[i + 1] /\ i + 1 \in 1 .. Len(q)
  OBVIOUS

\* A packet that does not matter to p is sent, ...
LEMMA AppendOther ==
  ASSUME NEW w \in [Peers -> Seq(Packets)], NEW p \in Peers, NEW u \in Peers, NEW k \in Packets,
         ~IsToken(p, u, k), NEW b, NEW S, Answered(w, p, b, S)
  PROVE  Answered([w EXCEPT ![u] = Append(@, k)], p, b, S)
<1> DEFINE v == [w EXCEPT ![u] = Append(@, k)]
<1>1. \A r \in Peers : v[r] = IF r = u THEN Append(w[u], k) ELSE w[r]
  OBVIOUS
<1> HIDE DEF v
<1>2. \A r \in Peers : \A i \in 1 .. Len(w[r]) : i \in 1 .. Len(v[r]) /\ v[r][i] = w[r][i]
  <2> SUFFICES ASSUME NEW r \in Peers, NEW i \in 1 .. Len(w[r])
               PROVE  i \in 1 .. Len(v[r]) /\ v[r][i] = w[r][i]
    OBVIOUS
  <2>1. CASE r = u
    <3>1. v[u] = Append(w[u], k) /\ w[u] \in Seq(Packets)
      BY <1>1
    <3> QED
      BY <2>1, <3>1, AppendPackets
  <2>2. CASE r # u
    BY <1>1, <2>2
  <2> QED
    BY <2>1, <2>2
<1>3. ASSUME NEW r \in Peers, NEW i \in 1 .. Len(v[r]), IsToken(p, r, v[r][i])
      PROVE  i \in 1 .. Len(w[r]) /\ v[r][i] = w[r][i]
  <2>1. CASE r # u
    BY <1>1, <2>1
  <2>2. CASE r = u
    <3>1. v[u] = Append(w[u], k) /\ w[u] \in Seq(Packets)
      BY <1>1
    <3>2. i # Len(w[u]) + 1
      BY <1>3, <2>2, <3>1, AppendPackets
    <3> QED
      BY <2>2, <3>1, <3>2, AppendPackets
  <2> QED
    BY <2>1, <2>2
<1>4. Unique(v, p)
  BY <1>3 DEF Answered, Unique
<1>5. Underway(v, p) <=> Underway(w, p)
  BY <1>2, <1>3 DEF Underway
<1>6. \A r \in Peers : \A i \in 1 .. Len(v[r]) :
        IsToken(p, r, v[r][i]) => Settles(p, r, v[r][i], S)
  BY <1>3 DEF Answered
<1> QED
  BY <1>4, <1>5, <1>6 DEF v, Answered

\* ... or one that is the only one to matter, ...
LEMMA AppendToken ==
  ASSUME NEW w \in [Peers -> Seq(Packets)], NEW p \in Peers, NEW u \in Peers, NEW k \in Packets,
         IsToken(p, u, k), NEW S, NEW T, Answered(w, p, FALSE, S), Settles(p, u, k, T)
  PROVE  Answered([w EXCEPT ![u] = Append(@, k)], p, TRUE, T)
<1> DEFINE v == [w EXCEPT ![u] = Append(@, k)]
<1>1. \A r \in Peers : v[r] = IF r = u THEN Append(w[u], k) ELSE w[r]
  OBVIOUS
<1> HIDE DEF v
<1>2. \A r \in Peers : \A i \in 1 .. Len(w[r]) : ~IsToken(p, r, w[r][i])
  BY DEF Answered, Underway
<1>3. ASSUME NEW r \in Peers, NEW i \in 1 .. Len(v[r]), IsToken(p, r, v[r][i])
      PROVE  r = u /\ i = Len(w[u]) + 1 /\ v[r][i] = k
  <2>1. CASE r # u
    BY <1>1, <1>2, <1>3, <2>1
  <2>2. CASE r = u
    <3>1. v[u] = Append(w[u], k) /\ w[u] \in Seq(Packets)
      BY <1>1
    <3>2. i \notin 1 .. Len(w[u])
      BY <1>2, <1>3, <2>2, <3>1, AppendPackets
    <3> QED
      BY <2>2, <3>1, <3>2, AppendPackets
  <2> QED
    BY <2>1, <2>2
<1>4. Unique(v, p)
  BY <1>3 DEF Unique
<1>5. Underway(v, p)
  <2>1. v[u] = Append(w[u], k) /\ w[u] \in Seq(Packets)
    BY <1>1
  <2>2. Len(w[u]) + 1 \in 1 .. Len(v[u]) /\ v[u][Len(w[u]) + 1] = k
    BY <2>1, AppendPackets
  <2> QED
    BY <2>2 DEF Underway
<1>6. \A r \in Peers : \A i \in 1 .. Len(v[r]) :
        IsToken(p, r, v[r][i]) => Settles(p, r, v[r][i], T)
  BY <1>3
<1> QED
  BY <1>4, <1>5, <1>6 DEF v, Answered

\* ... or one that does not matter arrives, ...
LEMMA TailOther ==
  ASSUME NEW w \in [Peers -> Seq(Packets)], NEW p \in Peers, NEW u \in Peers, w[u] # << >>,
         ~IsToken(p, u, Head(w[u])), NEW b, NEW S, Answered(w, p, b, S)
  PROVE  Answered([w EXCEPT ![u] = Tail(@)], p, b, S)
<1> DEFINE v == [w EXCEPT ![u] = Tail(@)]
           d(r) == IF r = u THEN 1 ELSE 0
<1>1. \A r \in Peers : v[r] = IF r = u THEN Tail(w[u]) ELSE w[r]
  OBVIOUS
<1> HIDE DEF v
<1>2. \A r \in Peers : \A i \in 1 .. Len(v[r]) :
        i \in Nat /\ i + d(r) \in 1 .. Len(w[r]) /\ v[r][i] = w[r][i + d(r)]
  <2> SUFFICES ASSUME NEW r \in Peers, NEW i \in 1 .. Len(v[r])
               PROVE  i \in Nat /\ i + d(r) \in 1 .. Len(w[r]) /\ v[r][i] = w[r][i + d(r)]
    OBVIOUS
  <2>1. CASE r = u
    <3>1. v[u] = Tail(w[u]) /\ w[u] \in Seq(Packets)
      BY <1>1
    <3> QED
      BY <2>1, <3>1, TailPackets
  <2>2. CASE r # u
    BY <1>1, <2>2
  <2> QED
    BY <2>1, <2>2
<1>3. ASSUME NEW r \in Peers, NEW i \in 1 .. Len(w[r]), IsToken(p, r, w[r][i])
      PROVE  i - d(r) \in 1 .. Len(v[r]) /\ v[r][i - d(r)] = w[r][i]
  <2>1. CASE r = u
    <3>1. v[u] = Tail(w[u]) /\ w[u] \in Seq(Packets)
      BY <1>1
    <3>2. i # 1 /\ Len(v[u]) = Len(w[u]) - 1 /\ Len(w[u]) \in Nat
      BY <1>3, <2>1, <3>1, TailPackets
    <3>3. i - 1 \in 1 .. Len(w[u]) - 1 /\ (i - 1) + 1 = i
      BY <2>1, <3>2
    <3> QED
      BY <2>1, <3>1, <3>2, <3>3, TailPackets
  <2>2. CASE r # u
    BY <1>1, <2>2
  <2> QED
    BY <2>1, <2>2
<1>4. Unique(v, p)
  <2> SUFFICES ASSUME NEW r \in Peers, NEW s \in Peers, NEW i \in 1 .. Len(v[r]),
                      NEW j \in 1 .. Len(v[s]),
                      IsToken(p, r, v[r][i]), IsToken(p, s, v[s][j])
               PROVE  r = s /\ i = j
    BY DEF Unique
  <2>1. /\ i + d(r) \in 1 .. Len(w[r]) /\ IsToken(p, r, w[r][i + d(r)]) /\ i \in Nat
        /\ j + d(s) \in 1 .. Len(w[s]) /\ IsToken(p, s, w[s][j + d(s)]) /\ j \in Nat
    BY <1>2
  <2>2. d(r) \in Nat /\ d(s) \in Nat
    OBVIOUS
  <2> HIDE DEF d
  <2>3. r = s /\ i + d(r) = j + d(s)
    BY <2>1 DEF Answered, Unique
  <2> QED
    BY <2>1, <2>2, <2>3
<1>5. Underway(v, p) <=> Underway(w, p)
  BY <1>2, <1>3 DEF Underway
<1>6. \A r \in Peers : \A i \in 1 .. Len(v[r]) :
        IsToken(p, r, v[r][i]) => Settles(p, r, v[r][i], S)
  BY <1>2 DEF Answered
<1> QED
  BY <1>4, <1>5, <1>6 DEF v, Answered

\* ... or the one that does.
LEMMA TailToken ==
  ASSUME NEW w \in [Peers -> Seq(Packets)], NEW p \in Peers, NEW u \in Peers, w[u] # << >>,
         IsToken(p, u, Head(w[u])), NEW b, NEW S, Answered(w, p, b, S)
  PROVE  /\ \A T : Answered([w EXCEPT ![u] = Tail(@)], p, FALSE, T)
         /\ Underway(w, p) /\ Settles(p, u, Head(w[u]), S)
<1> DEFINE v == [w EXCEPT ![u] = Tail(@)]
<1>1. \A r \in Peers : v[r] = IF r = u THEN Tail(w[u]) ELSE w[r]
  OBVIOUS
<1>0. w[u] \in Seq(Packets)
  OBVIOUS
<1> HIDE DEF v
<1>2. Head(w[u]) = w[u][1] /\ 1 \in 1 .. Len(w[u])
  BY <1>0, TailPackets
<1>3. ASSUME NEW r \in Peers, NEW i \in 1 .. Len(v[r]), IsToken(p, r, v[r][i]) PROVE FALSE
  <2>1. CASE r = u
    <3>1. v[u] = Tail(w[u])
      BY <1>1
    <3>2. i + 1 \in 1 .. Len(w[u]) /\ v[u][i] = w[u][i + 1] /\ i + 1 # 1
      BY <1>0, <2>1, <3>1, TailPackets
    <3> QED
      BY <1>2, <1>3, <2>1, <3>2 DEF Answered, Unique
  <2>2. CASE r # u
    BY <1>1, <1>2, <1>3, <2>2 DEF Answered, Unique
  <2> QED
    BY <2>1, <2>2
<1>4. \A T : Answered(v, p, FALSE, T)
  BY <1>3 DEF Answered, Unique, Underway
<1>5. Underway(w, p) /\ Settles(p, u, Head(w[u]), S)
  BY <1>2 DEF Answered, Underway
<1> QED
  BY <1>4, <1>5 DEF v

\* The streams that p waits for may become fewer.
LEMMA AnsweredFewer ==
  ASSUME NEW w, NEW p, NEW b, NEW S, NEW T, T \subseteq S, Answered(w, p, b, S)
  PROVE  Answered(w, p, b, T)
  BY DEF Answered, Settles

LEMMA TwoPeers ==
  ASSUME NEW p \in Peers
  PROVE  Other(p) \in Peers /\ Other(p) # p /\ Other(Other(p)) = p /\ Peers = {p, Other(p)}
  BY DEF Peers, Other

\* The queued resets of p are tried, after w is on the wire: at most one packet
\* settles what p then waits for, and p waits for nothing else.
LEMMA TrySend ==
  ASSUME Inv, NoStrandedReset, NEW p \in Peers, NEW m, MediaInv(m), NEW outstanding \in BOOLEAN,
         NEW refused \in BOOLEAN, outstanding => refused, refused => outstanding \/ ~up[p],
         ~sctp[Other(p)] => media[Other(p)].sent = {}, UNCHANGED up,
         early' = [early EXCEPT ![p] = @ \cap media'[p].queued],
         NEW w \in [Peers -> Seq(Packets)],
         Answered(w, p, outstanding, m.sent), ~outstanding => m.sent = {},
         Answered(w, Other(p), sctp[Other(p)], media[Other(p)].sent),
         media' = [media EXCEPT ![p] = SendQueuedStreamResets(m, refused)],
         sctp' = [sctp EXCEPT ![p] = outstanding \/ CanReset(m, refused)],
         wire' = [w EXCEPT ![Other(p)] = @ \o ResetPackets(m, refused)]
  PROVE  ResetInv'
<1> DEFINE q == Other(p)
           k == [type |-> "RESET", about |-> [s \in m.queued |-> m.last[s]]]
<1>0. /\ Answered(w, q, sctp[q], media[q].sent)
      /\ wire' = [w EXCEPT ![q] = @ \o ResetPackets(m, refused)]
      /\ ~sctp[q] => media[q].sent = {}
  OBVIOUS
<1>1. q \in Peers /\ q # p /\ Peers = {p, q}
  BY TwoPeers
<1> HIDE DEF q
<1>2. /\ media \in [Peers -> MediaRecord] /\ sctp \in [Peers -> BOOLEAN]
      /\ m \in MediaRecord /\ m.queued \in SUBSET Sids
  BY DEF Inv, StreamsInv, MediaInv, MediaRecord
<1>3. media'[p] = SendQueuedStreamResets(m, refused) /\ media'[q] = media[q]
  BY <1>1, <1>2
<1>4. sctp'[p] = (outstanding \/ CanReset(m, refused)) /\ sctp'[q] = sctp[q]
  BY <1>1, <1>2
<1>7. up'[p] = up[p] /\ up'[q] = up[q] /\ early'[q] = early[q]
  BY <1>1 DEF Inv, StreamsInv
<1>5. CASE CanReset(m, refused)
  <2>1. ResetPackets(m, refused) = <<k>> /\ outstanding = FALSE /\ m.sent = {} /\ m.queued # {}
    BY <1>5 DEF ResetPackets, CanReset
  <2>2. k \in Packets
    <3>1. <<k>> \in Seq(Packets)
      BY <2>1, ResetPacketsType
    <3> QED
      BY <3>1
  <2>3. media'[p].sent = m.queued /\ media'[p].queued = {}
    BY <1>2, <1>3, <1>5 DEF SendQueuedStreamResets, MediaRecord
  <2>4. k.type = "RESET" /\ DOMAIN k.about = m.queued
    OBVIOUS
  <2> HIDE DEF k
  <2>5. wire' = [w EXCEPT ![q] = Append(@, k)]
    <3>1. w[q] \in Seq(Packets)
      BY <1>1
    <3>2. w[q] \o <<k>> = Append(w[q], k)
      BY <2>2, <3>1
    <3> QED
      BY <1>0, <2>1, <3>2
  <2>6. IsToken(p, q, k) /\ ~IsToken(q, q, k) /\ Settles(p, q, k, m.queued)
    BY <1>1, <2>4 DEF IsToken, Settles
  <2>7. Answered(w, p, FALSE, m.sent)
    BY <2>1
  <2>8. Answered(wire', p, TRUE, m.queued)
    <3>1. Answered([w EXCEPT ![q] = Append(@, k)], p, TRUE, m.queued)
      BY <1>1, <2>2, <2>6, <2>7, AppendToken
    <3> QED
      BY <2>5, <3>1
  <2>9. Answered(wire', q, sctp[q], media[q].sent)
    <3>1. Answered([w EXCEPT ![q] = Append(@, k)], q, sctp[q], media[q].sent)
      BY <1>0, <1>1, <2>2, <2>6, AppendOther
    <3> QED
      BY <2>5, <3>1
  <2>10. sctp'[p] = TRUE
    BY <1>4, <1>5
  <2>11. Answered(wire', p, sctp'[p], media'[p].sent)
    BY <2>3, <2>8, <2>10
  <2>12. Answered(wire', q, sctp'[q], media'[q].sent)
    BY <1>3, <1>4, <2>9
  <2>13. /\ up'[q] /\ (media'[q].queued \ early'[q]) \cup media'[q].sent # {} => sctp'[q]
        /\ ~sctp'[q] => media'[q].sent = {}
    BY <1>0, <1>1, <1>3, <1>4, <1>7 DEF NoStrandedReset
  <2>14. NoStrandedReset'
    BY <1>1, <2>10, <2>13 DEF NoStrandedReset
  <2>16. (\A r \in Peers : ~sctp[r] => media[r].sent = {})'
    <3>1. ASSUME NEW r \in Peers, ~sctp'[r] PROVE media'[r].sent = {}
      <4>0. r # p
        BY <2>10, <3>1
      <4>1. r = q
        BY <1>1, <4>0
      <4>2. ~sctp[q]
        BY <1>4, <3>1, <4>1
      <4>3. media[q].sent = {}
        BY <1>0, <4>2
      <4> QED
        BY <1>3, <4>1, <4>3
    <3> QED
      BY <3>1
  <2>15. (\A r \in Peers : Answered(wire, r, sctp[r], media[r].sent))'
    BY <1>1, <2>11, <2>12
  <2> QED
    BY <2>14, <2>15, <2>16 DEF ResetInv
<1>6. CASE ~CanReset(m, refused)
  <2>1. ResetPackets(m, refused) = << >> /\ media'[p] = m
    BY <1>3, <1>6 DEF ResetPackets, SendQueuedStreamResets
  <2>2. wire' = w
    BY <1>0, <1>1, <2>1
  <2>3. sctp'[p] = outstanding
    BY <1>4, <1>6
  <2>4. up'[p] /\ m.queued \cup m.sent # {} => outstanding
    BY <1>6, <1>7 DEF CanReset
  <2>5. /\ up'[q] /\ (media'[q].queued \ early'[q]) \cup media'[q].sent # {} => sctp'[q]
        /\ ~sctp'[q] => media'[q].sent = {}
    BY <1>0, <1>1, <1>3, <1>4, <1>7 DEF NoStrandedReset
  <2>6. NoStrandedReset'
    BY <1>1, <2>1, <2>3, <2>4, <2>5 DEF NoStrandedReset
  <2>7. Answered(wire', p, sctp'[p], media'[p].sent)
    BY <2>1, <2>2, <2>3
  <2>8. Answered(wire', q, sctp'[q], media'[q].sent)
    BY <1>0, <1>3, <1>4, <2>2
  <2>10. (\A r \in Peers : ~sctp[r] => media[r].sent = {})'
    BY <1>1, <2>1, <2>3, <2>5
  <2>9. (\A r \in Peers : Answered(wire, r, sctp[r], media[r].sent))'
    BY <1>1, <2>7, <2>8
  <2> QED
    BY <2>6, <2>9, <2>10 DEF ResetInv
<1> QED
  BY <1>5, <1>6

\* The packets and the media channels before a step.
LEMMA ResetFacts ==
  ASSUME Inv, ResetInv, NEW p \in Peers
  PROVE  /\ wire \in [Peers -> Seq(Packets)] /\ sctp[p] \in BOOLEAN
         /\ MediaInv(media[p]) /\ media[p] \in MediaRecord
         /\ Answered(wire, p, sctp[p], media[p].sent)
         /\ ~sctp[p] => media[p].sent = {}
  BY DEF Inv, WireInv, StreamsInv, ResetInv, NoStrandedReset

LEMMA CloseChannelReset ==
  ASSUME Inv, ResetInv, NEW p \in Peers, NEW s \in Sids, Live(chan[p][s]), CloseChannel(p, s)
  PROVE  ResetInv'
<1> DEFINE m == QueueReset(media[p], s, chan[p][s].n)
<1>1. chan[p][s].n \in ChannelNumbers
  BY SctpAssumption DEF Inv, ChannelsInv, ChannelRecord, Live, ChannelNumbers
<1>2. MediaInv(m)
  BY <1>1, QueueResetLemma DEF Inv, StreamsInv
<1>3. m.sent = media[p].sent
  BY ResetFacts DEF QueueReset, MediaRecord
<1>4. UpdateMedia(p, m)
  BY DEF CloseChannel
<1> HIDE DEF m
<1>5. Other(p) \in Peers
  BY TwoPeers
<1>6. Refused(p) \in BOOLEAN /\ (sctp[p] => Refused(p)) /\ (Refused(p) => sctp[p] \/ ~up[p])
  BY DEF Refused, Inv, StreamsInv
<1>8. /\ Answered(wire, p, sctp[p], m.sent) /\ (~sctp[p] => m.sent = {})
      /\ Answered(wire, Other(p), sctp[Other(p)], media[Other(p)].sent)
      /\ wire \in [Peers -> Seq(Packets)] /\ sctp[p] \in BOOLEAN /\ NoStrandedReset
      /\ ~sctp[Other(p)] => media[Other(p)].sent = {}
  BY <1>3, <1>5, ResetFacts DEF ResetInv
<1> QED
  BY <1>2, <1>4, <1>6, <1>8, TrySend DEF UpdateMedia

\* What the signaling thread sends settles no reset.
LEMMA SendOther ==
  ASSUME Inv, ResetInv, NEW p \in Peers, NEW k \in Packets, k.type \in {"OPEN", "DATA"},
         wire' = [wire EXCEPT ![p] = Append(@, k)],
         sctp' = sctp, UNCHANGED assoc,
         \A r \in Peers : media'[r].queued = media[r].queued /\ media'[r].sent = media[r].sent
  PROVE  ResetInv'
<1>1. \A r \in Peers : ~IsToken(r, p, k)
  BY DEF IsToken
<1>2. ASSUME NEW r \in Peers PROVE Answered(wire', r, sctp'[r], media'[r].sent)
  <2>1. Answered(wire, r, sctp[r], media[r].sent) /\ wire \in [Peers -> Seq(Packets)]
    BY ResetFacts
  <2>2. Answered(wire', r, sctp[r], media[r].sent)
    BY <1>1, <2>1, AppendOther
  <2> QED
    BY <2>2
<1>3. NoStrandedReset' /\ (\A r \in Peers : ~sctp[r] => media[r].sent = {})'
  BY DEF ResetInv, NoStrandedReset, assoc
<1> QED
  BY <1>2, <1>3 DEF ResetInv

LEMMA NothingSent ==
  ASSUME Inv, ResetInv, wire' = wire, sctp' = sctp, UNCHANGED assoc,
         \A r \in Peers : media'[r].queued = media[r].queued /\ media'[r].sent = media[r].sent
  PROVE  ResetInv'
<1>1. ASSUME NEW r \in Peers PROVE Answered(wire', r, sctp'[r], media'[r].sent)
  BY ResetFacts
<1>2. NoStrandedReset' /\ (\A r \in Peers : ~sctp[r] => media[r].sent = {})'
  BY DEF ResetInv, NoStrandedReset, assoc
<1> QED
  BY <1>1, <1>2 DEF ResetInv

LEMMA AddChannelReset ==
  ASSUME Inv, NEW p \in Peers, NEW s \in Sids, NEW c, AddChannel(p, s, c)
  PROVE  \A r \in Peers : media'[r].queued = media[r].queued /\ media'[r].sent = media[r].sent
<1>1. media[p] \in MediaRecord /\ media \in [Peers -> MediaRecord]
  BY DEF Inv, StreamsInv
<1>2. AddStream(media[p], s).queued = media[p].queued /\ AddStream(media[p], s).sent = media[p].sent
  BY <1>1 DEF AddStream, MediaRecord
<1>3. media' = [media EXCEPT ![p] = AddStream(media[p], s)]
  BY <1>1 DEF AddChannel
<1> QED
  BY <1>1, <1>2, <1>3

\* The event of a packet k at p: w is the wire once k is taken and extra is sent.
LEMMA ResetEventReset ==
  ASSUME Inv, ResetInv, NEW p \in Peers, NEW m, MediaInv(m), NEW S, NEW outstanding \in BOOLEAN,
         NEW extra, NEW w \in [Peers -> Seq(Packets)],
         w = [Received(p) EXCEPT ![Other(p)] = @ \o extra],
         Answered(w, p, outstanding, m.sent), ~outstanding => m.sent = {},
         Answered(w, Other(p), sctp[Other(p)], media[Other(p)].sent),
         ResetEvent(p, m, S, outstanding, extra)
  PROVE  ResetInv'
<1>1. Other(p) \in Peers
  BY TwoPeers
<1>2. /\ media' = [media EXCEPT ![p] = SendQueuedStreamResets(m, outstanding)]
      /\ sctp' = [sctp EXCEPT ![p] = outstanding \/ CanReset(m, outstanding)]
      /\ wire' = [Received(p) EXCEPT ![Other(p)] = @ \o extra \o ResetPackets(m, outstanding)]
  BY DEF ResetEvent
<1>3. Received(p) \in [Peers -> Seq(Packets)] \/ DOMAIN Received(p) = Peers
  BY DEF Received, Inv, WireInv
<1>4. DOMAIN Received(p) = Peers
  BY <1>3
<1>5. w[Other(p)] = Received(p)[Other(p)] \o extra
  BY <1>1, <1>4
<1>6. wire' = [w EXCEPT ![Other(p)] = @ \o ResetPackets(m, outstanding)]
  BY <1>1, <1>2, <1>4, <1>5
<1>7. /\ NoStrandedReset /\ (~sctp[Other(p)] => media[Other(p)].sent = {}) /\ UNCHANGED up
      /\ early' = [early EXCEPT ![p] = @ \cap media'[p].queued]
      /\ outstanding => outstanding \/ ~up[p]
  BY <1>1 DEF ResetInv, ResetEvent
<1> QED
  BY <1>2, <1>6, <1>7, TrySend

\* The wire when the head of wire[p] is taken, and when a packet is sent after that.
LEMMA ReceivedWire ==
  ASSUME Inv, NEW p \in Peers, wire[p] # << >>
  PROVE  /\ Received(p) = [wire EXCEPT ![p] = Tail(@)]
         /\ Received(p) \in [Peers -> Seq(Packets)]
         /\ [Received(p) EXCEPT ![Other(p)] = @ \o << >>] = Received(p)
         /\ \A k \in Packets :
              /\ [Received(p) EXCEPT ![Other(p)] = @ \o <<k>>]
                   = [Received(p) EXCEPT ![Other(p)] = Append(@, k)]
              /\ [Received(p) EXCEPT ![Other(p)] = Append(@, k)] \in [Peers -> Seq(Packets)]
<1>1. Received(p) = [wire EXCEPT ![p] = Tail(@)] /\ wire \in [Peers -> Seq(Packets)]
  BY DEF Received, Inv, WireInv
<1>2. Tail(wire[p]) \in Seq(Packets)
  BY <1>1
<1>3. Received(p) \in [Peers -> Seq(Packets)]
  BY <1>1, <1>2
<1> DEFINE v == Received(p)
<1> HIDE DEF v
<1>4. v \in [Peers -> Seq(Packets)] /\ Other(p) \in Peers
  BY <1>3, TwoPeers DEF v
<1>5. v[Other(p)] \o << >> = v[Other(p)]
  BY <1>4
<1>6. \A k \in Packets : v[Other(p)] \o <<k>> = Append(v[Other(p)], k)
  BY <1>4
<1>7. [v EXCEPT ![Other(p)] = @ \o << >>] = v
  BY <1>4, <1>5
<1>8. \A k \in Packets : /\ [v EXCEPT ![Other(p)] = @ \o <<k>>] = [v EXCEPT ![Other(p)] = Append(@, k)]
                         /\ [v EXCEPT ![Other(p)] = Append(@, k)] \in [Peers -> Seq(Packets)]
  <2> SUFFICES ASSUME NEW k \in Packets
               PROVE  /\ [v EXCEPT ![Other(p)] = @ \o <<k>>] = [v EXCEPT ![Other(p)] = Append(@, k)]
                      /\ [v EXCEPT ![Other(p)] = Append(@, k)] \in [Peers -> Seq(Packets)]
    OBVIOUS
  <2>1. v[Other(p)] \in Seq(Packets)
    BY <1>4
  <2> DEFINE s == Append(v[Other(p)], k)
  <2>2. s \in Seq(Packets) /\ v[Other(p)] \o <<k>> = s
    BY <1>6, <2>1
  <2> HIDE DEF s
  <2>3. [v EXCEPT ![Other(p)] = s] \in [Peers -> Seq(Packets)]
    BY <1>4, <2>2
  <2>4. [v EXCEPT ![Other(p)] = v[Other(p)] \o <<k>>] = [v EXCEPT ![Other(p)] = s]
    BY <2>2
  <2> QED
    BY <2>3, <2>4 DEF s
<1> QED
  BY <1>1, <1>3, <1>7, <1>8 DEF v

LEMMA DeliverReset ==
  ASSUME Inv, ResetInv, NEW p \in Peers, Deliver(p)
  PROVE  ResetInv'
<1>1. wire[p] # << >> /\ Head(wire[p]).type \in {"OPEN", "DATA"}
  BY DEF Deliver, Arrives
<1>2. /\ wire' = [wire EXCEPT ![p] = Tail(@)] /\ sctp' = sctp /\ media' = media
      /\ up' = up /\ early' = early
  BY DEF Deliver, Received, assoc
<1>3. ASSUME NEW r \in Peers PROVE Answered(wire', r, sctp'[r], media'[r].sent)
  <2>1. ~IsToken(r, p, Head(wire[p]))
    BY <1>1 DEF IsToken
  <2>2. Answered(wire, r, sctp[r], media[r].sent) /\ wire \in [Peers -> Seq(Packets)]
    BY ResetFacts
  <2>3. Answered([wire EXCEPT ![p] = Tail(@)], r, sctp[r], media[r].sent)
    BY <1>1, <2>1, <2>2, TailOther
  <2> QED
    BY <1>2, <2>3
<1>4. NoStrandedReset' /\ (\A r \in Peers : ~sctp[r] => media[r].sent = {})'
  BY <1>2 DEF ResetInv, NoStrandedReset
<1> QED
  BY <1>3, <1>4 DEF ResetInv

\* Once the association is up no reset is tried: what was queued is early.
LEMMA AssociateReset ==
  ASSUME Inv, ResetInv, NEW p \in Peers, Associate(p)
  PROVE  ResetInv'
<1>1. /\ wire' = wire /\ sctp' = sctp /\ media' = media
      /\ up' = [up EXCEPT ![p] = TRUE] /\ early' = [early EXCEPT ![p] = media[p].queued]
  BY DEF Associate
<1>2. ASSUME NEW r \in Peers, up'[r], (media[r].queued \ early'[r]) \cup media[r].sent # {}
      PROVE  sctp[r]
  <2>1. CASE r = p
    <3>1. early'[p] = media[p].queued
      BY <1>1 DEF Inv, StreamsInv
    <3> QED
      BY <1>2, <2>1, <3>1 DEF ResetInv
  <2>2. CASE r # p
    <3>1. up'[r] = up[r] /\ early'[r] = early[r]
      BY <1>1, <2>2 DEF Inv, StreamsInv
    <3> QED
      BY <1>2, <3>1 DEF ResetInv, NoStrandedReset
  <2> QED
    BY <2>1, <2>2
<1>3. NoStrandedReset'
  BY <1>1, <1>2 DEF NoStrandedReset
<1> QED
  BY <1>1, <1>3 DEF ResetInv

LEMMA ResetIncomingSent ==
  ASSUME NEW m, MediaInv(m), NEW S
  PROVE  ResetIncoming(m, S).sent = m.sent \ S
  BY DEF MediaInv, MediaRecord, ResetIncoming

\* A request of the peer: it is refused while p has a reset outstanding, and answered
\* by one of p otherwise.
LEMMA OnResetRequestReset ==
  ASSUME Inv, ResetInv, NEW p \in Peers, OnResetRequest(p)
  PROVE  ResetInv'
<1> DEFINE q == Other(p)
           v == Received(p)
           h == Head(wire[p])
           S == DOMAIN h.about
           m == ResetIncoming(media[p], S)
           C == ClosedRemotely(media[p], S)
           k == IF sctp[p] THEN [type |-> "FAILED"] ELSE [h EXCEPT !.type = "RESPONSE"]
           w == [v EXCEPT ![q] = Append(@, k)]
<1>1. wire[p] # << >> /\ h.type = "RESET"
  BY DEF OnResetRequest, Arrives
<1>2. ResetEvent(p, m, C, TRUE, <<k>>)
  BY DEF OnResetRequest
<1>3. q \in Peers /\ q # p /\ Other(q) = p
  BY TwoPeers
<1>4. h \in Packets
  BY <1>1, HeadPacket DEF Inv
<1>5. k \in Packets
  <2>1. [type |-> "FAILED"] \in Packets
    BY DEF Packets
  <2>2. <<[h EXCEPT !.type = "RESPONSE"]>> \in Seq(Packets)
    BY <1>1, <1>4, AboutLemma
  <2>3. [h EXCEPT !.type = "RESPONSE"] \in Packets
    BY <2>2
  <2> QED
    BY <2>1, <2>3
<1>6. sctp[p] => k.type = "FAILED"
  OBVIOUS
<1>7. ~sctp[p] => k.type = "RESPONSE" /\ k.about = h.about
  <2>1. h \in Resets
    BY <1>1, <1>4 DEF Packets
  <2> QED
    BY <2>1 DEF Resets
<1>8. MediaInv(m) /\ m.sent \subseteq media[p].sent
  BY ResetIncomingLemma, ResetIncomingSent, ResetFacts
<1> HIDE DEF k, m, C, S
<1>9. /\ v \in [Peers -> Seq(Packets)] /\ v = [wire EXCEPT ![p] = Tail(@)]
      /\ w = [v EXCEPT ![q] = @ \o <<k>>] /\ w \in [Peers -> Seq(Packets)]
  BY <1>1, <1>5, ReceivedWire
<1>10. /\ Answered(wire, p, sctp[p], media[p].sent) /\ Answered(wire, q, sctp[q], media[q].sent)
       /\ wire \in [Peers -> Seq(Packets)] /\ sctp[p] \in BOOLEAN /\ sctp[q] \in BOOLEAN
       /\ ~sctp[p] => media[p].sent = {}
  BY <1>3, ResetFacts
<1>11. IsToken(q, p, h) /\ ~IsToken(p, p, h)
  BY <1>1, <1>3 DEF IsToken
<1> HIDE DEF q
<1>12. Answered(v, p, sctp[p], media[p].sent)
  <2>1. Answered([wire EXCEPT ![p] = Tail(@)], p, sctp[p], media[p].sent)
    BY <1>1, <1>10, <1>11, TailOther
  <2> HIDE DEF v
  <2> QED
    BY <1>9, <2>1
<1>13. (\A T : Answered(v, q, FALSE, T)) /\ sctp[q] /\ Settles(q, p, h, media[q].sent)
  <2>1. \A T : Answered([wire EXCEPT ![p] = Tail(@)], q, FALSE, T)
    BY <1>1, <1>3, <1>10, <1>11, TailToken
  <2>2. Settles(q, p, Head(wire[p]), media[q].sent)
    BY <1>1, <1>3, <1>10, <1>11, TailToken
  <2>3. Underway(wire, q)
    BY <1>1, <1>3, <1>10, <1>11, TailToken
  <2>4. sctp[q]
    BY <2>3, <1>10 DEF Answered
  <2> HIDE DEF v
  <2> QED
    BY <1>9, <2>1, <2>2, <2>4
<1>14. media[q].sent \subseteq DOMAIN h.about
  BY <1>1, <1>13 DEF Settles
<1> HIDE DEF v, h
<1>15. Settles(q, q, k, media[q].sent) /\ IsToken(q, q, k)
  BY <1>6, <1>7, <1>14 DEF Settles, IsToken
<1>16. Answered(w, q, TRUE, media[q].sent)
  BY <1>3, <1>5, <1>9, <1>13, <1>15, AppendToken
<1>17. Answered(w, q, sctp[q], media[q].sent)
  BY <1>10, <1>13, <1>16
<1>18. Answered(w, p, TRUE, m.sent)
  <2>1. CASE sctp[p]
    <3>1. ~IsToken(p, q, k)
      BY <1>3, <1>6, <2>1 DEF IsToken
    <3>2. Answered(w, p, sctp[p], media[p].sent)
      BY <1>3, <1>5, <1>9, <1>12, <3>1, AppendOther
    <3>3. sctp[p] = TRUE
      BY <1>10, <2>1
    <3> QED
      BY <1>8, <3>2, <3>3, AnsweredFewer
  <2>2. CASE ~sctp[p]
    <3>1. m.sent = {} /\ sctp[p] = FALSE
      BY <1>8, <1>10, <2>2
    <3>2. IsToken(p, q, k) /\ Settles(p, q, k, m.sent)
      BY <1>3, <1>7, <2>2, <3>1 DEF IsToken, Settles
    <3>3. Answered(v, p, FALSE, media[p].sent)
      BY <1>12, <3>1
    <3> QED
      BY <1>3, <1>5, <1>9, <3>2, <3>3, AppendToken
  <2> QED
    BY <2>1, <2>2
<1>19. TRUE \in BOOLEAN
  OBVIOUS
<1> HIDE DEF w
<1> QED
  BY <1>2, <1>8, <1>9, <1>17, <1>18, <1>19, ResetEventReset DEF v, q

\* The answer to a reset settles all of its streams, and the peer is told.
LEMMA OnResetResponseReset ==
  ASSUME Inv, ResetInv, NEW p \in Peers, OnResetResponse(p)
  PROVE  ResetInv'
<1> DEFINE q == Other(p)
           v == Received(p)
           h == Head(wire[p])
           S == DOMAIN h.about
           m == ResetIncoming(media[p], S)
           C == ClosedRemotely(media[p], S)
           k == [type |-> "DONE"]
           w == [v EXCEPT ![q] = Append(@, k)]
<1>1. wire[p] # << >> /\ h.type = "RESPONSE"
  BY DEF OnResetResponse, Arrives
<1>2. ResetEvent(p, m, C, FALSE, <<k>>)
  BY DEF OnResetResponse
<1>3. q \in Peers /\ q # p /\ Other(q) = p
  BY TwoPeers
<1>4. k \in Packets /\ k.type = "DONE"
  BY DEF Packets
<1>5. MediaInv(m) /\ m.sent = media[p].sent \ DOMAIN h.about
  BY ResetIncomingLemma, ResetIncomingSent, ResetFacts
<1> HIDE DEF k, m, C, S
<1>6. /\ v \in [Peers -> Seq(Packets)] /\ v = [wire EXCEPT ![p] = Tail(@)]
      /\ w = [v EXCEPT ![q] = @ \o <<k>>] /\ w \in [Peers -> Seq(Packets)]
  BY <1>1, <1>4, ReceivedWire
<1>7. /\ Answered(wire, p, sctp[p], media[p].sent) /\ Answered(wire, q, sctp[q], media[q].sent)
      /\ wire \in [Peers -> Seq(Packets)] /\ sctp[q] \in BOOLEAN
  BY <1>3, ResetFacts
<1>8. IsToken(q, p, h) /\ IsToken(p, p, h)
  BY <1>1, <1>3 DEF IsToken
<1> HIDE DEF q
<1>9. (\A T : Answered(v, p, FALSE, T)) /\ Settles(p, p, h, media[p].sent)
  <2>1. /\ \A T : Answered([wire EXCEPT ![p] = Tail(@)], p, FALSE, T)
        /\ Settles(p, p, Head(wire[p]), media[p].sent)
    BY <1>1, <1>7, <1>8, TailToken
  <2> HIDE DEF v
  <2> QED
    BY <1>6, <2>1
<1>10. (\A T : Answered(v, q, FALSE, T)) /\ sctp[q] /\ Settles(q, p, h, media[q].sent)
  <2>1. \A T : Answered([wire EXCEPT ![p] = Tail(@)], q, FALSE, T)
    BY <1>1, <1>3, <1>7, <1>8, TailToken
  <2>2. Settles(q, p, Head(wire[p]), media[q].sent)
    BY <1>1, <1>3, <1>7, <1>8, TailToken
  <2>3. Underway(wire, q)
    BY <1>1, <1>3, <1>7, <1>8, TailToken
  <2>4. sctp[q]
    BY <2>3, <1>7 DEF Answered
  <2> HIDE DEF v
  <2> QED
    BY <1>6, <2>1, <2>2, <2>4
<1>11. m.sent = {} /\ media[q].sent = {}
  BY <1>1, <1>3, <1>5, <1>9, <1>10 DEF Settles
<1> HIDE DEF v, h
<1>12. Settles(q, q, k, media[q].sent) /\ IsToken(q, q, k) /\ ~IsToken(p, q, k)
  BY <1>3, <1>4, <1>11 DEF Settles, IsToken
<1>13. Answered(w, q, TRUE, media[q].sent)
  BY <1>3, <1>4, <1>6, <1>10, <1>12, AppendToken
<1>14. Answered(w, q, sctp[q], media[q].sent)
  BY <1>7, <1>10, <1>13
<1>15. Answered(w, p, FALSE, m.sent)
  BY <1>3, <1>4, <1>6, <1>9, <1>12, AppendOther
<1>16. FALSE \in BOOLEAN
  OBVIOUS
<1> HIDE DEF w
<1> QED
  BY <1>2, <1>5, <1>6, <1>11, <1>14, <1>15, <1>16, ResetEventReset DEF v, q

\* After a failure, or the end of the peer's reset, p waits for nothing.
LEMMA OutgoingReset ==
  ASSUME Inv, ResetInv, NEW p \in Peers, OnResetFailed(p) \/ OnResetDone(p)
  PROVE  ResetInv'
<1> DEFINE q == Other(p)
           v == Received(p)
           h == Head(wire[p])
<1>1. wire[p] # << >> /\ h.type \in {"FAILED", "DONE"}
  BY DEF OnResetFailed, OnResetDone, Arrives
<1>2. q \in Peers /\ q # p
  BY TwoPeers
<1>3. /\ v \in [Peers -> Seq(Packets)] /\ v = [wire EXCEPT ![p] = Tail(@)]
      /\ [v EXCEPT ![q] = @ \o << >>] = v
  BY <1>1, ReceivedWire
<1>4. /\ Answered(wire, p, sctp[p], media[p].sent) /\ Answered(wire, q, sctp[q], media[q].sent)
      /\ wire \in [Peers -> Seq(Packets)] /\ MediaInv(media[p])
  BY <1>2, ResetFacts
<1>5. IsToken(p, p, h) /\ ~IsToken(q, p, h)
  BY <1>1, <1>2 DEF IsToken
<1>6. (\A T : Answered(v, p, FALSE, T)) /\ Settles(p, p, h, media[p].sent)
  <2>1. /\ \A T : Answered([wire EXCEPT ![p] = Tail(@)], p, FALSE, T)
        /\ Settles(p, p, Head(wire[p]), media[p].sent)
    BY <1>1, <1>4, <1>5, TailToken
  <2> HIDE DEF v
  <2> QED
    BY <1>3, <2>1
<1>7. Answered(v, q, sctp[q], media[q].sent)
  <2>1. Answered([wire EXCEPT ![p] = Tail(@)], q, sctp[q], media[q].sent)
    BY <1>1, <1>2, <1>4, <1>5, TailOther
  <2> HIDE DEF v
  <2> QED
    BY <1>3, <2>1
<1>8. PICK m : MediaInv(m) /\ m.sent = {} /\ ResetEvent(p, m, {}, FALSE, << >>)
  <2>1. CASE OnResetFailed(p)
    <3>1. MediaInv(ResetFailed(media[p])) /\ ResetFailed(media[p]).sent = {}
      BY <1>4, ResetFailedLemma DEF ResetFailed, MediaInv, MediaRecord
    <3> QED
      BY <2>1, <3>1 DEF OnResetFailed
  <2>2. CASE OnResetDone(p)
    <3>1. media[p].sent = {}
      BY <1>6, <2>2 DEF Settles, OnResetDone, Arrives
    <3> QED
      BY <1>4, <2>2, <3>1 DEF OnResetDone
  <2> QED
    BY <2>1, <2>2
<1>9. FALSE \in BOOLEAN /\ Answered(v, p, FALSE, m.sent)
  BY <1>6
<1> HIDE DEF v
<1> QED
  BY <1>3, <1>7, <1>8, <1>9, ResetEventReset DEF v

LEMMA PostReset ==
  ASSUME Inv, ResetInv, NEW p \in Peers, HandlePost(p)
  PROVE  ResetInv'
<1> DEFINE post == Head(posts[p])
<1>1. post \in PostRecord
  BY HeadPost DEF Inv, HandlePost, HandleReady, HandleOpen, HandleData, HandleClosed
<1>2. post.sid \in Sids /\ post.n \in ChannelNumbers
  BY <1>1 DEF PostRecord
<1>3. CASE HandleReady(p)
  <2> DEFINE k == [type |-> "OPEN", sid |-> post.sid, n |-> post.n]
  <2>1. /\ media' = media /\ sctp' = sctp /\ UNCHANGED assoc
        /\ wire' = wire \/ wire' = [wire EXCEPT ![Other(p)] = Append(@, k)]
    BY <1>3 DEF HandleReady
  <2>2. k \in Packets /\ k.type = "OPEN" /\ Other(p) \in Peers
    BY <1>2, TwoPeers DEF Packets
  <2> HIDE DEF k
  <2> QED
    BY <2>1, <2>2, SendOther, NothingSent
<1>4. CASE HandleOpen(p)
  <2> DEFINE c == [n |-> post.n, state |-> "Connecting", role |-> "Acker"]
  <2>1. /\ wire' = wire /\ sctp' = sctp /\ UNCHANGED assoc
        /\ media' = media \/ AddChannel(p, post.sid, c)
    BY <1>4 DEF HandleOpen
  <2>2. \A r \in Peers : media'[r].queued = media[r].queued /\ media'[r].sent = media[r].sent
    <3> HIDE DEF c, post
    <3> QED
      BY <1>2, <2>1, AddChannelReset
  <2> QED
    BY <2>1, <2>2, NothingSent
<1>5. CASE HandleData(p)
  BY <1>5, NothingSent DEF HandleData
<1>6. CASE HandleClosed(p)
  <2>1. CASE Live(chan[p][post.sid])
    <3>1. CloseChannel(p, post.sid)
      BY <1>6, <2>1 DEF HandleClosed
    <3> QED
      BY <1>2, <2>1, <3>1, CloseChannelReset
  <2>2. CASE ~Live(chan[p][post.sid])
    BY <1>6, <2>2, NothingSent DEF HandleClosed
  <2> QED
    BY <2>1, <2>2
<1> QED
  BY <1>3, <1>4, <1>5, <1>6 DEF HandlePost

LEMMA ApplicationReset ==
  ASSUME Inv, ResetInv, NEW p \in Peers, Create(p) \/ \E s \in Sids : Close(p, s) \/ Send(p, s)
  PROVE  ResetInv'
<1>1. CASE Create(p)
  <2> DEFINE s == AllocateSid(p)
             c == [n |-> created + 1, state |-> "Connecting", role |-> "Opener"]
  <2>1. wire' = wire /\ sctp' = sctp /\ AddChannel(p, s, c) /\ UNCHANGED assoc
    BY <1>1 DEF Create
  <2>2. s \in Sids
    BY <1>1, AllocateSidType DEF Create
  <2> HIDE DEF s, c
  <2>3. \A r \in Peers : media'[r].queued = media[r].queued /\ media'[r].sent = media[r].sent
    BY <2>1, <2>2, AddChannelReset
  <2> QED
    BY <2>1, <2>3, NothingSent
<1>2. ASSUME NEW s \in Sids, Close(p, s) PROVE ResetInv'
  BY <1>2, CloseChannelReset DEF Close
<1>3. ASSUME NEW s \in Sids, Send(p, s) PROVE ResetInv'
  <2>1. Live(chan[p][s])
    BY <1>3 DEF Send, Inv, ChannelsInv
  <2>2. CASE s \in media[p].open
    <3> DEFINE k == [type |-> "DATA", sid |-> s, n |-> chan[p][s].n]
    <3>1. /\ wire' = [wire EXCEPT ![Other(p)] = Append(@, k)] /\ media' = media /\ sctp' = sctp
          /\ UNCHANGED assoc
      BY <1>3, <2>2 DEF Send
    <3>2. chan[p][s].n \in ChannelNumbers
      BY <2>1, SctpAssumption DEF Inv, ChannelsInv, ChannelRecord, Live, ChannelNumbers
    <3>3. k \in Packets /\ k.type = "DATA" /\ Other(p) \in Peers
      BY <3>2, TwoPeers DEF Packets
    <3> HIDE DEF k
    <3> QED
      BY <3>1, <3>3, SendOther
  <2>3. CASE s \notin media[p].open
    <3>1. CloseChannel(p, s)
      BY <1>3, <2>3 DEF Send
    <3> QED
      BY <2>1, <3>1, CloseChannelReset
  <2> QED
    BY <2>2, <2>3
<1> QED
  BY <1>1, <1>2, <1>3

LEMMA NextResetInv == Inv /\ ResetInv /\ [Next]_vars => ResetInv'
<1> SUFFICES ASSUME Inv, ResetInv, [Next]_vars PROVE ResetInv'
  OBVIOUS
<1>1. CASE UNCHANGED vars
  BY <1>1, NothingSent DEF vars, assoc
<1>2. ASSUME NEW p \in Peers, Create(p) \/ \E s \in Sids : Close(p, s) \/ Send(p, s) PROVE ResetInv'
  BY <1>2, ApplicationReset
<1>3. ASSUME NEW p \in Peers, HandlePost(p) PROVE ResetInv'
  BY <1>3, PostReset
<1>4. ASSUME NEW p \in Peers, Receive(p) PROVE ResetInv'
  BY <1>4, DeliverReset, OnResetRequestReset, OnResetResponseReset, OutgoingReset DEF Receive
<1>5. ASSUME NEW p \in Peers, Associate(p) PROVE ResetInv'
  BY <1>5, AssociateReset
<1> QED
  BY <1>1, <1>2, <1>3, <1>4, <1>5 DEF Next

LEMMA InitResetInv == Init => ResetInv
<1> SUFFICES ASSUME Init PROVE ResetInv
  OBVIOUS
<1>1. \A p \in Peers : /\ Len(wire[p]) = 0 /\ sctp[p] = FALSE
                       /\ media[p].queued = {} /\ media[p].sent = {}
  BY DEF Init
<1>2. NoStrandedReset
  BY <1>1 DEF NoStrandedReset
<1>3. ASSUME NEW p \in Peers PROVE Answered(wire, p, sctp[p], media[p].sent)
  BY <1>1 DEF Answered, Unique, Underway
<1> QED
  BY <1>1, <1>2, <1>3 DEF ResetInv

\* Once the association is up, whenever streams are queued for a reset or a reset is
\* unanswered, usrsctp has one outstanding, whoever resets what at the same time:
\* OnStreamResetEvent will be called again, and sends or completes it.  The only
\* streams left behind are those queued before the association was up.
THEOREM ResetsNotStranded == Spec => []NoStrandedReset
<1>1. Spec => []ResetInv
  BY InitResetInv, NextResetInv, Invariance, PTL DEF Spec
<1>2. ResetInv => NoStrandedReset
  BY DEF ResetInv
<1> QED
  BY <1>1, <1>2, PTL

\* A reset that usrsctp has outstanding is ended by exactly one packet under way, and
\* where none is outstanding there is no such packet, whichever peer resets when.
THEOREM ResetsAnswered ==
  Spec => [](\A p \in Peers : Unique(wire, p) /\ (sctp[p] <=> Underway(wire, p)))
<1>1. Spec => []ResetInv
  BY InitResetInv, NextResetInv, Invariance, PTL DEF Spec
<1>2. ResetInv => \A p \in Peers : Unique(wire, p) /\ (sctp[p] <=> Underway(wire, p))
  BY DEF ResetInv, Answered
<1> QED
  BY <1>1, <1>2, PTL
=============================================================================
