---------------------------- MODULE DataChannel ----------------------------
(***************************************************************************)
(* One webrtc::DataChannel and everything that calls it.  Three parties    *)
(* interleave:                                                             *)
(*   - the application, through the proxy, on the signaling thread: Send,  *)
(*     Close, RegisterObserver, UnregisterObserver;                        *)
(*   - the session, on the signaling thread: the transport appears or goes *)
(*     away, a sid is assigned (SCTP), SSRCs come and go (RTP);            *)
(*   - the worker thread, which never calls the channel: it posts to the   *)
(*     signaling thread (cricket::DataChannel in talk/session/media/       *)
(*     channel.cc), and posts are handled later, in order.                 *)
(* Messages are numbered 1, 2, ... in each direction in the order in which *)
(* the channel takes them, so order and loss can be read off the numbers.  *)
(***************************************************************************)
EXTENDS DataChannelOps

CONSTANTS
  MaxMsgs,      \* bound: messages the application sends, and the remote side sends
  MaxPosts,     \* bound: posts pending on the signaling thread
  MaxControl    \* bound: copies of the control message the channel may queue

ASSUME BoundAssumption == /\ MaxMsgs \in Nat /\ MaxPosts \in Nat /\ MaxControl \in Nat
                          /\ Messages = 1 .. MaxMsgs

VARIABLES
  ch,           \* the channel, a record of DataChannelOps
  posts,        \* what is posted to the signaling thread, oldest first
  accepted,     \* number of messages Send put on the wire or in the queue
  arrived,      \* number of data messages the provider signalled to the channel
  gone          \* the transport the channel used was destroyed

vars == <<ch, posts, accepted, arrived, gone>>

Posts == {"CHANNELREADY", "READY", "NOTREADY", "ACK", "DATA", "STREAMCLOSED"}

\* The answers SendData can give: none but an error without a transport, and
\* for SCTP data none but an error once the stream left open_streams_.
ControlResults(c) == IF c.transport THEN SendDataResult ELSE {"ERROR"}
DataResults(c) ==
  IF c.transport /\ (c.stream \/ c.dct = "RTP") THEN SendDataResult ELSE {"ERROR"}

Answers(c) ==
  [control : [1 .. c.queued_control -> ControlResults(c)],
   n : {n \in 0 .. Len(c.queued_send) : n = 0 \/ "SUCCESS" \in DataResults(c)},
   data : DataResults(c) \ {"SUCCESS"},
   handshake : ControlResults(c)]

-----------------------------------------------------------------------------
\* Creation.  A ready transport posts MSG_CHANNELREADY to the new SCTP channel;
\* it is only ready once the DTLS role, and with it the sid, is known.  A
\* channel created from an OPEN message has a transport and a sid.
Init ==
  /\ \E dct \in {"SCTP", "RTP"}, role \in Roles, ordered, has_sid, transport, ready \in BOOLEAN :
       /\ dct = "RTP" => role = "None" /\ ~has_sid /\ ordered
       /\ role = "Acker" => transport /\ has_sid
       /\ ready => transport /\ has_sid
       /\ ch = Create(dct, role, ordered, has_sid, transport)
       /\ posts = IF ready THEN <<"CHANNELREADY">> ELSE << >>
  /\ accepted = 0 /\ arrived = 0
  /\ gone = FALSE

-----------------------------------------------------------------------------
(* The application *)

\* Send of a non-empty buffer on an open channel.  On any other channel, or of
\* an empty buffer, Send returns without an effect.
AppSend ==
  LET m == accepted + 1 IN
  /\ ch.state = "Open" /\ m \in Messages /\ Size[m] > 0
  /\ \E result \in DataResults(ch) :
       /\ ch' = Send(ch, m, result)
       /\ accepted' = IF Takes(ch, result) THEN m ELSE accepted
  /\ UNCHANGED <<posts, arrived, gone>>

AppClose ==
  /\ ch' = Close(ch)
  /\ UNCHANGED <<posts, accepted, arrived, gone>>

AppRegisterObserver ==
  /\ ~ch.observer
  /\ ch' = RegisterObserver(ch)
  /\ UNCHANGED <<posts, accepted, arrived, gone>>

AppUnregisterObserver ==
  /\ ch.observer
  /\ ch' = UnregisterObserver(ch)
  /\ UNCHANGED <<posts, accepted, arrived, gone>>

-----------------------------------------------------------------------------
(* The session *)

\* CreateDataChannel; only SCTP channels still listed are told.
TransportCreated ==
  /\ ~ch.transport /\ ~gone
  /\ LET c == [ch EXCEPT !.transport = TRUE]
     IN ch' = IF ch.dct = "SCTP" /\ ch.state # "Closed"
              THEN OnTransportChannelCreated(c) ELSE c
  /\ UNCHANGED <<posts, accepted, arrived, gone>>

\* AllocateSctpSids, once the DTLS role is known.
AssignSid ==
  /\ ch.dct = "SCTP" /\ ~ch.has_sid /\ ch.transport /\ ch.state # "Closed"
  /\ ch' = SetSctpSid(ch)
  /\ UNCHANGED <<posts, accepted, arrived, gone>>

\* OnDataChannelDestroyed: the channel is told, then the transport is deleted
\* together with the posts addressed to it.  Only the oldest post, the one made
\* by Create, can be addressed to the channel itself.
TransportDestroyed ==
  /\ ch.transport
  /\ ch' = [DoClose(ch) EXCEPT !.transport = FALSE]
  /\ posts' = IF posts # << >> /\ Head(posts) = "CHANNELREADY"
              THEN <<"CHANNELREADY">> ELSE << >>
  /\ gone' = TRUE
  /\ UNCHANGED <<accepted, arrived>>

\* UpdateLocalRtpDataChannels: the SSRC of the description, or 0; both set it.
LocalDescription ==
  /\ ch.dct = "RTP" /\ ~gone
  /\ ch' = SetSendSsrc(ch)
  /\ UNCHANGED <<posts, accepted, arrived, gone>>

\* UpdateRemoteRtpDataChannels with the channel in the description, or not.
RemoteDescription ==
  /\ ch.dct = "RTP" /\ ~gone
  /\ \/ ch' = SetReceiveSsrc(ch)
     \/ ch' = DoClose(ch)
  /\ UNCHANGED <<posts, accepted, arrived, gone>>

-----------------------------------------------------------------------------
(* The worker thread *)

Post(p) == Len(posts) < MaxPosts /\ posts' = Append(posts, p)

\* ChangeState, a send buffer that drained, or an association run dry.
PostReady ==
  /\ ch.transport /\ (ch.dct = "SCTP" => ch.has_sid)
  /\ Post("READY")
  /\ UNCHANGED <<ch, accepted, arrived, gone>>

\* ChangeState when the channel may no longer send.
PostNotReady ==
  /\ ch.transport
  /\ Post("NOTREADY")
  /\ UNCHANGED <<ch, accepted, arrived, gone>>

OnWire(kind) == \E i \in 1 .. Len(ch.wire) : ch.wire[i].kind = kind

\* The remote side answers an OPEN it got, and sends data on a channel it has.
PostReceived(p) ==
  /\ ch.transport /\ (ch.dct = "SCTP" => ch.has_sid)
  /\ p = "ACK" => ch.dct = "SCTP" /\ OnWire("OPEN")
  /\ ch.role = "Opener" => OnWire("OPEN")
  /\ Post(p)
  /\ UNCHANGED <<ch, accepted, arrived, gone>>

\* OnStreamResetEvent: the remote side reset the stream.
PostStreamClosed ==
  /\ ch.transport /\ ch.dct = "SCTP" /\ ch.stream
  /\ ch' = [ch EXCEPT !.stream = FALSE]
  /\ Post("STREAMCLOSED")
  /\ UNCHANGED <<accepted, arrived, gone>>

-----------------------------------------------------------------------------
(* The signaling thread handles the oldest post.  The signals of the       *)
(* transport only reach a channel that is connected to it.                 *)

HandleReady(answers) ==
  /\ posts # << >>
  /\ posts' = Tail(posts)
  /\ \/ Head(posts) = "CHANNELREADY"
     \/ Head(posts) = "READY" /\ ch.connected_to_provider
  /\ ch' = OnChannelReady(ch, TRUE, answers)
  /\ ch'.queued_control <= MaxControl
  /\ UNCHANGED <<accepted, arrived, gone>>

HandleNotReady ==
  /\ posts # << >> /\ Head(posts) = "NOTREADY" /\ ch.connected_to_provider
  /\ posts' = Tail(posts)
  /\ ch' = [ch EXCEPT !.writable = FALSE]
  /\ UNCHANGED <<accepted, arrived, gone>>

HandleAck ==
  /\ posts # << >> /\ Head(posts) = "ACK" /\ ch.connected_to_provider
  /\ posts' = Tail(posts)
  /\ ch' = OnControlReceived(ch)
  /\ UNCHANGED <<accepted, arrived, gone>>

HandleData ==
  /\ posts # << >> /\ Head(posts) = "DATA" /\ ch.connected_to_provider
  /\ arrived + 1 \in Messages
  /\ posts' = Tail(posts)
  /\ ch' = OnDataReceived(ch, arrived + 1)
  /\ arrived' = arrived + 1
  /\ UNCHANGED <<accepted, gone>>

HandleStreamClosed ==
  /\ posts # << >> /\ Head(posts) = "STREAMCLOSED" /\ ch.connected_to_provider
  /\ posts' = Tail(posts)
  /\ ch' = Close(ch)
  /\ UNCHANGED <<accepted, arrived, gone>>

\* No slot of this channel is connected; or, the bound on arrivals is reached.
HandleUnconnected ==
  /\ posts # << >> /\ Head(posts) # "CHANNELREADY"
  /\ ~ch.connected_to_provider \/ (Head(posts) = "DATA" /\ arrived + 1 \notin Messages)
  /\ posts' = Tail(posts)
  /\ UNCHANGED <<ch, accepted, arrived, gone>>

HandlePost ==
  \/ \E answers \in Answers(ch) : HandleReady(answers)
  \/ HandleNotReady \/ HandleAck \/ HandleData \/ HandleStreamClosed
  \/ HandleUnconnected

Next ==
  \/ AppSend \/ AppClose \/ AppRegisterObserver \/ AppUnregisterObserver
  \/ TransportCreated \/ AssignSid \/ TransportDestroyed
  \/ LocalDescription \/ RemoteDescription
  \/ PostReady \/ PostNotReady \/ PostStreamClosed
  \/ \E p \in {"ACK", "DATA"} : PostReceived(p)
  \/ HandlePost

Spec == Init /\ [][Next]_vars

(***************************************************************************)
(* Fairness.  The signaling thread keeps handling posts.  The worker posts *)
(* readiness while the channel was never told of it or has something       *)
(* queued: an SCTP send buffer that refused a message is not empty, and    *)
(* usrsctp reports when it drains or runs dry.  A buffer that keeps        *)
(* draining does not refuse everything forever: infinitely many READY      *)
(* posts are not all answered with BLOCK.  Nothing of the kind is assumed  *)
(* once SendData returned SDR_ERROR: nothing reports readiness then, and   *)
(* nothing makes a retry succeed.  (PostReady is strongly fair because the *)
(* code's post queue has no bound and MaxPosts must not starve it.)        *)
(***************************************************************************)
NeedsReady == ~ch.writable \/ ch.queued_control > 0 \/ ch.queued_send # << >>

AllSucceed ==
  [control |-> [i \in 1 .. ch.queued_control |-> "SUCCESS"],
   n |-> Len(ch.queued_send), data |-> "ERROR", handshake |-> "SUCCESS"]

Fairness ==
  /\ WF_vars(HandlePost)
  /\ SF_vars(~ch.failed /\ NeedsReady /\ PostReady)
  /\ SF_vars(~ch.failed /\ AllSucceed \in Answers(ch) /\ HandleReady(AllSucceed))

FairSpec == Spec /\ Fairness

-----------------------------------------------------------------------------
(* Safety *)

TypeOK ==
  /\ ch \in Channel
  /\ posts \in Seq(Posts)
  /\ accepted \in 0 .. MaxMsgs /\ arrived \in 0 .. MaxMsgs
  /\ gone \in BOOLEAN

\* The assertion of SendQueuedDataMessages: data is only ever queued on an SCTP
\* channel that is open or closing, so a closed channel has lost nothing it queued.
QueuedDataHasState ==
  ch.queued_send # << >> => ch.dct = "SCTP" /\ ch.state \in {"Open", "Closing"}

\* The data messages on the wire and then the queue are the messages Send took,
\* each once and in order: blocking, flushing and errors lose or reorder none.
NoLossNoReorder == ch.sent \o ch.queued_send = [i \in 1 .. accepted |-> i]

\* Until the remote side was heard, an opener's wire starts with an ordered OPEN
\* and everything after it is ordered, so no data can overtake the OPEN.
OpenLeads ==
  ch.role = "Opener" =>
    /\ Len(ch.wire) > 0 => ch.wire[1].kind = "OPEN" /\ ch.wire[1].ordered
    /\ ~ch.heard => \A i \in 1 .. Len(ch.wire) :
                       ch.wire[i].kind = "DATA" => ch.wire[i].ordered

\* SignalClosed is emitted exactly once, when the channel is closed, and a closed
\* SCTP channel is disconnected with its stream removed: the sid can be reused.
ClosedOnce ==
  /\ ch.closed_signals = IF ch.state = "Closed" THEN 1 ELSE 0
  /\ ch.state = "Closed" /\ ch.dct = "SCTP" => ~ch.connected_to_provider /\ ~ch.stream

\* The observer is given messages in the order of arrival, none twice, and the
\* ones that wait follow the ones it was given.
ReceivedInOrder ==
  LET all == ch.delivered \o ch.queued_received
  IN /\ \A i, j \in 1 .. Len(all) : i < j => all[i] < all[j]
     /\ \A i \in 1 .. Len(all) : all[i] <= arrived

\* The send queue was below its limit when its last message was let in, whatever was
\* flushed before and since; the receive queue never holds more than its limit.
QueuesBounded ==
  /\ ch.queued_send # << >> =>
       ByteCount(ch.queued_send) < kMaxQueuedSendDataBytes + Size[Last(ch.queued_send)]
  /\ ByteCount(ch.queued_received) <= kMaxQueuedReceivedDataBytes

-----------------------------------------------------------------------------
(* Action and liveness properties *)

Rank(s) == CASE s = "Connecting" -> 0 [] s = "Open" -> 1 [] s = "Closing" -> 2 [] s = "Closed" -> 3

\* readyState only moves forward, whoever calls: a late post or a late
\* description never reopens a channel, and a closed one never sends data again.
OnlyForward ==
  [][ /\ Rank(ch'.state) >= Rank(ch.state)
      /\ ch.state = "Closed" => ch'.sent = ch.sent ]_vars

\* An SCTP channel whose transport lives and whose sid is known opens.
EventuallyOpens ==
  (ch.dct = "SCTP" /\ ch.state = "Connecting" /\ ch.transport /\ ch.has_sid)
    ~> (ch.state # "Connecting" \/ ~ch.transport)

\* A channel that is closing with data or control queued flushes it and closes,
\* as long as its transport and its stream live and no send meets an error.  (A queued
\* message that meets SDR_ERROR stays queued, and the channel in kClosing until a retry
\* succeeds; on a stream that the remote side has reset none does.)
EventuallyCloses ==
  (ch.dct = "SCTP" /\ ch.state = "Closing" /\ ch.transport /\ ch.stream /\ ~ch.failed)
    ~> (ch.state = "Closed" \/ ~ch.transport \/ ~ch.stream \/ ch.failed)
=============================================================================
