---------------------------- MODULE SctpStreams ----------------------------
(***************************************************************************)
(* How the SCTP data channels of two peers share stream ids: the sid       *)
(* allocator (talk/app/webrtc/datachannel.cc), the list of channels of the *)
(* PeerConnection and the stream resets of SctpDataMediaChannel            *)
(* (talk/media/sctp/sctpdataengine.cc).                                    *)
(*                                                                         *)
(* A channel is reduced to what its sid depends on: it is created by the   *)
(* application or by an OPEN message, opens when it is told that the       *)
(* transport is ready, sends, and closes with nothing queued (module       *)
(* DataChannel has the rest).  Every channel created by an application     *)
(* gets a number; an OPEN, a data message and a reset carry the number of  *)
(* the channel they are about, which the code does not: the properties use *)
(* it to tell a channel from an earlier one with the same sid.             *)
(*                                                                         *)
(* On each peer a signaling thread runs the channels and the allocator,    *)
(* and a worker thread runs the media channel and posts to the signaling   *)
(* thread.  Calls from the signaling to the worker thread block.           *)
(* Channels may be created and closed before the SCTP association is up.   *)
(***************************************************************************)
EXTENDS Integers, Sequences, FiniteSets

CONSTANTS
  kMaxSctpSid,     \* largest sid
  MaxChannels,     \* bound: channels the applications create
  MaxData          \* bound: data messages no channel was given yet

ASSUME SctpAssumption == /\ kMaxSctpSid \in Nat /\ MaxChannels \in Nat /\ MaxData \in Nat

Peers == {"A", "B"}
Other(p) == IF p = "A" THEN "B" ELSE "A"
Sids == 0 .. kMaxSctpSid

VARIABLES
  used,      \* used[p]: used_sids_ of the allocator
  chan,      \* chan[p][sid]: the channel of sctp_data_channels_ with that sid
  media,     \* media[p]: the media channel's sets of streams
  sctp,      \* sctp[p]: usrsctp has a stream reset of its own outstanding
  posts,     \* posts[p]: what is posted to the signaling thread, oldest first
  wire,      \* wire[p]: what is on its way to p, oldest first
  created,   \* number of channels applications created
  up,        \* up[p]: the association of p is established
  early      \* early[p]: the streams queued before that and not reset since

assoc == <<up, early>>
vars == <<used, chan, media, sctp, posts, wire, created, up, early>>

Roles == {"Opener", "Acker"}
ChannelNumbers == 1 .. MaxChannels
NoChannel == [n |-> 0, state |-> "Closed", role |-> "None"]
Live(c) == c.n # 0

\* About(sids): the number of the channel each sid in a reset was used by.
Resets == [type : {"RESET", "RESPONSE"}, about : UNION {[S -> ChannelNumbers] : S \in SUBSET Sids}]
Packets == [type : {"OPEN", "DATA"}, sid : Sids, n : ChannelNumbers]
             \cup Resets \cup [type : {"FAILED", "DONE"}]
PostTypes == {"READY", "OPEN", "DATA", "CLOSED"}

TypeOK ==
  /\ used \in [Peers -> SUBSET Sids]
  /\ chan \in [Peers -> [Sids -> [n : 0 .. MaxChannels, state : {"Connecting", "Open", "Closed"},
                                  role : Roles \cup {"None"}]]]
  /\ media \in [Peers -> [open : SUBSET Sids, queued : SUBSET Sids, sent : SUBSET Sids,
                          last : [Sids -> 0 .. MaxChannels]]]
  /\ sctp \in [Peers -> BOOLEAN]
  /\ \A p \in Peers :
       /\ \A i \in 1 .. Len(posts[p]) :
            posts[p][i] \in [type : PostTypes, sid : Sids, n : ChannelNumbers]
       /\ \A i \in 1 .. Len(wire[p]) : wire[p][i] \in Packets
  /\ created \in 0 .. MaxChannels
  /\ up \in [Peers -> BOOLEAN] /\ early \in [Peers -> SUBSET Sids]

Init ==
  /\ used = [p \in Peers |-> {}]
  /\ chan = [p \in Peers |-> [s \in Sids |-> NoChannel]]
  /\ media = [p \in Peers |-> [open |-> {}, queued |-> {}, sent |-> {},
                               last |-> [s \in Sids |-> 0]]]
  /\ sctp = [p \in Peers |-> FALSE]
  /\ posts = [p \in Peers |-> << >>]
  /\ wire = [p \in Peers |-> << >>]
  /\ created = 0
  /\ up = [p \in Peers |-> FALSE] /\ early = [p \in Peers |-> {}]

-----------------------------------------------------------------------------
(* The sid allocator *)

\* Even ids for the DTLS client, odd ones for the server.
FirstSid(p) == IF p = "A" THEN 0 ELSE 1
Available(p) == {s \in Sids \ used[p] : s % 2 = FirstSid(p)}

\* Mutant: the next sid is the number of sids in use, whichever are free.
AllocateSidByCount(p) == FirstSid(p) + 2 * Cardinality(used[p])

AllocateSid(p) == CHOOSE s \in Available(p) : \A t \in Available(p) : s <= t

-----------------------------------------------------------------------------
(* The media channel.  last[s] is the number of the channel whose stream s *)
(* was reset last.                                                         *)

\* Mutant: a stream that is still closing can be added.
AddStreamWhileClosing(m, s) == [m EXCEPT !.open = @ \cup {s}]

AddStream(m, s) ==
  IF s \in m.open \cup m.queued \cup m.sent THEN m ELSE [m EXCEPT !.open = @ \cup {s}]

\* One reset at a time; if usrsctp refuses the socket option the streams stay queued.
CanReset(m, refused) == m.sent = {} /\ m.queued # {} /\ ~refused

SendQueuedStreamResets(m, refused) ==
  IF CanReset(m, refused) THEN [m EXCEPT !.sent = m.queued, !.queued = {}] ELSE m

\* usrsctp puts the streams in one RE-CONFIG.
ResetPackets(m, refused) ==
  IF CanReset(m, refused)
  THEN <<[type |-> "RESET", about |-> [s \in m.queued |-> m.last[s]]]>> ELSE << >>

\* ResetStream up to its call of SendQueuedStreamResets.
QueueReset(m, s, n) ==
  IF s \in m.open
  THEN [m EXCEPT !.open = @ \ {s}, !.queued = @ \cup {s}, !.last[s] = n] ELSE m

\* Mutant: a failed reset is not queued again.
ResetFailedKeepsSent(m) == m

\* OnStreamResetEvent up to its call of SendQueuedStreamResets: a failed reset.
ResetFailed(m) == [m EXCEPT !.queued = @ \cup m.sent, !.sent = {}]

\* The same for an INCOMING reset of the streams S: each one is the answer to our
\* reset, or is open and closed by the peer, or was about to be reset by us.
ResetIncoming(m, S) ==
  [m EXCEPT !.sent = @ \ S,
            !.open = @ \ (S \ m.sent),
            !.queued = @ \ ((S \ m.sent) \ m.open)]

\* Mutant: the peer's reset of an open stream is not signaled.
ClosedRemotelyUnseen(m, S) == {}

ClosedRemotely(m, S) == (S \ m.sent) \cap m.open

\* usrsctp refuses a reset while it has one outstanding, and before there is an
\* association: no socket yet, or a peer it has not heard of.
Refused(p) == sctp[p] \/ ~up[p]

\* The media channel of p becomes m and tries to send the queued resets.
UpdateMedia(p, m) ==
  /\ media' = [media EXCEPT ![p] = SendQueuedStreamResets(m, Refused(p))]
  /\ sctp' = [sctp EXCEPT ![p] = @ \/ CanReset(m, Refused(p))]
  /\ wire' = [wire EXCEPT ![Other(p)] = @ \o ResetPackets(m, Refused(p))]
  /\ early' = [early EXCEPT ![p] = @ \cap media'[p].queued]
  /\ UNCHANGED up

-----------------------------------------------------------------------------
(* The application and the PeerConnection *)

AddChannel(p, s, c) ==
  /\ chan' = [chan EXCEPT ![p][s] = c]
  /\ used' = [used EXCEPT ![p] = @ \cup {s}]
  /\ media' = [media EXCEPT ![p] = AddStream(@, s)]

\* CreateDataChannel: InternalCreateDataChannel and DataChannel::Create, which
\* posts MSG_CHANNELREADY.
Create(p) ==
  /\ created < MaxChannels /\ Available(p) # {}
  /\ LET s == AllocateSid(p) IN
       /\ AddChannel(p, s, [n |-> created + 1, state |-> "Connecting", role |-> "Opener"])
       /\ posts' = [posts EXCEPT ![p] = Append(@, [type |-> "READY", sid |-> s, n |-> created + 1])]
  /\ created' = created + 1
  /\ UNCHANGED <<sctp, wire, assoc>>

\* Mutant: the sid is not released.
CloseKeepsSid(p, s) ==
  /\ chan' = [chan EXCEPT ![p][s] = NoChannel]
  /\ UpdateMedia(p, QueueReset(media[p], s, chan[p][s].n))
  /\ UNCHANGED used

\* A channel with nothing queued closes: RemoveSctpDataStream, then SignalClosed,
\* on which OnSctpDataChannelClosed releases the sid.
CloseChannel(p, s) ==
  /\ chan' = [chan EXCEPT ![p][s] = NoChannel]
  /\ used' = [used EXCEPT ![p] = @ \ {s}]
  /\ UpdateMedia(p, QueueReset(media[p], s, chan[p][s].n))

Close(p, s) ==
  /\ Live(chan[p][s])
  /\ CloseChannel(p, s)
  /\ UNCHANGED <<posts, created>>

\* The data messages that no channel was given yet.
DataUnderway ==
  Len(SelectSeq(wire["A"] \o posts["A"] \o wire["B"] \o posts["B"], LAMBDA m : m.type = "DATA"))

\* SendData refuses a stream that is not open, and the channel closes.
Send(p, s) ==
  /\ chan[p][s].state = "Open"
  /\ \/ /\ s \in media[p].open
        /\ DataUnderway < MaxData
        /\ wire' = [wire EXCEPT ![Other(p)] =
                      Append(@, [type |-> "DATA", sid |-> s, n |-> chan[p][s].n])]
        /\ UNCHANGED <<used, chan, media, sctp, assoc>>
     \/ /\ s \notin media[p].open
        /\ CloseChannel(p, s)
  /\ UNCHANGED <<posts, created>>

-----------------------------------------------------------------------------
(* The signaling thread *)

\* MSG_CHANNELREADY: the opener sends OPEN, which SendData does not refuse.
HandleReady(p) ==
  LET post == Head(posts[p]) IN
  /\ posts[p] # << >> /\ post.type = "READY"
  /\ posts' = [posts EXCEPT ![p] = Tail(@)]
  /\ IF chan[p][post.sid].n = post.n
     THEN /\ chan' = [chan EXCEPT ![p][post.sid].state = "Open"]
          /\ wire' = IF chan[p][post.sid].role # "Opener" THEN wire
                     ELSE [wire EXCEPT ![Other(p)] =
                             Append(@, [type |-> "OPEN", sid |-> post.sid, n |-> post.n])]
     ELSE UNCHANGED <<chan, wire>>
  /\ UNCHANGED <<used, media, sctp, created, assoc>>

\* OnDataChannelOpenMessage: nothing happens if the sid cannot be reserved.
HandleOpen(p) ==
  LET post == Head(posts[p]) IN
  /\ posts[p] # << >> /\ post.type = "OPEN"
  /\ IF post.sid \notin used[p]
     THEN /\ AddChannel(p, post.sid, [n |-> post.n, state |-> "Connecting", role |-> "Acker"])
          /\ posts' = [posts EXCEPT ![p] = Append(Tail(@), [post EXCEPT !.type = "READY"])]
     ELSE /\ posts' = [posts EXCEPT ![p] = Tail(@)]
          /\ UNCHANGED <<chan, used, media>>
  /\ UNCHANGED <<sctp, wire, created, assoc>>

\* DataChannel::OnDataReceived of the channel with that sid, if there is one.
HandleData(p) ==
  LET post == Head(posts[p]) IN
  /\ posts[p] # << >> /\ post.type = "DATA"
  /\ posts' = [posts EXCEPT ![p] = Tail(@)]
  /\ UNCHANGED <<used, chan, media, sctp, wire, created, assoc>>

\* OnStreamClosedRemotely of the channel with that sid, if there is one.
HandleClosed(p) ==
  LET post == Head(posts[p]) IN
  /\ posts[p] # << >> /\ post.type = "CLOSED"
  /\ posts' = [posts EXCEPT ![p] = Tail(@)]
  /\ IF Live(chan[p][post.sid]) THEN CloseChannel(p, post.sid)
     ELSE UNCHANGED <<used, chan, media, sctp, wire, assoc>>
  /\ UNCHANGED created

-----------------------------------------------------------------------------
(* The worker thread handles what arrives once the association is up; what *)
(* was sent before then waits in usrsctp.  The exchange of RE-CONFIG      *)
(* chunks is usrsctp's: a request resets both directions, so the peer      *)
(* answers with a reset of its own, which is acknowledged (DONE); a        *)
(* request that meets one of the peer's still resets the direction of the  *)
(* sender, and is told that the other one failed.                          *)

\* SCTP_COMM_UP, on which the media channel does nothing.
Associate(p) ==
  /\ ~up[p]
  /\ up' = [up EXCEPT ![p] = TRUE]
  /\ early' = [early EXCEPT ![p] = media[p].queued]
  /\ UNCHANGED <<used, chan, media, sctp, posts, wire, created>>

Arrives(p, type) == up[p] /\ wire[p] # << >> /\ Head(wire[p]).type = type

\* The messages sent while p handles the head of wire[p].
Received(p) == [wire EXCEPT ![p] = Tail(@)]

Deliver(p) ==
  LET pk == Head(wire[p]) IN
  /\ Arrives(p, "OPEN") \/ Arrives(p, "DATA")
  /\ posts' = [posts EXCEPT ![p] = Append(@, pk)]
  /\ wire' = Received(p)
  /\ UNCHANGED <<used, chan, media, sctp, created, assoc>>

\* OnStreamResetEvent: m is the media channel after the event, S the streams the
\* peer closed with it, lowest sid first, outstanding and extra usrsctp's state and answer.
ResetEvent(p, m, S, outstanding, extra) ==
  /\ media' = [media EXCEPT ![p] = SendQueuedStreamResets(m, outstanding)]
  /\ sctp' = [sctp EXCEPT ![p] = outstanding \/ CanReset(m, outstanding)]
  /\ wire' = [Received(p) EXCEPT ![Other(p)] = @ \o extra \o ResetPackets(m, outstanding)]
  /\ \E sids \in [1 .. Cardinality(S) -> S] :
       /\ \A i, j \in DOMAIN sids : i < j => sids[i] < sids[j]
       /\ posts' = [posts EXCEPT ![p] = @ \o [i \in DOMAIN sids |->
            [type |-> "CLOSED", sid |-> sids[i], n |-> Head(wire[p]).about[sids[i]]]]]
  /\ early' = [early EXCEPT ![p] = @ \cap media'[p].queued]
  /\ UNCHANGED <<used, chan, created, up>>

OnResetRequest(p) ==
  LET S == DOMAIN Head(wire[p]).about IN
  /\ Arrives(p, "RESET")
  /\ ResetEvent(p, ResetIncoming(media[p], S), ClosedRemotely(media[p], S), TRUE,
                IF sctp[p] THEN <<[type |-> "FAILED"]>>
                ELSE <<[Head(wire[p]) EXCEPT !.type = "RESPONSE"]>>)

OnResetResponse(p) ==
  LET S == DOMAIN Head(wire[p]).about IN
  /\ Arrives(p, "RESPONSE")
  /\ ResetEvent(p, ResetIncoming(media[p], S), ClosedRemotely(media[p], S), FALSE,
                <<[type |-> "DONE"]>>)

OnResetFailed(p) ==
  /\ Arrives(p, "FAILED")
  /\ ResetEvent(p, ResetFailed(media[p]), {}, FALSE, << >>)

\* The OUTGOING event: it only tries to send what is queued.
OnResetDone(p) ==
  /\ Arrives(p, "DONE")
  /\ ResetEvent(p, media[p], {}, FALSE, << >>)

HandlePost(p) == HandleReady(p) \/ HandleOpen(p) \/ HandleData(p) \/ HandleClosed(p)

Receive(p) ==
  Deliver(p) \/ OnResetRequest(p) \/ OnResetResponse(p) \/ OnResetFailed(p) \/ OnResetDone(p)

Next ==
  \E p \in Peers :
    \/ Create(p)
    \/ \E s \in Sids : Close(p, s) \/ Send(p, s)
    \/ HandlePost(p) \/ Receive(p) \/ Associate(p)

Spec == Init /\ [][Next]_vars

\* Posts are handled, and the association comes up and delivers.
FairSpec ==
  Spec /\ \A p \in Peers : WF_vars(HandlePost(p)) /\ WF_vars(Receive(p)) /\ WF_vars(Associate(p))

-----------------------------------------------------------------------------
(* Properties *)

\* A stream is open, queued for a reset or being reset, never two of these.
StreamsDisjoint ==
  \A p \in Peers : /\ media[p].open \cap (media[p].queued \cup media[p].sent) = {}
                   /\ media[p].queued \cap media[p].sent = {}

\* The allocator's sids are exactly those of the channels the PeerConnection
\* lists: no close by the application, by the peer or on a send error leaks a sid
\* or frees that of another channel.  (OnDataChannelDestroyed, which is not
\* modelled, does leak them.)
SidsOfChannels == \A p \in Peers : used[p] = {s \in Sids : Live(chan[p][s])}

\* While the association is up a reset that is queued or unanswered has a reset of
\* usrsctp outstanding, so that an event will come which retries or completes it;
\* only a stream that was queued before the association was up can be stranded.
NoStrandedReset ==
  \A p \in Peers : up[p] /\ (media[p].queued \ early[p]) \cup media[p].sent # {} => sctp[p]

\* A reset on its way to a peer whose channel has the stream open closes that
\* channel in the end, whatever else is reset at the same time.
ResetCloses ==
  \A p \in Peers, s \in Sids, n \in ChannelNumbers :
    (/\ chan[p][s].n = n /\ s \in media[p].open
     /\ \E i \in 1 .. Len(wire[p]) : /\ wire[p][i].type = "RESET"
                                     /\ s \in DOMAIN wire[p][i].about
                                     /\ wire[p][i].about[s] = n)
      ~> (chan[p][s].n # n)

-----------------------------------------------------------------------------
(* What comments and tests of the repository say and the code does not do *)

\* datachannel.h, SignalClosed: "this signal can be used to tell when the channel's
\* sid is free": a sid that was released on it can be used for a stream again, if not
\* at once then in the end.
FreedSidUsable ==
  \A p \in Peers, s \in Sids :
    (s \notin used[p]) ~> (s \notin media[p].queued \cup media[p].sent)

\* sctpdataengine_unittest.cc, ClosesRemoteStream: "Close channel 1.  Channel 2
\* should notify us.": a channel made by an OPEN closes after its opener did and
\* sent the reset.
ClosePropagates ==
  \A p \in Peers, s \in Sids, n \in ChannelNumbers :
    (/\ chan[p][s].n = n /\ chan[p][s].role = "Acker"
     /\ chan[Other(p)][s].n # n /\ s \notin media[Other(p)].queued)
      ~> (chan[p][s].n # n)
=============================================================================
