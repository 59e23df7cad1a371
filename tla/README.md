# A formal model of the WebRTC call stack: threads, data channels, transports and negotiation

This directory holds TLA+ modules that model parts of the WebRTC native library (the `talk/` and
`webrtc/` trees of the repository), TLC configurations that check them on small instances, and TLAPS
proofs. Every definition is translated from the source files named in `PROJECT.json`. Definitions
whose comment begins with `Mutant:` are plausible bugs of the definition that follows them; they are
used by nothing and exist to show that each property can fail.

## 1. The system

A WebRTC client is a set of objects that live on a few threads and call each other synchronously
(`Thread::Send`), asynchronously (`MessageQueue::Post`), or by signals on the same thread.

| Part | State it keeps | Operations | Talks to | What is hard |
|---|---|---|---|---|
| `rtc::MessageQueue` (`webrtc/base/messagequeue.cc`) | `msgq_`, heap `dmsgq_`, `msgPeek_`, `fStop_` | Post, PostDelayed, Dispose, Clear, Get, Peek, Quit | every thread | lock released between steps, wrap of the 32-bit clock, wake-ups |
| `rtc::Thread` (`webrtc/base/thread.cc`) | `sendlist_`, `fStop_`, call stack | Send, ReceiveSends, Clear, Stop, Start | every thread | re-entrancy, deadlock, pointer to a local variable of the sender, lost wake-ups |
| `AsyncInvoker`, `SharedExclusiveLock` (`webrtc/base`) | pending closures, holders | AsyncInvoke, Lock | users of the threads | destruction with work pending |
| `FifoBuffer` (`webrtc/base/stream.cc`) | ring buffer with a read position | Read, Write, ReadOffset, WriteOffset | PseudoTcp | writing ahead of what is readable |
| `webrtc::DataChannel` (`talk/app/webrtc/datachannel.cc`) | state, handshake, three queues, observer | Send, Close, RegisterObserver, OnChannelReady, OnDataReceived | WebRtcSession, PeerConnection, application | queues flushed on readiness, closing while messages wait, five ways to be closed |
| `SctpDataMediaChannel`, `SctpSidAllocator` (`talk/media/sctp`, `talk/app/webrtc`) | open, queued-for-reset and reset-sent streams, sids in use | AddStream, ResetStream, OnStreamResetEvent, SendData | usrsctp, the peer | resets of both peers that cross, sids reused while a stream closes |
| `PeerConnection`, `WebRtcSession`, description factory, identity store (`talk/app/webrtc`) | signalling state, descriptions, candidates, pending requests | Create/Set descriptions, AddIceCandidate | transports, channels | offers and answers in wrong states, requests that wait for a certificate |
| `BaseChannel`, filters (`talk/session/media`) | enabled, writable, SRTP/RTCP-mux/bundle negotiation states | SetLocal/RemoteContent, Enable | transports, engines | offers repeated or rejected half way |
| ICE: `Port`, `Connection`, `P2PTransportChannel`, `StunRequestManager`, STUN/TURN/TCP ports (`webrtc/p2p/base`) | candidate pairs and their read/write states, requests with timers | ping, response, sort, switch, prune, allocate, refresh | network, DTLS channel | lost and late packets, timeouts, role conflicts |
| `PseudoTcp` (`webrtc/p2p/base/pseudotcp.cc`) | send and receive windows, retransmission timer, RTT estimate | Connect, Send, Recv, Close, NotifyClock, NotifyPacket | a tunnel | retransmission, wrap of sequence numbers, closing |
| DTLS channel, `Transport`, `TransportController` | handshake state, cached ClientHello, aggregate states | OnReadPacket, SetRemoteFingerprint | ICE channel, session | packets before the fingerprint is known |
| Media transport: pacer, packet history, RTCP, jitter buffer, `ProcessThread` (`webrtc/modules`) | packet queues, rings indexed by sequence number, frame lists | InsertPacket, Process, WakeUp | network, codecs | wrap of 16-bit sequence numbers, limits, wake-ups |
| Signal processing, codecs, devices, capture, rendering, servers, XMPP, examples, tools | samples and pixels, operating system handles | – | – | outside the reach of a model checker |

What makes each part correct: no message is lost, duplicated, reordered or given to the wrong
object; every wait ends; an object that is closed stays closed and releases exactly what it held;
limits hold at their boundary; sequence numbers and clocks may wrap.

`PROJECT.json` lists all parts under `components`, with what is modelled and why the rest is not,
and under `hazards` the places in the code that a test would hardly reach, with the properties that
cover them.

## 2. Modules

| Module | Models | Extended by |
|---|---|---|
| `DataChannelOps` | the methods of `webrtc::DataChannel` as operators on one channel record | `DataChannel` |
| `DataChannel` | one channel, with the application, the session and the worker thread's posts around it | `MCDataChannel`, `DataChannelProofs` |
| `DataChannelProofs` | the TLAPS proofs about `DataChannel` | – |
| `SctpStreams` | two peers: sid allocator, channel list, `SctpDataMediaChannel`'s streams and resets, posts, network | `MCSctpStreams`, `SctpStreamsProofs` |
| `SctpStreamsProofs` | the TLAPS proofs about `SctpStreams` | – |
| `MessageQueue` | `rtc::MessageQueue` at the granularity of its lock, with the clock | `MCMessageQueue`, `MessageQueueProofs` |
| `MessageQueueProofs` | the TLAPS proofs about `MessageQueue` | – |
| `Threads` | `rtc::Thread`: nested synchronous sends, posted messages, Stop and Start | `MCThreads`, `ThreadsProofs` |
| `ThreadsProofs` | the TLAPS proofs about `Threads` | – |
| `FifoBuffer` | the operations of `rtc::FifoBuffer` on a ring of bytes | `PseudoTcp` |
| `PseudoTcp` | two `cricket::PseudoTcp` connections and the network between them | `MCPseudoTcp`, `PseudoTcpProofs` |
| `PseudoTcpProofs` | the TLAPS proofs about `PseudoTcp`, and that it implements `BytePipe` | – |
| `BytePipe` | what a byte stream promises its users: the abstract specification `PseudoTcp` implements | instantiated by `PseudoTcp` |
| `Ice` | two ICE agents: `P2PTransportChannel`, `Connection`, `StunRequestManager`, role conflicts | `MCIce`, `IceProofs` |
| `IceProofs` | the TLAPS proofs about `Ice` | – |
| `IdentityStore` | `DtlsIdentityStoreImpl`: keys generated on the worker thread | `MCIdentityStore`, `IdentityStoreProofs`, `Session` |
| `IdentityStoreProofs` | the TLAPS proofs about `IdentityStore` | – |
| `Session` | peer connections that negotiate, over the store they share: `WebRtcSession` and `WebRtcSessionDescriptionFactory` | `MCSession`, `SessionProofs` |
| `SessionProofs` | the TLAPS proofs that `Session` implements `IdentityStore`, and of its own properties | – |

### DataChannelOps and DataChannel

A method of `DataChannel` runs to completion on the signaling thread, so each is an operator from
the record before to the record after; calls it makes (a state update after a flush, `Close` on an
error, delivery of queued messages on opening) are part of it. What `SendData` answers is an
argument: SUCCESS, BLOCK or ERROR, restricted in `ControlResults` and `DataResults` to what the
session and the SCTP engine can answer in that state. A queued message that meets SDR_ERROR stays
queued, and `Close` then stops at kClosing, as in `SendQueuedDataMessages`. `queued_control` is a number because a
channel only ever queues copies of the one control message of its role. Fields that the code does
not have (`wire`, `sent`, `delivered`, `closed_signals`, `failed`, `heard`) record history.

`DataChannel` adds the three parties. The application acts at any time. The session creates and
destroys the transport (once each), assigns the sid, and for RTP channels sets SSRCs. The worker
thread only posts; the signaling thread handles posts in order, and those whose slot is not
connected are dropped (`HandleUnconnected`). Left out: the text of the OPEN message, the label and
protocol, statistics, and calls that the observer makes from inside a callback.

### SctpStreams

Peers A (even sids) and B (odd sids) create, use and close channels. A channel here has only the
states it needs; the module `DataChannel` has the rest, with one exception: that `AddStream` refuses
a stream that is still closing is modelled here and not there, where a channel is alone on its sid.
Each peer's signaling thread handles `posts`, its worker thread handles `wire`. The RE-CONFIG
exchange belongs to usrsctp, which is not in the repository: the actions `OnResetRequest` and
`OnResetResponse` model it from how `OnStreamResetEvent` uses it, and the map marks them external.
Channels are numbered; the number travels with a message so that properties can tell which channel
a message is about, but no guard that models the code reads it, except the MSG_CHANNELREADY post,
which is addressed to an object. Channels may be created and closed before the association of a peer
is up (`Associate`): the socket option that resets streams then fails, as it does while another reset is
outstanding (`CanReset`), and the streams stay queued; `early` records those that were queued so early.

### MessageQueue

Posting is two steps (read `fStop_` without a lock, then queue under `crit_`), and `Get` is split
where it releases `crit_`, reads `fStop_` without it, deletes a disposed object, or waits. It also reads
the time before it takes `crit_` (step `read`): the sends it receives and the posts of other threads come
in between, so that a message may be posted later than the time `Get` compares it with. Moving
due messages holds `crit_`: no other action touches the queues meanwhile (`Locked`). `msgq_` and the
heap are sets whose elements carry their position or trigger and number. Each message also carries
its true due time, an unbounded integer; the code sees it modulo `ClockModulus`. A message can be
posted only to a living handler and a handler is deleted only when nobody is posting to it, as C++
demands of any caller. Any thread may delete a handler, wherever `Get` is, except during a `Peek`, which
keeps its message without `crit_` where `Clear` does not see it; `Peek` has no caller outside the tests. What
`Get` has already handed out is the caller's. `Wait` of the socket server is a flag `woken`; errors of `Wait` are left out.
`Periods` are the stretches of time that are looked at: in one the clock does not wrap, in the other it
does. `ClockAssumption` is the assertion of `TimeAfter` in `timeutils.cc`: no delay reaches half
the range of the clock, and neither does `MaxLate`, how long a thread that posts or gets may be busy.
`Tick` keeps to it: time does not pass while a delayed message would become later than that. A delay that
is within `MaxLate` of half the range may be handed out at once; `NeverEarly` is stated for delays that are
not (`DelaysHaveRoom`).

### Threads

`stack[t]` is the call stack of a thread below its message loop, with frames for a `Send` that waits,
a handler of a sent message, a handler of a posted message and a `Join`. Handlers are arbitrary:
they may send, stop or start a thread, and return. The steps of `Send` are separate: reading
`fStop_`, queuing, waking the target, testing `ready`, receiving the target's sends, waiting,
re-signalling. `ready`, a flag on the sender's stack in the code, is a set of call numbers. Posted
messages are only counted here.

### PseudoTcp, FifoBuffer and BytePipe

A method of `PseudoTcp` is an operator on the record of a connection (`process`, `attemptSend`,
`transmit`, `NotifyClock`, ... keep their names), with the segment list, both ring buffers, windows,
duplicate acknowledgements, fast recovery, splitting of segments and the flags that say whether the
application waits for a callback. Packets are records of sequence numbers and data; the network is a
set per direction. A timer that runs may expire at any time, so the round-trip estimate, which only
sets its length, is left out. `Rooms` is what the socket does with a packet: how many more it accepts
before it fails. `PseudoTcp` implements `BytePipe` under the mapping `Pipe`: `sent` is what `Send` took,
`got` what `Recv` gave. The two meet at the level of bytes: a wrong, missing or repeated byte is a step
of the detailed specification that the abstract one does not allow.

### Ice

An agent is one worker thread; its channel and connections are one record and each handler an operator
on it. The two ends of a candidate pair share a path, which is only a number: each agent ranks its
connections by its own view of their candidates. A `Candidate` has the priority of the port, the one that is
signalled and the peer reflexive one that pings carry; a connection made from a ping has the last as its
remote priority until the candidate is signalled (`RemoteOf`, `remembered`), and an agent that the peer sees under
another address changes its own end to a peer reflexive candidate (`MaybeAddPrflxCandidate`, `mapped`).
`Priority` is the formula of RFC 5245 with `PairBase` for 2^32. Each path has a port of its own, and a tie,
which the code breaks by round-trip time, is broken by number. Requests
carry transaction ids; their answers are matched against the connection's list, which pruning clears
and a time-out shortens. Time limits (write time-outs, receiving, death) may be exceeded when the code
could see them exceeded, a bounded number of times (`late`); afterwards the network behaves. `Scenario`
fixes the roles the two sessions chose, the candidates, which of them are signalled to whom, and how often
messages are lost, limits exceeded and data sent. `MCIce` has nine, each aimed at an interplay: two paths
with a role conflict where each side learns of one path from a ping, so that each ranks the path first that
was signalled to it (`TwoPaths`), or both rank the same one first because of a relayed candidate
(`TwoPathsAlike`), or each finds that its own candidate is a peer reflexive one (`TwoPathsMapped`); two
controlled agents; a controlling side
that gives up while a message is lost; a controlled side that gives up while data arrives; answers
that are late in a conflict; a side that gives up its only path while it learns of a second one, so
that an answer may arrive for a connection that is about to be deleted (`GivenUp`); and a candidate that is
signalled after it may have been learned from a ping (`Trickle`).

`queue` holds the messages the worker thread has posted to itself (MSG_SORT, and the deletion of a
connection), in order; `busy` says that it will not wait before it has handled them. A packet is read only when no
message is left, as `MessageQueue::Get` returns to the socket server only with an empty queue. This
matters: the proof of `StateInSync` showed that the property is false without that order, and that it
has to except the time until the sort that follows a deletion, which only `GivenUp` reaches.

### IdentityStore and Session

`IdentityStore` is the store alone, with observers that each ask once. The worker's tasks are a number,
results are a sequence, identities are numbered. `Session` extends it: each observer is the description
factory of a peer connection, and `queue` is the message queue of the signaling thread, in which the
results of the store, the certificate given to a constructor and the answers to the application follow
each other. Whether a description is acceptable to the channels is chosen, at each place where the code
can fail, and what was already stored stays stored, as in the code. A `Scenario` says what the
application does: two peer connections share the store and are deleted, one negotiates, one meets
failures. RSA is what `KT_DEFAULT` stands for today (`sslidentity.h`: "This is likely to change"); with
ECDSA the store generates nothing in advance, which is checked as well and keeps it out of the scenarios
it plays no part in. The requests that wait for a certificate are served or failed in a loop over them;
`ServeRequest` is the body of that loop, and `Kept` what `MessageQueue::Clear` leaves of the queue when a session or the store is deleted.
`RequestsAccounted` is the safety behind `AllAnswered`: where each request is until it is answered.

## 3. Runs

| Run | Properties | Bounds | Shows |
|---|---|---|---|
| `datachannel` | QueuedDataHasState, NoLossNoReorder, OpenLeads, ClosedOnce, ReceivedInOrder, QueuesBounded, OnlyForward, EventuallyOpens, EventuallyCloses | 3 messages each way of sizes 1 and 2, limits of 2 bytes, 1 post, 1 control copy | the channel under every interleaving of its three callers; it opens, and a closing one whose sends meet no error closes (185,000 states) |
| `sctp_streams` | TypeOK, StreamsDisjoint, SidsOfChannels, NoStrandedReset, ResetCloses | 2 sids, 2 channels, 1 data message under way | the stream sets and the allocator stay consistent while resets cross; once the association is up no reset but an early one is stranded; a reset that meets an open stream closes the channel (95,000 states) |
| `sctp_sid_reuse` | FreedSidUsable (violated) | 2 sids, 1 channel | a sid that was released is not usable until its reset is answered, and stays unusable if the channel was closed before the association was up |
| `sctp_close_lost` | ClosePropagates (violated) | 1 channel | a close that overtakes the handling of its OPEN is lost |
| `messagequeue` | ExactlyOnce, NoMessageOfDeleted, NeverEarly, NeverOversleeps, TriggerOrderInRound, EventuallyGot | 2 handlers, 2 messages, delays of 1 and 2, a clock of 16 values, with and without a wrap | no message lost, duplicated, early, or left behind by its handler; the sleeping of `Get`; the order of triggers; every message is handed out or cleared unless the queue is stopped (1.1 million states) |
| `threads` | NoDanglingReady, NoSendForgotten, NoLostWakeUp, OnlyTargetReenters, SendReturns | 3 threads in a path, 3 sends, 2 posts, one thread stopped and restarted, its send list cleared | nested sends are safe, and crossing ones do not deadlock (507,000 states) |
| `pseudotcp` | SegmentsTile, WindowKept, NoStall, IsPipe, GracefulDelivers | 3 bytes, buffers of 2, segments of 2 split to 1, 2 packets under way, 1 lost or duplicated, A connects, writes and closes, either socket may fail, connect messages come first | the refinement of `BytePipe`, the windows, the graceful close; the only stall is that of a side whose own socket refused its connect message or data (541,000 states) |
| `pseudotcp_connect` | RightBytes (violated) | 2 bytes from B, no loss | data that overtakes the connect message puts wrong bytes into the stream |
| `ice` | NoDanglingBest, StateInSync | 2 agents, 2 paths, 1 ping under way each, 9 scenarios | nothing of a deleted connection is kept, and the states of the channel follow (364,000 states) |
| `ice_live` | RolesSettle, SamePath | the same with 7 scenarios | conflicts end and both sides can send for good; if they never rank the paths differently they settle on the same one, the best (96,000 states) |
| `session` | Promised, KeysDistinct, DescriptionsPresent, CandidatesUsed, RequestsAccounted, AllAnswered | 2 peer connections, 3 descriptions asked for, 4 to 7 calls, 1 candidate, 2 remote credentials, 4 scenarios | requests are answered once, keys are not shared, candidates are used (95,000 states) |
| `identity_spare` | OneFreeIdentity (violated) | 3 observers | the store keeps two spare identities where its assertion allows one |

Why the bounds are enough. The limit of two bytes with messages of one and two bytes reaches the
queue below, at and above its limit; three messages are one on the wire, one at the head of the
queue and one behind it. One copy of the control message can be blocked, queued and flushed; the proofs
hold for any number, and for any number of posts. Two sids are one per DTLS role, and two channels on
them are a channel and its successor. Two messages in a queue are needed to be out of order; with delays
of one and two, posted at different times, two messages due at different times are triggered in one scan and
wait in the heap while `Get` sleeps. Two posts
to threads let two handlers send to each other at the same time, three sends are a send inside a
handler of a send inside a send. `MaxLate` bounds how late the queue's thread is; the code itself
assumes less than half the clock's range. Three bytes through a buffer of two fill it, close the window
and wrap the ring; a segment of two on a path that takes one is split; two packets under way are
reordered. Two paths are what it takes to choose wrongly, two descriptions of the remote side to restart
ICE, and two peer connections to take each other's identity. `ice_live` leaves out `GivenUp` and `Trickle`,
whose graphs are too large for a liveness check of a few minutes; `ice` has both, so that `RolesSettle` and
`SamePath` say nothing about a side that gives up its only path.

`sctp_*`, `messagequeue`, `threads`, `pseudotcp*`, `session` and `identity_spare` switch the deadlock check off because their bounds
on messages, sends, bytes and calls let a finished run stop. `NoStall` says what a stop of `pseudotcp` may
look like. Most type invariants are proved (section 4) and not listed by the runs; that of `SctpStreams`,
which says that the allocator stays within the sids, is.

### Fairness

- `DataChannel`: the signaling thread keeps handling posts (WF). While the channel was not told that
  it may send, or has something queued, the worker posts readiness (SF): usrsctp reports a send
  buffer that drains or runs dry, and a buffer that refused a message is not empty. SF rather than
  WF because the bound on posts, which the code does not have, could disable it again and again.
  A buffer that keeps draining does not answer BLOCK to everything forever (SF on a READY with all
  answers SUCCESS). Both hold only until a `SendData` returned SDR_ERROR: nothing reports readiness because
  of an error, and nothing makes a retry succeed. `EventuallyCloses` asks for a channel that met none; one
  that met an error with data queued may stay in kClosing.
- `SctpStreams`: each peer's threads run, the association comes up and delivers (SCTP retransmits).
- `MessageQueue`: the thread runs and keeps calling Get, posters finish their call, time passes.
  No fairness for Quit, Clear or Peek.
- `Threads`: threads run and handlers return. Nothing forces anybody to send, or to start a thread again
  that was stopped: `SendReturns` asks for running threads.
- `Ice`: an agent's thread handles its messages, timers and packets; candidates are signalled; every
  connection that can be pinged again and again is (SF: `FindNextPingableConnection` takes the one pinged
  longest ago, and the bound on pings under way, which the code does not have, disables the action in
  between). Losses and exceeded limits are bounded by the scenario, so that they end. Data is not forced
  to be sent.
- `Session`: the worker generates, the signaling thread handles messages. Nothing forces the application.
- `PseudoTcp` has no fairness: that everything arrives needs it on every packet and timer, and those
  conditions are too expensive for TLC here. `NoStall` is the part of it that is a property of
  states: as long as something is left to read, something is under way, a timer runs, the application
  may act, or a socket refused a packet of its own side that nobody will send again (`Refused`).

### Disagreements between the code and its comments, assertions and tests

`findings` in `PROJECT.json` quotes the lines; each has a run. In short: `SignalClosed` does not tell that
the sid is free (a new channel on it opens, cannot send, and closes), and the sid of a channel that was
closed before the association was up does not become free, because `OnNotificationAssocChange` does not
send the reset that failed; a reset handled before the OPEN it follows is forgotten; a PseudoTcp connection
whose connect message is overtaken by data hands wrong bytes to its application; the identity store
generates one spare identity too many when two peer connections are created at once.

Six more are in the models, and the properties are stated around them. `OnTransportChannelDestroyed`
does not close a channel with something queued, though the comment above it says so: `EventuallyCloses`
asks for a transport. An error on a queued message does not close the channel either: the message stays,
`Close` stops at kClosing, and after a reset by the remote side, when every `SendData` fails, the channel
never closes; `EventuallyCloses` leaves out channels that met an error, and those whose stream is gone. The
longest delays that the assertion of `TimeAfter` allows are handed out at once if they are posted after
`Get` has read the time: `NeverEarly` asks for delays with room (`DelaysHaveRoom`). The controlled ICE agent
may prune the connection that the controlling one selects, when a peer reflexive candidate makes them rank
the connections differently, against the comment at `p2ptransportchannel.cc:966`; the two may then stay on
different paths, and `SamePath` asks that they never rank them differently (`RankAlike`). `Get` can return false with a ready message that was posted between its look at the
queue and its reading of `fStop_`, against `messagequeue.h`: `EventuallyGot` stops at Quit.
`DelayedMessage::operator<` compares wrapped times as unsigned numbers, so that across a wrap of the
clock a later message comes first and delays an earlier one: `TriggerOrderInRound`, `EventuallyGot` and a
part of `NeverOversleeps` hold between two wraps.

Further behaviour that the models show and nothing in the repository contradicts: two `CreateAnswer` calls
for one ICE restart give answers with different credentials, since the first resets the latch; a remote
answer with new credentials keeps the old candidates; a description that fails stays stored (the code has
a TODO about it), and `CandidatesUsed` leaves such sessions out; a connect message or data of PseudoTcp that
the socket refuses is not sent again unless something else happens, since `attemptSend` returns without a
timer: `NoStall` says that this is the only way in which the two connections wait for each other for ever;
its sequence numbers are compared without regard to their wrap.

## 4. Proofs

`DataChannelProofs` proves, for every set of messages and sizes, every limit and every bound:

| Theorem | States |
|---|---|
| `Invariance` | `Spec => []Inv`, the inductive invariant |
| `TypeCorrect` | TypeOK |
| `NothingLostOrReordered` | NoLossNoReorder |
| `QueuedDataAssertion` | QueuedDataHasState |
| `OpenIsFirst` | OpenLeads |
| `SignalsClosedOnce` | ClosedOnce |
| `StateOnlyForward` | OnlyForward |
| `DeliveredInOrder` | ReceivedInOrder |
| `QueuesStayBounded` | QueuesBounded |

The inductive invariant is `TypeOK`, `ChannelInv(ch)`, `NoLossNoReorder`, `ReceivedInOrder`,
`QueuesFit(ch)` (the two queues within their limits) and `NothingWaits(ch)`. `ChannelInv` strengthens the
properties by what the methods rely on and no property says: the handshake state fits the role
(`HandshakeFitsRole`); a channel that is open or has data queued has sent its OPEN or OPEN_ACK
(`OpenedAfterHandshake`), and an opener's handshake state determines what its wire holds
(`OpenerWire`); an SCTP channel has no SSRCs, is connected while it is not closed and has a transport,
has a stream only while connected, and is disconnected once closed (`SctpConnection`); data is queued
only on an SCTP channel that is open or closing (`QueueState`); and the number of `SignalClosed` follows
from the state (`SignalledOnce`). Without the SSRC part `UpdateClosing` could stop short of kClosed;
without `OpenedAfterHandshake` a flush does not preserve `OpenLeads`.
Each operator of `DataChannelOps` has a lemma that it preserves `ChannelInv` and either
leaves the outgoing data alone (`KeepsData`) or is a `Step`: the invariant holds after it, the outgoing
sequence is the same and the state did not move back. Steps compose (`StepTransitive`), as the methods
call each other. The invariance proof then has one step per action.

`NothingWaits` is what `ReceivedInOrder` needs: an open channel with an observer has an empty receive
queue, since `OnDataReceived` then hands the message over past the queue. It does not hold inside the
methods that open a channel or register an observer, between the assignment and the delivery, so it is
not part of a `Move` but only of a whole `Step`. The size of a queue, `byte_count_` in the code, is a sum
over its messages, a recursive function (`ByteCount`); the lemmas `ByteCountAppend` and `ByteCountRest`
say what a push and a pop do to it.

`SctpStreamsProofs` proves, for every number of sids, of channels and of messages under way:

| Theorem | States |
|---|---|
| `Invariance` | `Spec => []Inv`, the inductive invariant |
| `TypeCorrect` | TypeOK |
| `StreamsStayDisjoint` | StreamsDisjoint |
| `AllocatorMatchesChannels` | SidsOfChannels |
| `ResetsNotStranded` | NoStrandedReset |
| `ResetsAnswered` | a reset is outstanding exactly if one packet under way ends it |

Here the invariant adds to the three properties that the posts and the packets under way are sequences
of well-typed records (an OPEN or a reset that arrives names a sid and a channel), that a channel which
is not closed is in the list, and that every stream that is queued for a reset or being reset belonged
to a numbered channel, which types the reset that is sent for it. Each operator on a media channel has
a lemma that it preserves `MediaInv`; the composed steps (`AddChannel`, `CloseChannel`, `ResetEvent`)
have one each, and the invariance proof one step per action. That the allocator's choice exists rests
on the well-foundedness of the naturals.

`NoStrandedReset` needs a second invariant, `ResetInv`, which follows the resets over the wire: for each
peer there is exactly one packet under way that ends its reset (its own request, or the answer to it) if
usrsctp has one outstanding and none otherwise, and that packet settles every stream the peer has sent.
A socket option that fails before the association is up leaves streams queued with nothing outstanding:
`NoStrandedReset` is about the time after, and leaves out the streams in `early`.
Without "exactly one", two answers of crossing requests could clear `sctp` too soon.

`MessageQueueProofs` proves, for every set of handlers, every width of the clock, and all delays that
`ClockAssumption` allows:

| Theorem | States |
|---|---|
| `Invariance` | `Spec => []Inv`, the inductive invariant |
| `NothingLostOrTwice` | ExactlyOnce |
| `DeletedHandlersHaveNoMessage` | NoMessageOfDeleted |
| `DelayedNeverEarly` | NeverEarly |
| `GetNeverOversleeps` | NeverOversleeps |
| `TriggeredInOrder` | TriggerOrderInRound |

`Inv` has, besides `TypeOK` and the properties: `PeekInv` (`Get` starts with nothing peeked and keeps one
message at most), `DisposedOnce` (an object is doomed by one message and deleted before the next pass),
`HandlersExist` (the messages that posters have not queued yet count, too), `TimesInv` (every delayed
message is within half the clock's range of the present, and the time `Get` has read is at most `MaxLate`
ago while it looks for those that are triggered; with `DelaysHaveRoom` comparing clock values then compares
times, `LaterIsDifference`) and `SleepInv` (how long `Get` sleeps is bounded by every message it has seen,
and the others have woken it up). The arithmetic of the wrapping clock is a few lemmas about `%`.

`ThreadsProofs` proves, for any finite set of threads, whoever sends to, stops and clears whom:

| Theorem | States |
|---|---|
| `Invariance` | `Spec => []Inv`, the inductive invariant |
| `FlagsNeverDangle` | NoDanglingReady |
| `SendsNotForgotten` | NoSendForgotten |
| `WakeUpsNotLost` | NoLostWakeUp |
| `ReentryIsByTarget` | OnlyTargetReenters |

Here the invariant is about the shape of the stacks: calls alternate between handlers and `Send`s, and a
`Send` is re-entered only by a handler of its target (`StackInv`); calls are numbered when they are put
into a list, each with a new number (`CallsInv`), and appear in one frame (`FramesDistinct`). `WakeInv`
says of a thread that has looked at its lists and is about to wait that there was nothing to do or that
it has been, or is about to be, woken up; a nested `Send` that consumes wake-ups of the thread gives one
back at its end, which is what makes it inductive.

`IceProofs` proves, for any finite set of paths, any candidates and priorities of the two agents, any roles,
and any number of losses and exceeded limits:

| Theorem | States |
|---|---|
| `Invariance` | `Spec => []Inv`, the inductive invariant |
| `DeletedConnectionsForgotten` | NoDanglingBest |
| `ChannelStateFollows` | StateInSync |

It is an invariant of each agent: nothing points to a connection that is gone (`Linked`), a connection is
deleted by one message and is there until then (`QueueOK`), one that received something after it was
found dead has a sort behind its deletion (`DeleteSeen`), the sort that `sort_dirty_` stands for is posted
(`SortPosted`) and, while packets may be read, is behind every deletion (`Covered`), the best connection is
writable if any is (`BestSorted`), and the states of the channel follow (`WritableInSync`,
`ReceivingInSync`). That `SortConnections` finds a best one uses that paths are finitely many and
that the order by state, priority and number is total.

`IdentityStoreProofs` proves, for any set of observers and either key type:

| Theorem | States |
|---|---|
| `StorePromised` | Promised |
| `StoreKeysDistinct` | KeysDistinct |

`Promised` is inductive with `TypeOK` and `AfterDestroy` (a destroyed store has neither tasks nor results
left; without it a result could reach a store whose counter is zero). `KeysDistinct` speaks of answers; what makes
it hold is where identities are before: `ResultsDistinct` (identities in messages differ from each other
and from the free one) and `WaitingUnanswered` (who waits does so once, has asked and was not answered).

`SessionProofs` proves, for any number of peer connections and any scenario, that `Session` implements
`IdentityStore` (`SessionImplementsStore`: initial states are initial states of the store, and every step
is a step of the store or leaves it alone), and with it both properties of the composition
(`SessionPromised`, `SessionKeysDistinct`). Of the sessions themselves it proves:

| Theorem | States |
|---|---|
| `SessionInvariance` | `SessionSpec => []RequestInv`, the inductive invariant |
| `SessionDescriptionsPresent` | DescriptionsPresent |
| `SessionCandidatesUsed` | CandidatesUsed |
| `SessionRequestsAccounted` | RequestsAccounted |

`RequestInv` is `SessionInv` (which descriptions a session has in each of its states, that the media
channel is there once one was taken, and that the transport has what the session has), `Accounts` (each
request is in exactly one place) and `WaitInv` (a session with requests that wait is alive and the answer
about its certificate is on its way). The last one needs the store's invariant: it is the store that
keeps the promise.

`PseudoTcpProofs` proves, for any amount of data, all sizes of buffers, windows and segments, any options,
any number of packets under way, lost and duplicated, any order of delivery and sockets that fail:

| Theorem | States |
|---|---|
| `Invariance` | `Spec => []Inv`, the inductive invariant |
| `TypeCorrect` | TypeOK |
| `SendListIsBuffer` | SegmentsTile |
| `NothingIsCutOff` | WindowKept |
| `ReadsAreRight` | RightBytes |
| `GracefulCloseDelivers` | GracefulDelivers |
| `ImplementsPipe` | IsPipe, the refinement of `BytePipe` |

Each has the hypothesis `ConnectFirst`: connect messages are not lost and come before other packets. It is
needed, as the run `pseudotcp_connect` shows: without it `RightBytes` is violated. The assumption on the
constants that goes beyond their types is that a connect message (at most 4 bytes in the code) fits
the buffers, the congestion window and a packet.

None of the properties is inductive alone. An acknowledgement that ended inside a segment would leave one
whose bytes do not match its number (`SegmentsTile`); that none does follows from what the other side may
have received, which follows from the packets under way and from where this side cut its segments, which
is where it started. `Inv` breaks the circle by the notion of a cut, a position of the stream that was
acknowledged or lies between two segments that were sent (`Cut`): splitting a segment that was sent keeps
the old cuts, and acknowledgement moves `snd_una` only from cut to cut. For each side, `Side` says that

- the sender is right (`Sender`): segments follow each other (`Tiled`), those before `snd_nxt` were sent and
  the timer runs while there are any (`SentFirst`), the connect message is one segment (`ConnectWhole`), and
  each byte of the send buffer is the byte of the stream at its place (`RightSent`), up to what was written;
- the receiver is right (`Receiver`): what was read, can be read or was written ahead is the stream
  (`RightReceived`, `RightAhead`), and the window is free space (`Window`);
- the two fit (`Joined`): what this side has received, in order or after a gap, ends at cuts of the other;
  what it regards as acknowledged was received, and its window and `snd_nxt` stay within what the other
  side allows;
- every packet under way carries bytes of the stream between two cuts of its sender, acknowledges a cut
  of its receiver, and announces a window that its sender still keeps (`OnTheWay`);
- until a side has the other one's connect message, that message is under way (`ConnectAhead`).

A method works on one record. What it may rely on about the other side is put into a view, so that the
lemmas about `transmit`, `attemptSend`, `NewAck`, `Recover` and the other operators are about one connection:
each shows that the connection is still `Sound` with the view, and that what others know of it stays
true (`Grows`): cuts are kept, `rcv_nxt` and the right edge of the window do not move back. The last lemmas
bring the two sides together (`OwnSide`, `OtherSide`), with one step per action. The loops of `attemptSend`,
of acknowledgement and of recovery after a gap are recursive functions, followed with `UpTo`.

The assumptions are the named `ASSUME`s of the modules: sizes, limits and bounds are naturals, the
messages are `1 .. MaxMsgs`, delays and lateness stay below half the clock's range, threads and paths are
finitely many, the two agents drew different tiebreakers, priorities of candidates stay below half of
`PairBase` (the type preference has seven of eight bits), an agent behind an address its port does not know
was not signalled with it, and the key types are RSA and ECDSA.

Definitions by recursion. The library's induction theorems are out of the provers' reach because they take
an operator. Where a sum or a loop is a recursive function (`ByteCount`, the requests of a session), the
proofs use the lemma `UpTo` instead: a set that contains the first number and with each number the next one
contains all up to a bound, a consequence of the well-foundedness of the naturals. The function is first
shown to exist, then what it returns for a longer or shorter sequence. `RECURSIVE` operators and the
library's folds remain out of reach, and no module with theorems uses them.

Only model-checked: every liveness property (fairness and ENABLED are outside the prover's reach), which
includes `ResetCloses`, `EventuallyGot`, `SendReturns`, `RolesSettle`, `SamePath` and `AllAnswered`; and
`NoStall` of `PseudoTcp`.

## 5. Not modelled

The other parts of the table in section 1; reasons are in `PROJECT.json`. Within the modelled parts:

- data channels: calls of the observer from inside its callbacks; connecting and configuring the SCTP
  socket, and socket options that fail for lack of memory; the text of messages; a second data section after
  the first was rejected; `PeerConnection::OnDataChannelDestroyed`, which drops the channels of a session whose
  data channel is destroyed without releasing their sids, so that `SidsOfChannels` is about closes only;
- threads: the destruction of a MessageQueue or of a Thread object; `Thread::Send` with an
  application-supplied socket server; a handler that another thread deletes during a `Peek`. `SendReturns`
  is stated for threads that send along a path (signaling – worker – network), the way the library uses
  them: in a cycle of three threads that all send at once each waits for the next, and the code gives no
  remedy;
- PseudoTcp: options of the connect message (window scaling), round-trip times, the reset flag,
  conversation numbers, a change of the MTU after connecting, calls from inside a callback, the wrap of
  sequence numbers; of FifoBuffer, the events for threads that block on it;
- ICE: TCP connections, round-trip times in the comparison of connections (ties go by number), several
  connections of one port, ICE restarts and generations, resolution of host names, ICE-lite, retransmission
  of STUN requests, the ports that gather candidates;
- sessions: bundling, rejected sections, SDES, remote candidates that the transport refuses (`UseCandidate`
  reports success all the same), the candidates and gathering of this side, the state and
  the role of ICE, and the observers of the Set calls.

The mapped definitions stand for about 4,800 lines of source, under 1% of the repository: this is a
model of the core of the call stack, not of the tree. Signal processing, codecs and tables are mostly
arithmetic that a model would repeat. Devices, the jitter buffers, pacing, and the media engines do have
threads and state of their own; they are not modelled yet, and nothing here says anything about them.

## 6. Plan

1. Proofs: `NoStall`. It needs an invariant of its own on top of `Inv`: when `attemptSend` returns,
   nothing that could be sent is left unless something is in flight, the window is shut or the socket refused
   it (`Refused`); a connection
   in SYN_RECEIVED has nothing acknowledged; and an application that waits for a callback has an empty
   receive buffer, or a send buffer that is not empty.
2. The DTLS channel between `Ice` and `Session`: packets before the fingerprint is known, the cached
   ClientHello, and the aggregate states of the `TransportController`.
3. `DataChannel` twice over `SctpStreams`: two channel records joined by the stream model, which would
   carry `NoLossNoReorder` to the other end, as an implementation of `BytePipe`'s analogue for messages.
4. `TurnPort`: allocation, refresh and permissions, whose answers race the release of the port.
5. Media transport: `RTPPacketHistory`, the pacer's queue, the jitter buffer's NACK list, with 16-bit
   sequence numbers; `ProcessThread` and `RWLockGeneric`.
