--------------------------- MODULE DataChannelOps ---------------------------
(***************************************************************************)
(* The methods of webrtc::DataChannel (talk/app/webrtc/datachannel.cc) as  *)
(* operators on one record: the channel object together with the part of   *)
(* its provider (WebRtcSession and the SCTP media channel) it can observe. *)
(*                                                                         *)
(* Every method runs to completion on the signaling thread, so a method is *)
(* a function from the channel before to the channel after.  The answers   *)
(* of provider_->SendData, which the method cannot predict, are arguments. *)
(*                                                                         *)
(*   state, handshake_state, connected_to_provider, writable,              *)
(*   send_ssrc_set, receive_ssrc_set, observer    the members of that name *)
(*   dct, role, ordered    data_channel_type_ and the handshake role and   *)
(*                         ordering of config_                             *)
(*   has_sid               config_.id >= 0                                 *)
(*   queued_control        length of queued_control_data_: a channel only  *)
(*                         ever queues copies of the one control message   *)
(*                         its role has (OPEN or OPEN_ACK)                 *)
(*   queued_send, queued_received    the packet queues of that name; their *)
(*                         byte_count_ is ByteCount of the queue           *)
(*   transport             the session's data_channel_ is not NULL         *)
(*   stream                the sid is in the media channel's open_streams_ *)
(* and histories: wire, the kinds of message SendData accepted, in order;  *)
(* sent, the data messages among them; delivered, the messages the         *)
(* observer was given, in order; closed_signals, how often SignalClosed    *)
(* was emitted; failed, whether a SendData on the SCTP channel returned    *)
(* SDR_ERROR; heard, whether a message of the remote side reached the      *)
(* channel.                                                                *)
(***************************************************************************)
EXTENDS Integers, Sequences, FiniteSets, SequencesExt

CONSTANTS
  Messages,                    \* application messages that can be sent or received
  Size,                        \* their sizes in bytes
  kMaxQueuedSendDataBytes,
  kMaxQueuedReceivedDataBytes

ASSUME SizeAssumption == Size \in [Messages -> Nat]
ASSUME LimitAssumption == /\ kMaxQueuedSendDataBytes \in Nat
                          /\ kMaxQueuedReceivedDataBytes \in Nat

DataState == {"Connecting", "Open", "Closing", "Closed"}
\* kHandshakeInit is left before Create returns.
HandshakeState == {"ShouldSendOpen", "ShouldSendAck", "WaitingForAck", "Ready"}
Roles == {"None", "Opener", "Acker"}
SendDataResult == {"SUCCESS", "BLOCK", "ERROR"}

\* What SendData accepts: the role's control message, or data.
ControlOf(role) == IF role = "Opener" THEN "OPEN" ELSE "ACK"
WireMessage == [kind : {"OPEN", "ACK", "DATA"}, ordered : BOOLEAN]

Channel ==
  [dct : {"SCTP", "RTP"}, role : Roles, ordered : BOOLEAN,
   state : DataState, handshake_state : HandshakeState,
   connected_to_provider : BOOLEAN, writable : BOOLEAN,
   send_ssrc_set : BOOLEAN, receive_ssrc_set : BOOLEAN,
   observer : BOOLEAN, has_sid : BOOLEAN,
   queued_control : Nat, queued_send : Seq(Messages),
   queued_received : Seq(Messages),
   transport : BOOLEAN, stream : BOOLEAN,
   wire : Seq(WireMessage), sent : Seq(Messages), delivered : Seq(Messages), closed_signals : Nat,
   failed : BOOLEAN, heard : BOOLEAN]

\* byte_count_ of a PacketQueue.
ByteCount(queue) ==
  LET bytes[n \in 0 .. Len(queue)] == IF n = 0 THEN 0 ELSE bytes[n - 1] + Size[queue[n]]
  IN bytes[Len(queue)]

-----------------------------------------------------------------------------
(* Closing *)

SetState(c, s) ==
  [c EXCEPT !.state = s,
            !.closed_signals =
               IF s = "Closed" /\ c.state # "Closed" THEN @ + 1 ELSE @]

\* Mutant: the stream is not removed.
DisconnectFromProviderKeepsStream(c) == [c EXCEPT !.connected_to_provider = FALSE]

DisconnectFromProvider(c) ==
  IF c.connected_to_provider
  THEN [c EXCEPT !.connected_to_provider = FALSE,
                 !.stream = @ /\ ~(c.dct = "SCTP" /\ c.has_sid)]
  ELSE c

\* Mutant: queued data does not hold up closing.
UpdateClosingDropsData(c) ==
  LET d == DisconnectFromProvider(c)
  IN IF c.queued_control = 0 /\ ~d.send_ssrc_set /\ ~d.receive_ssrc_set
     THEN SetState(d, "Closed") ELSE c

\* UpdateState in kClosing: whatever is queued is flushed first.
UpdateClosing(c) ==
  IF c.queued_send = << >> /\ c.queued_control = 0
  THEN LET d == DisconnectFromProvider(c)
       IN IF ~d.send_ssrc_set /\ ~d.receive_ssrc_set
          THEN SetState(d, "Closed") ELSE d
  ELSE c

\* Mutant: closing a closed channel is not a no-op.
CloseAgain(c) == UpdateClosing(SetState([c EXCEPT !.send_ssrc_set = FALSE], "Closing"))

Close(c) ==
  IF c.state = "Closed" THEN c
  ELSE UpdateClosing(SetState([c EXCEPT !.send_ssrc_set = FALSE], "Closing"))

\* RemotePeerRequestClose and OnTransportChannelDestroyed.
DoClose(c) ==
  IF c.state = "Closed" THEN c
  ELSE UpdateClosing(SetState([c EXCEPT !.send_ssrc_set = FALSE,
                                        !.receive_ssrc_set = FALSE], "Closing"))

-----------------------------------------------------------------------------
(* Control messages *)

\* The handshake after the provider accepted a control message.
AfterControl(handshake) ==
  CASE handshake = "ShouldSendAck"  -> "Ready"
    [] handshake = "ShouldSendOpen" -> "WaitingForAck"
    [] OTHER -> handshake

\* SendData accepts n control messages in a row: the first is ordered if it is
\* the OPEN the handshake still owes.
ControlAccepted(c, n) ==
  [c EXCEPT !.handshake_state = AfterControl(@),
            !.wire = @ \o [k \in 1 .. n |->
               [kind |-> ControlOf(c.role),
                ordered |-> c.ordered \/ (k = 1 /\ c.handshake_state = "ShouldSendOpen")]]]

SendControlMessage(c, result) ==
  CASE result = "SUCCESS" -> ControlAccepted(c, 1)
    [] result = "BLOCK" -> [c EXCEPT !.queued_control = @ + 1]
    [] result = "ERROR" -> Close([c EXCEPT !.failed = TRUE])

\* The queue is swapped out and every message in it sent with results[i].  A
\* blocked one is queued again and the loop goes on; an error runs Close(),
\* which only finds the ones blocked before it queued.
SendQueuedControlMessages(c, results) ==
  LET with(r) == {i \in 1 .. c.queued_control : results[i] = r}
      errors  == with("ERROR")
      blocked == with("BLOCK")
      first   == CHOOSE i \in errors : \A j \in errors : i <= j
      before  == {i \in blocked : i < first}
      sent    == IF with("SUCCESS") = {} THEN c
                 ELSE ControlAccepted(c, Cardinality(with("SUCCESS")))
  IN IF errors = {}
     THEN [sent EXCEPT !.queued_control = Cardinality(blocked)]
     ELSE [Close([sent EXCEPT !.failed = TRUE, !.queued_control = Cardinality(before)])
             EXCEPT !.queued_control = Cardinality(blocked)]

-----------------------------------------------------------------------------
(* Data messages *)

\* Mutant: the handshake is not waited for.
SendsOrderedAsConfigured(c) == c.dct = "SCTP" /\ c.ordered

\* RTP has no ordering; SCTP data stays ordered while OPEN/ACK is going on.
SendsOrdered(c) == c.dct = "SCTP" /\ (c.ordered \/ c.handshake_state # "Ready")

Data(c) == [kind |-> "DATA", ordered |-> SendsOrdered(c)]

\* SendData accepts these messages, one after the other.
DataAccepted(c, msgs) ==
  [c EXCEPT !.wire = @ \o [i \in 1 .. Len(msgs) |-> Data(c)], !.sent = @ \o msgs]

\* Mutant: off by one.
CanQueueSendAtLimit(c) == ByteCount(c.queued_send) <= kMaxQueuedSendDataBytes

CanQueueSend(c) == ByteCount(c.queued_send) < kMaxQueuedSendDataBytes

SendDataMessage(c, m, queue_if_blocked, result) ==
  CASE result = "SUCCESS" -> DataAccepted(c, <<m>>)
    [] result # "SUCCESS" /\ c.dct # "SCTP" -> c
    [] result = "BLOCK" /\ c.dct = "SCTP" /\ ~queue_if_blocked -> c
    [] result = "BLOCK" /\ c.dct = "SCTP" /\ queue_if_blocked /\ CanQueueSend(c) ->
         [c EXCEPT !.queued_send = Append(@, m)]
    [] OTHER -> Close([c EXCEPT !.failed = @ \/ result = "ERROR"])

\* Send() of a non-empty buffer on an open channel.
Send(c, m, result) ==
  IF c.queued_send # << >>
  THEN IF CanQueueSend(c) THEN [c EXCEPT !.queued_send = Append(@, m)] ELSE Close(c)
  ELSE SendDataMessage(c, m, TRUE, result)

\* Send() puts the message on the wire or in the queue.
Takes(c, result) ==
  IF c.queued_send # << >> THEN CanQueueSend(c)
  ELSE result = "SUCCESS" \/ (result = "BLOCK" /\ c.dct = "SCTP" /\ CanQueueSend(c))

\* Mutant: a message is popped before its result is known.
SendQueuedDataMessagesPopsFirst(c, n, result) ==
  LET sent == [DataAccepted(c, SubSeq(c.queued_send, 1, n))
                 EXCEPT !.queued_send = SubSeq(@, n + 2, Len(@))]
  IN IF n = Len(c.queued_send) THEN sent
     ELSE SendDataMessage(sent, c.queued_send[n + 1], FALSE, result)

\* The first n queued messages are accepted; if there is another one it gets
\* result, which is not SUCCESS, and stays at the head of the queue.
SendQueuedDataMessages(c, n, result) ==
  LET sent == [DataAccepted(c, SubSeq(c.queued_send, 1, n))
                 EXCEPT !.queued_send = SubSeq(@, n + 1, Len(@))]
  IN IF n = Len(c.queued_send) THEN sent
     ELSE SendDataMessage(sent, c.queued_send[n + 1], FALSE, result)

-----------------------------------------------------------------------------
(* Receiving and opening *)

DeliverQueuedReceivedData(c) ==
  IF c.observer
  THEN [c EXCEPT !.delivered = @ \o c.queued_received, !.queued_received = << >>]
  ELSE c

\* result answers the OPEN or OPEN_ACK that a channel still connecting sends.
UpdateState(c, result) ==
  CASE c.state = "Connecting" /\ c.send_ssrc_set = c.receive_ssrc_set ->
         LET d == IF c.dct = "RTP" /\ ~c.connected_to_provider
                  THEN [c EXCEPT !.connected_to_provider = c.transport] ELSE c
             e == IF d.handshake_state \in {"ShouldSendOpen", "ShouldSendAck"}
                  THEN SendControlMessage(d, result) ELSE d
         IN IF ~d.connected_to_provider THEN d
            ELSE IF e.writable /\ e.handshake_state \in {"Ready", "WaitingForAck"}
                 THEN DeliverQueuedReceivedData(SetState(e, "Open"))
                 ELSE e
    [] c.state = "Closing" -> UpdateClosing(c)
    [] OTHER -> c

\* Mutant: the state is not updated, so nothing opens.
OnChannelReadyOnlyFlushes(c, writable, answers) ==
  LET c1 == SendQueuedControlMessages([c EXCEPT !.writable = writable], answers.control)
  IN SendQueuedDataMessages(c1, answers.n, answers.data)

\* Mutant: the state is updated before the queues are flushed.
OnChannelReadyFlushesLast(c, writable, answers) ==
  LET c0 == [c EXCEPT !.writable = writable]
  IN IF ~writable THEN c0
     ELSE SendQueuedDataMessages(
            SendQueuedControlMessages(UpdateState(c0, "SUCCESS"), answers.control),
            answers.n, answers.data)

\* answers = what SendData returns to the queued control messages, the queued
\* data messages and the control message of UpdateState.
OnChannelReady(c, writable, answers) ==
  LET c0 == [c EXCEPT !.writable = writable]
      c1 == SendQueuedControlMessages(c0, answers.control)
      c2 == SendQueuedDataMessages(c1, answers.n, answers.data)
  IN IF writable THEN UpdateState(c2, answers.handshake) ELSE c0

\* An OPEN_ACK for this sid; other control messages are ignored.
OnControlReceived(c) ==
  [c EXCEPT !.heard = TRUE,
            !.handshake_state = IF @ = "WaitingForAck" THEN "Ready" ELSE @]

OnDataReceived(c, m) ==
  LET d == [c EXCEPT !.heard = TRUE,
                     !.handshake_state = IF @ = "WaitingForAck" THEN "Ready" ELSE @]
      overflow == ByteCount(d.queued_received) + Size[m] > kMaxQueuedReceivedDataBytes
      dropped == [d EXCEPT !.queued_received = << >>]
  IN CASE d.state = "Open" /\ d.observer -> [d EXCEPT !.delivered = Append(@, m)]
       [] ~(d.state = "Open" /\ d.observer) /\ ~overflow ->
            [d EXCEPT !.queued_received = Append(@, m)]
       [] OTHER -> IF d.dct # "RTP" THEN Close(dropped) ELSE dropped

-----------------------------------------------------------------------------
(* Creation and the session's calls *)

OnTransportChannelCreated(c) ==
  [c EXCEPT !.connected_to_provider = @ \/ c.transport,
            !.stream = @ \/ (c.has_sid /\ c.transport)]

SetSctpSid(c) == [c EXCEPT !.has_sid = TRUE, !.stream = @ \/ c.transport]

SetSendSsrc(c) ==
  IF c.send_ssrc_set THEN c ELSE UpdateState([c EXCEPT !.send_ssrc_set = TRUE], "ERROR")

SetReceiveSsrc(c) ==
  IF c.receive_ssrc_set THEN c ELSE UpdateState([c EXCEPT !.receive_ssrc_set = TRUE], "ERROR")

\* Mutant: a new observer does not get what waited for it.
RegisterObserverKeepsQueue(c) == [c EXCEPT !.observer = TRUE]

RegisterObserver(c) == DeliverQueuedReceivedData([c EXCEPT !.observer = TRUE])
UnregisterObserver(c) == [c EXCEPT !.observer = FALSE]

InitialHandshake(dct, role) ==
  CASE dct = "SCTP" /\ role = "Opener" -> "ShouldSendOpen"
    [] dct = "SCTP" /\ role = "Acker"  -> "ShouldSendAck"
    [] OTHER -> "Ready"

\* Create(): an SCTP channel connects at once if the transport exists.
Create(dct, role, ordered, has_sid, transport) ==
  LET c == [dct |-> dct, role |-> role, ordered |-> ordered,
            state |-> "Connecting", handshake_state |-> InitialHandshake(dct, role),
            connected_to_provider |-> FALSE, writable |-> FALSE,
            send_ssrc_set |-> FALSE, receive_ssrc_set |-> FALSE,
            observer |-> FALSE, has_sid |-> has_sid,
            queued_control |-> 0, queued_send |-> << >>, queued_received |-> << >>,
            transport |-> transport, stream |-> FALSE,
            wire |-> << >>, sent |-> << >>, delivered |-> << >>, closed_signals |-> 0,
            failed |-> FALSE, heard |-> FALSE]
  IN IF dct = "SCTP" THEN OnTransportChannelCreated(c) ELSE c
=============================================================================
