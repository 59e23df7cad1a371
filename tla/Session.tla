------------------------------ MODULE Session ------------------------------
(***************************************************************************)
(* Peer connections that negotiate: webrtc::WebRtcSession (webrtcsession   *)
(* .cc) with its WebRtcSessionDescriptionFactory, all on the signaling     *)
(* thread, and the identity store they share, whose worker thread is the   *)
(* other actor.                                                            *)
(*                                                                         *)
(* A description has one media section.  What a description says is        *)
(* abstracted to its type, the number of its ICE credentials and the       *)
(* candidates it holds; those of this side also have a session version.    *)
(* Whether a description is accepted by the channels is not modelled but   *)
(* chosen: it may fail at each of the places where the code can fail.      *)
(* RTP streams, bundling, SDES and the gathering of candidates of this     *)
(* side are left out.                                                      *)
(***************************************************************************)
EXTENDS IdentityStore, SequencesExt

CONSTANTS
  Candidates,    \* candidates of the remote side
  Scenarios,     \* what the application does, see Scenario
  MaxAsked       \* bound: descriptions the application asks for

\* The peer connections it creates, where their certificate comes from, the calls it
\* makes in all, the ICE credentials of the remote side, the methods it calls, and
\* whether what can fail may fail.
Methods == {"CreateOffer", "CreateAnswer", "SetLocal", "SetRemote", "AddIce", "Close", "Destroy"}
Sources == {"store", "parameter", "none"}
Scenario == [peers : SUBSET Observers, source : Sources, key_type : KeyTypes, calls : Nat,
             remote_ufrags : SUBSET Nat, methods : SUBSET Methods, fails : BOOLEAN]

ASSUME ScenariosAssumption == Scenarios \subseteq Scenario /\ MaxAsked \in Nat

VARIABLES
  scenario,
  session,       \* session[p]: the session of p
  queue,         \* messages in the queue of the signaling thread, oldest first
  calls,         \* number of calls made
  asked,         \* number of descriptions asked for; their numbers are the requests' ids
  called,        \* ids of the requests whose observer was called back, oldest first
  created        \* descriptions the application was given

sessionVars == <<scenario, session, queue, calls, asked, called, created, storeVars>>

NoDesc == [type |-> "none"]
Types == {"offer", "pranswer", "answer"}

\* A candidate is tagged with the credentials of the description it was added to.
Candidate == Candidates \X Nat
LocalDesc == [type : Types, version : Nat, ufrag : Nat]
RemoteDesc == [type : Types, ufrag : Nat, candidates : SUBSET Candidate]

States == {"INIT", "SENTOFFER", "RECEIVEDOFFER", "SENTPRANSWER", "RECEIVEDPRANSWER",
           "INPROGRESS", "CLOSED"}
CertificateStates == {"NOT_NEEDED", "WAITING", "SUCCEEDED", "FAILED"}
Request == [type : {"offer", "answer"}, id : Nat, restart : BOOLEAN]

WebRtcSession ==
  [life : {"none", "alive", "deleted"},
   certificate : CertificateStates, requests : Seq(Request), version : Nat,
   state : States, error : BOOLEAN,
   local : LocalDesc \cup {NoDesc}, remote : RemoteDesc \cup {NoDesc},
   latch : BOOLEAN,                    \* IceRestartAnswerLatch
   channel : BOOLEAN,                  \* the media channel exists
   local_set : BOOLEAN, remote_set : BOOLEAN,       \* of its transport
   used : SUBSET Candidate,            \* remote candidates given to the transport
   accepted : SUBSET Candidate,        \* candidates for which AddIceCandidate returned true
   rejected : BOOLEAN]                 \* a description failed after it was stored

NewSession(certificate) ==
  [life |-> "alive", certificate |-> certificate, requests |-> << >>, version |-> 2,
   state |-> "INIT", error |-> FALSE, local |-> NoDesc, remote |-> NoDesc, latch |-> FALSE,
   channel |-> FALSE, local_set |-> FALSE, remote_set |-> FALSE,
   used |-> {}, accepted |-> {}, rejected |-> FALSE]

SessionInit ==
  /\ Init
  /\ scenario \in Scenarios /\ scenario.key_type = key_type
  /\ session = [p \in Observers |-> [NewSession("NOT_NEEDED") EXCEPT !.life = "none"]]
  /\ queue = << >> /\ calls = 0 /\ asked = 0 /\ called = << >> /\ created = [p \in Observers |-> {}]

-----------------------------------------------------------------------------
(* The description factory.  Its operators return the session and what it   *)
(* posts to the signaling thread.                                           *)

Created(p, r, d) == [kind |-> "CREATED", peer |-> p, id |-> r.id, desc |-> d]

Posting(s, msgs) == [session |-> s, msgs |-> msgs]

FailPendingRequests(p, s) ==
  Posting([s EXCEPT !.requests = << >>],
          [i \in DOMAIN s.requests |-> Created(p, s.requests[i], NoDesc)])

\* InternalCreateOffer and InternalCreateAnswer; `ok' if the media session could be
\* described.  The version is used up even if it was not.
InternalCreate(p, s, r, ok) ==
  LET restart == IF r.type = "answer" THEN s.latch ELSE r.restart
      d == [type |-> r.type, version |-> s.version,
            ufrag |-> IF s.local = NoDesc \/ restart THEN s.version ELSE s.local.ufrag]
  IN Posting([s EXCEPT !.version = @ + 1, !.latch = @ /\ ~(r.type = "answer" /\ ok)],
             << Created(p, r, IF ok THEN d ELSE NoDesc) >>)

ServeRequest(p, done, r, ok) ==
  LET next == InternalCreate(p, done.session, r, ok)
  IN Posting(next.session, done.msgs \o next.msgs)

\* The requests that wait are served in order; those in `bad' fail.
SetCertificate(p, s, bad) ==
  LET first == Posting([s EXCEPT !.certificate = "SUCCEEDED", !.requests = << >>], << >>)
      served[n \in 0 .. Len(s.requests)] ==
        IF n = 0 THEN first
        ELSE ServeRequest(p, served[n - 1], s.requests[n], s.requests[n].id \notin bad)
  IN served[Len(s.requests)]

OnIdentityRequestFailed(p, s) == FailPendingRequests(p, [s EXCEPT !.certificate = "FAILED"])

\* CreateOffer and CreateAnswer for a request that passed the checks of its own type.
CreateDescription(p, s, r, valid, ok) ==
  IF s.certificate = "FAILED" \/ ~valid THEN Posting(s, << Created(p, r, NoDesc) >>)
  ELSE IF s.certificate = "WAITING" THEN Posting([s EXCEPT !.requests = Append(@, r)], << >>)
  ELSE InternalCreate(p, s, r, ok)

-----------------------------------------------------------------------------
(* Setting a description *)

ExpectSetLocalDescription(s, type) ==
  \/ type = "offer" /\ s.state \in {"INIT", "SENTOFFER", "INPROGRESS"}
  \/ type # "offer" /\ s.state \in {"RECEIVEDOFFER", "SENTPRANSWER"}

\* Mutant: an answer is also taken while the remote side's offer is unanswered.
ExpectSetRemoteDescriptionAnswers(s, type) ==
  \/ type = "offer" /\ s.state \in {"INIT", "RECEIVEDOFFER", "INPROGRESS"}
  \/ type # "offer" /\ s.state \in {"SENTOFFER", "RECEIVEDPRANSWER", "RECEIVEDOFFER"}

ExpectSetRemoteDescription(s, type) ==
  \/ type = "offer" /\ s.state \in {"INIT", "RECEIVEDOFFER", "INPROGRESS"}
  \/ type # "offer" /\ s.state \in {"SENTOFFER", "RECEIVEDPRANSWER"}

\* Where a description that was stored can fail: creating the channels for an offer,
\* the transports, and the channels.
Outcomes(type) ==
  {"ok"} \cup IF ~scenario.fails THEN {}
              ELSE {"transport", "content"} \cup IF type = "offer" THEN {"channels"} ELSE {}

NextState(type, source) ==
  CASE type = "answer" -> "INPROGRESS"
    [] type = "offer" -> IF source = "LOCAL" THEN "SENTOFFER" ELSE "RECEIVEDOFFER"
    [] type = "pranswer" -> IF source = "LOCAL" THEN "SENTPRANSWER" ELSE "RECEIVEDPRANSWER"

\* CreateChannels and UpdateSessionState for a description that is already stored in s.
UpdateSessionState(s, type, source, outcome) ==
  LET pushed == [s EXCEPT !.channel = @ \/ type = "offer", !.state = NextState(type, source),
                          !.local_set = @ \/ source = "LOCAL", !.remote_set = @ \/ source = "REMOTE"]
  IN CASE outcome = "ok" -> pushed
       [] outcome = "content" -> [pushed EXCEPT !.error = TRUE, !.rejected = TRUE]
       [] outcome = "transport" -> [s EXCEPT !.channel = @ \/ type = "offer", !.rejected = TRUE]
       [] outcome = "channels" -> [s EXCEPT !.rejected = TRUE]

\* ReadyToUseRemoteCandidate and UseCandidate for candidates C.
UseCandidates(s, C) ==
  IF s.channel /\ s.local_set /\ s.remote_set THEN [s EXCEPT !.used = @ \cup C] ELSE s

\* Mutant: candidates that came too early stay unused.
SetLocalKeepsCandidates(s, d, outcome) ==
  UpdateSessionState([s EXCEPT !.local = d], d.type, "LOCAL", outcome)

SetLocal(s, d, outcome) ==
  LET t == UpdateSessionState([s EXCEPT !.local = d], d.type, "LOCAL", outcome)
  IN IF outcome = "ok" /\ s.remote # NoDesc THEN UseCandidates(t, s.remote.candidates) ELSE t

\* The candidates known so far are kept unless ICE is restarted.
SetRemote(s, d, outcome) ==
  LET t == UpdateSessionState([s EXCEPT !.remote = d], d.type, "REMOTE", outcome)
      u == IF s.local # NoDesc THEN UseCandidates(t, d.candidates) ELSE t
      restart == s.remote # NoDesc /\ d.type = "offer" /\ d.ufrag # s.remote.ufrag
  IN IF outcome # "ok" THEN t
     ELSE IF restart THEN [u EXCEPT !.latch = TRUE, !.accepted = {}]
     ELSE IF s.remote = NoDesc THEN u
     ELSE [u EXCEPT !.remote.candidates = @ \cup s.remote.candidates]

ProcessIceMessage(s, c) ==
  LET candidate == <<c, s.remote.ufrag>> IN
  UseCandidates([s EXCEPT !.remote.candidates = @ \cup {candidate}, !.accepted = @ \cup {candidate}],
                {candidate})

-----------------------------------------------------------------------------
(* Steps of the application, on the signaling thread *)

Call(p, method) ==
  /\ session[p].life = "alive" /\ method \in scenario.methods
  /\ calls < scenario.calls /\ calls' = calls + 1
  /\ UNCHANGED scenario

Becomes(p, posting) ==
  /\ session' = [session EXCEPT ![p] = posting.session]
  /\ queue' = queue \o posting.msgs

\* The results the store has posted in this step.
Results == [i \in 1 .. Len(results') - Len(results) |-> [kind |-> "IDENTITY"]]

CreatePeerConnection(p) ==
  /\ p \in scenario.peers /\ session[p].life = "none"
  /\ \/ /\ scenario.source = "store"
        /\ RequestIdentity(p)
        /\ Becomes(p, Posting(NewSession("WAITING"), Results))
     \/ /\ scenario.source = "parameter"
        /\ Becomes(p, Posting(NewSession("WAITING"), << [kind |-> "CERTIFICATE", peer |-> p] >>))
        /\ UNCHANGED storeVars
     \/ /\ scenario.source = "none"
        /\ Becomes(p, Posting(NewSession("NOT_NEEDED"), << >>))
        /\ UNCHANGED storeVars
  /\ UNCHANGED <<scenario, calls, asked, called, created>>

Fine == IF scenario.fails THEN BOOLEAN ELSE {TRUE}

CreateOffer(p) ==
  /\ Call(p, "CreateOffer") /\ asked < MaxAsked /\ asked' = asked + 1
  /\ \E restart \in BOOLEAN, valid, ok \in Fine :
       Becomes(p, CreateDescription(p, session[p],
         [type |-> "offer", id |-> asked + 1, restart |-> restart], valid, ok))
  /\ UNCHANGED <<called, created, storeVars>>

CreateAnswer(p) ==
  /\ Call(p, "CreateAnswer") /\ asked < MaxAsked /\ asked' = asked + 1
  /\ \E valid, ok \in Fine :
       Becomes(p, CreateDescription(p, session[p],
         [type |-> "answer", id |-> asked + 1, restart |-> FALSE],
         valid /\ session[p].remote.type = "offer", ok))
  /\ UNCHANGED <<called, created, storeVars>>

\* A description that is refused by ValidateSessionDescription changes nothing.
Accepts(s, expected) == ~s.error /\ expected

\* The application sets what it was given, or an answer as a provisional one.
SetLocalDescription(p) ==
  LET s == session[p] IN
  /\ Call(p, "SetLocal")
  /\ \E d \in created[p], type \in Types : \E outcome \in Outcomes(type) :
       /\ type = d.type \/ (type = "pranswer" /\ d.type = "answer")
       /\ Accepts(s, ExpectSetLocalDescription(s, type))
       /\ session' = [session EXCEPT ![p] = SetLocal(s, [d EXCEPT !.type = type], outcome)]
  /\ UNCHANGED <<queue, asked, called, created, storeVars>>

SetRemoteDescription(p) ==
  LET s == session[p] IN
  /\ Call(p, "SetRemote")
  /\ \E type \in Types, ufrag \in scenario.remote_ufrags : \E outcome \in Outcomes(type) :
       /\ Accepts(s, ExpectSetRemoteDescription(s, type))
       /\ session' = [session EXCEPT ![p] =
            SetRemote(s, [type |-> type, ufrag |-> ufrag, candidates |-> {}], outcome)]
  /\ UNCHANGED <<queue, asked, called, created, storeVars>>

AddIceCandidate(p) ==
  /\ Call(p, "AddIce") /\ session[p].remote # NoDesc
  /\ \E c \in Candidates : session' = [session EXCEPT ![p] = ProcessIceMessage(@, c)]
  /\ UNCHANGED <<queue, asked, called, created, storeVars>>

\* The channels are destroyed, and their transports with them.
Close(p) ==
  /\ Call(p, "Close")
  /\ session' = [session EXCEPT ![p] = [@ EXCEPT !.state = "CLOSED", !.channel = FALSE,
                                         !.local_set = FALSE, !.remote_set = FALSE, !.used = {}]]
  /\ UNCHANGED <<queue, asked, called, created, storeVars>>

\* The messages of q that are in S, in their order: what MessageQueue::Clear leaves or
\* hands over.
Kept(q, S) ==
  LET kept[n \in 0 .. Len(q)] ==
        IF n = 0 THEN << >>
        ELSE IF q[n] \in S THEN Append(kept[n - 1], q[n]) ELSE kept[n - 1]
  IN kept[Len(q)]

\* The messages of the store, of p's factory and, of these, its answers.
OfStore == {m \in Range(queue) : m.kind = "IDENTITY"}
OfFactory(p) == {m \in Range(queue) : m.kind # "IDENTITY" /\ m.peer = p}
AnswersOf(p) == {m \in OfFactory(p) : m.kind = "CREATED"}
Ids(msgs) == [i \in DOMAIN msgs |-> msgs[i].id]

\* Mutant: the requests that wait are forgotten.
DestroyPeerConnectionForgets(p) ==
  LET mine == Kept(queue, AnswersOf(p)) IN
  /\ Call(p, "Destroy")
  /\ session' = [session EXCEPT ![p].life = "deleted", ![p].requests = << >>]
  /\ queue' = Kept(queue, Range(queue) \ OfFactory(p))
  /\ called' = called \o Ids(mine)
  /\ UNCHANGED <<asked, created, storeVars>>

\* Mutant: the messages that are handled stay in the queue.
DestroyPeerConnectionPeeks(p) ==
  LET failed == FailPendingRequests(p, session[p]) IN
  /\ Call(p, "Destroy")
  /\ session' = [session EXCEPT ![p] = [failed.session EXCEPT !.life = "deleted"]]
  /\ called' = called \o Ids(Kept(queue, AnswersOf(p)) \o failed.msgs)
  /\ UNCHANGED <<queue, asked, created, storeVars>>

\* The destructor of the factory fails the requests that wait, and handles its
\* messages in the queue.
DestroyPeerConnection(p) ==
  LET failed == FailPendingRequests(p, session[p])
      mine == Kept(queue, AnswersOf(p)) \o failed.msgs IN
  /\ Call(p, "Destroy")
  /\ session' = [session EXCEPT ![p] = [failed.session EXCEPT !.life = "deleted"]]
  /\ queue' = Kept(queue, Range(queue) \ OfFactory(p))
  /\ called' = called \o Ids(mine)
  /\ UNCHANGED <<asked, created, storeVars>>

\* The last owner of the store releases it.
DestroyStore ==
  /\ \A p \in scenario.peers : session[p].life = "deleted"
  /\ Destroy
  /\ queue' = Kept(queue, Range(queue) \ OfStore)
  /\ UNCHANGED <<scenario, session, calls, asked, called, created>>

-----------------------------------------------------------------------------
(* Steps of the threads *)

\* The worker thread.
GenerateIdentity ==
  /\ GenerateIdentity_w
  /\ queue' = queue \o Results
  /\ UNCHANGED <<scenario, session, calls, asked, called, created>>

\* The observer of the store's answer is the factory, if it still exists.
OnIdentity(p, identity, bad) ==
  IF session[p].life # "alive" THEN Posting(session[p], << >>)
  ELSE IF identity = None THEN OnIdentityRequestFailed(p, session[p])
  ELSE SetCertificate(p, session[p], bad)

Bad(p) == {{}} \cup IF scenario.fails THEN {{session[p].requests[i].id} : i \in DOMAIN session[p].requests} ELSE {}

\* The signaling thread handles a message of the store, ...
HandleIdentity ==
  /\ queue # << >> /\ Head(queue).kind = "IDENTITY"
  /\ OnIdentityGenerated
  /\ \/ /\ request_observers = << >>
        /\ queue' = Tail(queue) /\ UNCHANGED session
     \/ /\ request_observers # << >>
        /\ LET p == Head(request_observers) IN \E bad \in Bad(p) :
             LET posting == OnIdentity(p, Head(results), bad) IN
             /\ session' = [session EXCEPT ![p] = posting.session]
             /\ queue' = Tail(queue) \o posting.msgs
  /\ UNCHANGED <<scenario, calls, asked, called, created>>

\* ... MSG_USE_CONSTRUCTOR_CERTIFICATE, ...
HandleCertificate ==
  /\ queue # << >> /\ Head(queue).kind = "CERTIFICATE"
  /\ LET p == Head(queue).peer IN \E bad \in Bad(p) :
       LET posting == SetCertificate(p, session[p], bad) IN
       /\ session' = [session EXCEPT ![p] = posting.session]
       /\ queue' = Tail(queue) \o posting.msgs
  /\ UNCHANGED <<scenario, calls, asked, called, created, storeVars>>

\* ... or a description that was created, or was not.
HandleCreated ==
  /\ queue # << >> /\ Head(queue).kind = "CREATED"
  /\ queue' = Tail(queue)
  /\ called' = Append(called, Head(queue).id)
  /\ created' = [created EXCEPT ![Head(queue).peer] = @ \cup ({Head(queue).desc} \ {NoDesc})]
  /\ UNCHANGED <<scenario, session, calls, asked, storeVars>>

HandleMessage == HandleIdentity \/ HandleCertificate \/ HandleCreated

SessionNext ==
  \/ \E p \in Observers :
       \/ CreatePeerConnection(p) \/ CreateOffer(p) \/ CreateAnswer(p)
       \/ SetLocalDescription(p) \/ SetRemoteDescription(p) \/ AddIceCandidate(p)
       \/ Close(p) \/ DestroyPeerConnection(p)
  \/ DestroyStore \/ GenerateIdentity \/ HandleMessage

\* Both threads keep running.
SessionSpec ==
  SessionInit /\ [][SessionNext]_sessionVars
    /\ WF_sessionVars(GenerateIdentity) /\ WF_sessionVars(HandleMessage)

-----------------------------------------------------------------------------
(* Properties *)

SessionTypeOK ==
  /\ TypeOK
  /\ session \in [Observers -> WebRtcSession]
  /\ asked \in Nat /\ calls \in Nat

\* Where request n is: its observer was called back, the message that calls it is in
\* the queue, or the request waits for the certificate.
Places(n) ==
  {<<"called", i>> : i \in {j \in DOMAIN called : called[j] = n}}
  \cup {<<"queued", i>> : i \in {j \in DOMAIN queue : queue[j].kind = "CREATED" /\ queue[j].id = n}}
  \cup UNION {{<<"waits", p, i>> : i \in {j \in DOMAIN session[p].requests :
                                             session[p].requests[j].id = n}} : p \in Observers}

\* No request is lost or answered twice, whatever fails and whenever its session is
\* deleted; and where requests wait, what ends that is on its way.
RequestsAccounted ==
  /\ \A n \in 1 .. asked : \E place \in Places(n) : Places(n) = {place}
  /\ \A p \in Observers : session[p].requests # << >> =>
       /\ session[p].life = "alive" /\ session[p].certificate = "WAITING"
       /\ \/ p \in Range(request_observers)
          \/ \E m \in Range(queue) : m.kind = "CERTIFICATE" /\ m.peer = p

\* Whoever asks for a description is called back: also if the identity could not be
\* generated, or the session is deleted while the request waits for it.
AllAnswered ==
  \A n \in 1 .. MaxAsked : (n <= asked) ~> (\E i \in DOMAIN called : called[i] = n)

\* An answer is only taken when the offer it answers is there: what the code
\* dereferences without a test.
DescriptionsPresent ==
  \A p \in Observers : LET s == session[p] IN
    /\ s.state \in {"RECEIVEDOFFER", "SENTPRANSWER"} => s.remote.type = "offer"
    /\ s.state \in {"SENTOFFER", "RECEIVEDPRANSWER"} => s.local.type = "offer"
    /\ s.state = "INPROGRESS" => s.local # NoDesc /\ s.remote # NoDesc

\* A candidate that was accepted, however early, is given to the transport as soon
\* as that has both descriptions, unless the remote side restarted ICE since.
CandidatesUsed ==
  \A p \in Observers : LET s == session[p] IN
    s.local_set /\ s.remote_set /\ ~s.rejected => s.accepted \subseteq s.used
=============================================================================
