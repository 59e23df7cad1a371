-------------------------------- MODULE Ice --------------------------------
(***************************************************************************)
(* Connectivity checks of two ICE agents: cricket::P2PTransportChannel     *)
(* with the Connections of its ports (webrtc/p2p/base/p2ptransportchannel  *)
(* .cc, port.cc), the STUN requests they send (stunrequest.cc) and the     *)
(* resolution of role conflicts (transportcontroller.cc).                  *)
(*                                                                         *)
(* An agent is one worker thread: a handler runs to completion and is an   *)
(* operator on the record of the agent.  Its messages are handled in the   *)
(* order they were posted; packets are read when the thread waits, which   *)
(* it does only when it has no message left (MessageQueue::Get), but one   *)
(* Wait may read several packets.  The two ends of a candidate pair are    *)
(* connections with the same path, and each path has a port of its own at  *)
(* either end.  Each agent ranks the paths by what it knows of the two     *)
(* candidates: its peer's may be the one that was signalled or, after a    *)
(* ping from an unknown address, a peer reflexive one.                     *)
(* Time is abstract: a limit may be exceeded at any moment, `late' times.  *)
(* Connections of equal state and priority are ordered by their number in  *)
(* place of their round-trip times.  TCP connections (connected()), ICE    *)
(* restarts and ICE-lite are left out.                                     *)
(***************************************************************************)
EXTENDS Integers, Sequences, FiniteSets, FiniteSetsExt

CONSTANTS
  Paths,             \* candidate pairs
  Network,           \* Network[c]: the local network of a path
  Tiebreaker,        \* Tiebreaker[a]
  PingIds,           \* transaction ids of the requests of one connection
  MaxFailures,       \* CONNECTION_WRITE_CONNECT_FAILURES
  PairBase,          \* 2^32, the factor of the lower priority in that of a pair
  Scenarios          \* what happens to the agents, see Scenario

Agents == {"A", "B"}
Peer(a) == IF a = "A" THEN "B" ELSE "A"
None == 0
MSG_SORT == 0        \* in a queue; c stands for MSG_DELETE of the connection of path c

Roles == {"CONTROLLING", "CONTROLLED"}

\* Priorities of candidates: the type preference is at most 126, of eight bits.
Priorities == {p \in Nat : 2 * p + 1 < PairBase}

\* An agent's own candidate on a path: the priority that the connections of its port
\* start with, the one it signals to the peer, and the PRIORITY of its requests, which
\* is the first with the type preference of a peer reflexive candidate.
Candidate == [local : Priorities, signalled : Priorities, prflx : Priorities]

\* The roles the sessions gave the agents, their candidates, the paths on which the peer
\* sees an agent under an address that its port does not know, the paths whose remote
\* candidate is signalled to an agent, and bounds: the pings an agent has under way at
\* once, the time limits exceeded at an agent, the messages lost and the data packets
\* sent.
Scenario ==
  [role : [Agents -> Roles], cand : [Agents -> [Paths -> Candidate]],
   mapped : [Agents -> SUBSET Paths], signalled : [Agents -> SUBSET Paths],
   window : [Agents -> Nat], late : [Agents -> Nat], lost : Nat, data : Nat]

ASSUME IceAssumption ==
  /\ Paths \subseteq Nat \ {0} /\ IsFiniteSet(Paths) /\ Paths \subseteq DOMAIN Network
  /\ Tiebreaker \in [Agents -> Nat] /\ Tiebreaker["A"] # Tiebreaker["B"]
  /\ PingIds # {} /\ MaxFailures \in Nat \ {0} /\ PairBase \in Nat \ {0, 1}
  /\ Scenarios \subseteq Scenario
  /\ \A s \in Scenarios, a \in Agents : s.mapped[a] \cap s.signalled[Peer(a)] = {}

VARIABLES
  agent,    \* agent[a]: the channel of a and its connections
  net,      \* messages under way
  lost,     \* number of messages that may still be lost
  data      \* number of data packets that may still be sent

vars == <<agent, net, lost, data>>

WriteStates == {"NONE", "WRITABLE", "UNRELIABLE", "INIT", "TIMEOUT"}  \* NONE: no connection

Connection ==
  [write : WriteStates, receiving : BOOLEAN, pruned : BOOLEAN, nominated : BOOLEAN,
   local : Priorities, remote : Priorities,     \* of its two candidates
   pings : 0 .. MaxFailures,       \* pings_since_last_response_
   requests : SUBSET PingIds]      \* requests_

Channel ==
  [ice_role : Roles, ice_role_switch : BOOLEAN,      \* of the TransportController
   role : Roles, conn : [Paths -> Connection],
   cand : [Paths -> Candidate],
   mapped : SUBSET Paths,          \* paths whose mapped address the port does not know yet
   signalled : SUBSET Paths,       \* candidates the peer has still to signal
   remembered : SUBSET Paths,      \* remote_candidates_, those it has signalled
   best : Paths \cup {None}, pending : Paths \cup {None},
   sort_dirty : BOOLEAN,
   queue : Seq(Paths \cup {MSG_SORT}),     \* messages posted, oldest first
   busy : BOOLEAN,                 \* the thread will not wait before it has handled them
   writable : BOOLEAN, receiving : BOOLEAN,
   window : Nat,                   \* pings that may be under way at once
   late : Nat]                     \* time limits that may still be exceeded

Message ==
  [to : Agents, path : Paths, kind : {"request", "response", "error", "data"},
   id : PingIds, role : Roles, use_candidate : BOOLEAN]

\* The constructor of Connection.
NewConnection(local, remote) ==
  [write |-> "INIT", receiving |-> FALSE, pruned |-> FALSE, nominated |-> FALSE,
   local |-> local, remote |-> remote, pings |-> 0, requests |-> {}]

NoConnection == [NewConnection(0, 0) EXCEPT !.write = "NONE"]

TypeOK ==
  /\ agent \in [Agents -> Channel]
  /\ net \subseteq Message
  /\ lost \in Nat /\ data \in Nat

Init ==
  \E s \in Scenarios :
    /\ agent = [a \in Agents |->
         [ice_role |-> s.role[a], ice_role_switch |-> FALSE, role |-> s.role[a],
          conn |-> [c \in Paths |-> NoConnection], cand |-> s.cand[a], mapped |-> s.mapped[a],
          signalled |-> s.signalled[a], remembered |-> {},
          best |-> None, pending |-> None, sort_dirty |-> FALSE, queue |-> << >>, busy |-> FALSE,
          writable |-> FALSE, receiving |-> FALSE,
          window |-> s.window[a], late |-> s.late[a]]]
    /\ net = {} /\ lost = s.lost /\ data = s.data

connections(g) == {c \in Paths : g.conn[c].write # "NONE"}
Writable(g, c) == c # None /\ g.conn[c].write = "WRITABLE"
Strong(g, c) == Writable(g, c) /\ g.conn[c].receiving
Active(x) == x.write # "TIMEOUT"

-----------------------------------------------------------------------------
(* State changes of a connection *)

RequestSort(g) ==
  IF g.sort_dirty THEN g ELSE [g EXCEPT !.sort_dirty = TRUE, !.queue = Append(@, MSG_SORT)]

\* Mutant: the connections are not sorted again.
OnConnectionStateChangeUnsorted(g, c) ==
  IF g.role = "CONTROLLED" /\ g.pending = c /\ Writable(g, c)
  THEN [g EXCEPT !.pending = None, !.best = c] ELSE g

\* A nominated connection that had to wait becomes the best one when it is writable.
OnConnectionStateChange(g, c) ==
  RequestSort(IF g.role = "CONTROLLED" /\ g.pending = c /\ Writable(g, c)
              THEN [g EXCEPT !.pending = None, !.best = c] ELSE g)

set_write_state(g, c, w) ==
  IF g.conn[c].write = w THEN g ELSE OnConnectionStateChange([g EXCEPT !.conn[c].write = w], c)

set_receiving(g, c, value) ==
  IF g.conn[c].receiving = value THEN g
  ELSE OnConnectionStateChange([g EXCEPT !.conn[c].receiving = value], c)

ReceivedPing(g, c) == set_receiving(g, c, TRUE)

ReceivedPingResponse(g, c) ==
  [set_write_state(set_receiving(g, c, TRUE), c, "WRITABLE") EXCEPT !.conn[c].pings = 0]

\* Data or a ping brings a connection back that has timed out.
Revive(g, c) ==
  IF ~g.conn[c].pruned /\ ~Active(g.conn[c]) THEN set_write_state(g, c, "INIT") ELSE g

-----------------------------------------------------------------------------
(* Choosing the best connection *)

Rank(w) == CASE w = "WRITABLE" -> 0 [] w = "UNRELIABLE" -> 1 [] w = "INIT" -> 2 [] w = "TIMEOUT" -> 3

\* CompareConnectionStates(a, b) > 0.
BetterState(x, y) ==
  \/ Rank(x.write) < Rank(y.write)
  \/ x.write = y.write /\ x.receiving /\ ~y.receiving

Lower(p, q) == IF p < q THEN p ELSE q
Higher(p, q) == IF p < q THEN q ELSE p

\* Connection::priority: of the pair, of candidates of the controlling and of the
\* controlled agent.
Priority(g, c) ==
  LET x == g.conn[c]
      G == IF g.role = "CONTROLLING" THEN x.local ELSE x.remote
      D == IF g.role = "CONTROLLING" THEN x.remote ELSE x.local
  IN PairBase * Lower(G, D) + 2 * Higher(G, D) + (IF G > D THEN 1 ELSE 0)

\* ConnectionCompare: c is sorted before d.
Before(g, c, d) ==
  \/ BetterState(g.conn[c], g.conn[d])
  \/ /\ ~BetterState(g.conn[d], g.conn[c])
     /\ \/ Priority(g, c) > Priority(g, d)
        \/ Priority(g, c) = Priority(g, d) /\ c > d

\* The first of the connections S in sorted order.
First(g, S) == CHOOSE c \in S : \A d \in S \ {c} : Before(g, c, d)

ShouldSwitch(g, top) ==
  /\ g.best # top
  /\ \/ g.best = None
     \/ BetterState(g.conn[top], g.conn[g.best])
     \/ /\ ~BetterState(g.conn[g.best], g.conn[top])
        /\ ~(g.role = "CONTROLLED" /\ g.conn[g.best].nominated)
        /\ Priority(g, top) >= Priority(g, g.best)

Posted(g) == {g.queue[i] : i \in DOMAIN g.queue}

\* MSG_DELETE; a second one is dropped with the connection.
Destroy(g, c) == IF c \in Posted(g) THEN g ELSE [g EXCEPT !.queue = Append(@, c)]

\* What UpdateState may find: no limit exceeded; one connection that is late; and one
\* that is dead and has lived long enough to be destroyed.
UpdateConnectionStates(g) ==
  LET Slow(c) == set_write_state(g, c, IF Writable(g, c) THEN "UNRELIABLE" ELSE "TIMEOUT")
      MayBeSlow == {c \in connections(g) :
        LET x == g.conn[c] IN
        IF x.write = "WRITABLE" THEN x.pings >= MaxFailures ELSE Active(x) /\ x.pings > 0}
      late == {Slow(c) : c \in MayBeSlow}
                \cup {set_receiving(g, c, FALSE) : c \in {d \in connections(g) : g.conn[d].receiving}}
      updated == {g} \cup IF g.late = 0 THEN {} ELSE {[h EXCEPT !.late = @ - 1] : h \in late}
      dead(h) == {c \in Paths : h.conn[c].write = "TIMEOUT" /\ ~h.conn[c].receiving}
  IN updated \cup UNION {{Destroy(h, c) : c \in dead(h)} : h \in updated}

Switched(g) ==
  LET top == First(g, connections(g))
  IN IF connections(g) # {} /\ ShouldSwitch(g, top) THEN [g EXCEPT !.best = top] ELSE g

\* Mutant: a connection of higher priority is pruned as well.
PrunableHigher(g) ==
  LET On(n) == {c \in connections(g) : Network[c] = n}
      premier(n) == IF g.best \in On(n) THEN g.best ELSE First(g, On(n))
  IN {c \in connections(g) : LET p == premier(Network[c]) IN c # p /\ Strong(g, p)}

\* The connections PruneConnections prunes: those that have no higher priority than a
\* strong one that comes first on their network.
Prunable(g) ==
  LET On(n) == {c \in connections(g) : Network[c] = n}
      premier(n) == IF g.best \in On(n) THEN g.best ELSE First(g, On(n))
  IN {c \in connections(g) :
        LET p == premier(Network[c]) IN
        c # p /\ Strong(g, p) /\ Priority(g, p) >= Priority(g, c)}

Prune(x) ==
  IF ~x.pruned \/ Active(x) THEN [x EXCEPT !.pruned = TRUE, !.requests = {}, !.write = "TIMEOUT"] ELSE x

MayPrune(g) == g.role = "CONTROLLING" \/ (g.best # None /\ g.conn[g.best].nominated)

PruneConnections(g) ==
  LET S == IF MayPrune(g) THEN Prunable(g) ELSE {}
      h == IF \E c \in S : Active(g.conn[c]) THEN RequestSort(g) ELSE g
  IN [h EXCEPT !.conn = [c \in Paths |-> IF c \in S THEN Prune(@[c]) ELSE @[c]]]

\* HandleWritable, HandleNotWritable and UpdateChannelState.
UpdateChannelState(g) ==
  [g EXCEPT !.writable = Writable(g, g.best), !.receiving = \E c \in Paths : g.conn[c].receiving]

SortConnections(g) ==
  LET switched == {Switched([h EXCEPT !.sort_dirty = FALSE]) : h \in UpdateConnectionStates(g)}
  IN {UpdateChannelState(h) : h \in {PruneConnections(i) : i \in switched}}

-----------------------------------------------------------------------------
(* Roles and nomination *)

Reversed(role) == IF role = "CONTROLLING" THEN "CONTROLLED" ELSE "CONTROLLING"

\* Mutant: the role is reversed at every conflict.
OnRoleConflictAgain(g) == [g EXCEPT !.role = Reversed(@)]

\* TransportController::OnChannelRoleConflict_w: the role is reversed once.
OnRoleConflict(g) ==
  IF g.ice_role_switch THEN g
  ELSE [g EXCEPT !.ice_role_switch = TRUE, !.role = Reversed(g.ice_role)]

\* MaybeIceRoleConflict of a for a request of its peer: a gives way ...
Yields(g, a, m) ==
  /\ m.role = g.role
  /\ IF g.role = "CONTROLLING" THEN Tiebreaker[Peer(a)] >= Tiebreaker[a]
     ELSE Tiebreaker[Peer(a)] < Tiebreaker[a]

\* ... or answers with an error.
Refuses(g, a, m) == m.role = g.role /\ ~Yields(g, a, m)

OnNominated(g, c) ==
  IF ~Writable(g, c) THEN [g EXCEPT !.pending = c]
  ELSE IF g.best = c THEN g
  ELSE RequestSort([g EXCEPT !.pending = None, !.best = c])

\* A request with USE-CANDIDATE nominates the connection on the controlled side.
MaybeNominate(g, c, m) ==
  IF g.role = "CONTROLLED" /\ m.use_candidate
  THEN OnNominated([g EXCEPT !.conn[c].nominated = TRUE], c) ELSE g

-----------------------------------------------------------------------------
(* Steps *)

\* The thread goes on to the next message, and waits for packets when there is none.
Handled(g) == [g EXCEPT !.busy = g.queue # << >>]

Answer(m, kind) == [m EXCEPT !.to = Peer(m.to), !.kind = kind, !.use_candidate = FALSE]

AddConnection(g, c, remote) == [g EXCEPT !.conn[c] = NewConnection(g.cand[c].local, remote)]

\* The signalled candidate takes the place of a peer reflexive one that an existing
\* connection has (MaybeUpdatePeerReflexiveCandidate).
AddRemoteCandidate(a, c) ==
  LET g == [agent[a] EXCEPT !.signalled = @ \ {c}, !.remembered = @ \cup {c}]
      remote == agent[Peer(a)].cand[c].signalled
      h == IF c \in connections(g) THEN [g EXCEPT !.conn[c].remote = remote]
           ELSE AddConnection(g, c, remote) IN
  /\ c \in agent[a].signalled
  /\ \E i \in SortConnections(h) : agent' = [agent EXCEPT ![a] = Handled(i)]
  /\ UNCHANGED <<net, lost, data>>

OnSort(a) ==
  LET g == agent[a] IN
  /\ g.queue # << >> /\ Head(g.queue) = MSG_SORT
  /\ \E h \in SortConnections([g EXCEPT !.queue = Tail(@)]) : agent' = [agent EXCEPT ![a] = Handled(h)]
  /\ UNCHANGED <<net, lost, data>>

IsPingable(g, c) == ~Strong(g, g.best) \/ Active(g.conn[c])

\* FindNextPingableConnection takes the one pinged longest ago, but the best and
\* those that were pinged by the peer come first: any of them may be next.
NextPingable(g) == {c \in connections(g) : IsPingable(g, c)}

UseCandidate(g, c) ==
  /\ g.role = "CONTROLLING"
  /\ g.best \in {c, None} \/ ~Writable(g, g.best) \/ Priority(g, c) > Priority(g, g.best)

\* The pings of a, and the answers to them, that are under way.
UnderWay(a) ==
  {m \in net : m.kind \in IF m.to = a THEN {"response", "error"} ELSE {"request"}}

FreeIds(a, c) ==
  {id \in PingIds : id \notin agent[a].conn[c].requests
                      /\ \A m \in UnderWay(a) : ~(m.path = c /\ m.id = id)}

Ping(g, c, id) ==
  [g EXCEPT !.conn[c].requests = @ \cup {id}, !.conn[c].pings = Min({@ + 1, MaxFailures})]

MayPing(a) == Cardinality(UnderWay(a)) < agent[a].window

\* The timer fires and c is pinged, ...
CheckAndPing(a, c) ==
  /\ MayPing(a)
  /\ \E g \in UpdateConnectionStates(agent[a]), id \in FreeIds(a, c) :
       /\ c \in NextPingable(g)
       /\ agent' = [agent EXCEPT ![a] = Handled(Ping(g, c, id))]
       /\ net' = net \cup {[to |-> Peer(a), path |-> c, kind |-> "request", id |-> id,
                            role |-> g.role, use_candidate |-> UseCandidate(g, c)]}
  /\ UNCHANGED <<lost, data>>

\* ... or none is, because none is pingable or the bound is reached.
CheckOnly(a) ==
  /\ \E g \in UpdateConnectionStates(agent[a]) :
       /\ NextPingable(g) = {} \/ ~MayPing(a)
       /\ agent' = [agent EXCEPT ![a] = Handled(g)]
  /\ UNCHANGED <<net, lost, data>>

\* OnUnknownAddress: a candidate that is remembered, or a peer reflexive one of the
\* PRIORITY of the request.
RemoteOf(a, c) ==
  LET cand == agent[Peer(a)].cand[c]
  IN IF c \in agent[a].remembered THEN cand.signalled ELSE cand.prflx

\* A request, for a path that has a connection and for one that has none.
OnRequest(m) ==
  LET a == m.to
      c == m.path
      g == IF Yields(agent[a], a, m) THEN OnRoleConflict(agent[a]) ELSE agent[a]
      known == MaybeNominate(Revive(ReceivedPing(g, c), c), c, m)
      unknown == MaybeNominate(ReceivedPing(AddConnection(g, c, RemoteOf(a, c)), c), c, m) IN
  /\ m \in net /\ m.kind = "request" /\ ~agent[a].busy
  /\ \/ /\ Refuses(agent[a], a, m)
        /\ net' = (net \ {m}) \cup {Answer(m, "error")}
        /\ UNCHANGED agent
     \/ /\ ~Refuses(agent[a], a, m) /\ c \in connections(g)
        /\ net' = (net \ {m}) \cup {Answer(m, "response")}
        /\ agent' = [agent EXCEPT ![a] = known]
     \/ /\ ~Refuses(agent[a], a, m) /\ c \notin connections(g)
        /\ net' = net \ {m}
        /\ \E h \in SortConnections(unknown) : agent' = [agent EXCEPT ![a] = h]
  /\ UNCHANGED <<lost, data>>

\* A response that names an address the port does not know gives the connection a new
\* local candidate, of the PRIORITY of the request.
MaybeAddPrflxCandidate(g, c) ==
  IF c \in g.mapped
  THEN OnConnectionStateChange([g EXCEPT !.mapped = @ \ {c}, !.conn[c].local = g.cand[c].prflx], c)
  ELSE g

\* CheckResponse: only the answer to a request that is still there counts.
OnAnswer(m) ==
  LET a == m.to
      c == m.path
      g == agent[a]
      h == [g EXCEPT !.conn[c].requests = @ \ {m.id}] IN
  /\ m \in net /\ m.kind \in {"response", "error"} /\ ~g.busy
  /\ net' = net \ {m}
  /\ agent' = [agent EXCEPT ![a] =
       IF m.id \notin g.conn[c].requests THEN g
       ELSE IF m.kind = "response" THEN MaybeAddPrflxCandidate(ReceivedPingResponse(h, c), c)
       ELSE OnRoleConflict(h)]
  /\ UNCHANGED <<lost, data>>

\* The request times out; if its answer may still come, that is a time limit exceeded.
OnTimeout(a, c, id) ==
  LET g == agent[a]
      waiting == \E m \in UnderWay(a) : m.path = c /\ m.id = id IN
  /\ id \in g.conn[c].requests
  /\ waiting => g.late > 0
  /\ agent' = [agent EXCEPT ![a] = Handled([g EXCEPT !.conn[c].requests = @ \ {id},
                                                     !.late = IF waiting THEN @ - 1 ELSE @])]
  /\ UNCHANGED <<net, lost, data>>

\* SendPacket of the channel.
SendPacket(a) ==
  LET g == agent[a] IN
  /\ data > 0 /\ g.best # None /\ g.conn[g.best].write \in {"WRITABLE", "UNRELIABLE"}
  /\ net' = net \cup {[to |-> Peer(a), path |-> g.best, kind |-> "data",
                       id |-> CHOOSE id \in PingIds : TRUE, role |-> g.role, use_candidate |-> FALSE]}
  /\ data' = data - 1
  /\ UNCHANGED <<agent, lost>>

\* Until a connection is nominated, the controlled side answers where data comes from.
OnReadPacket(m) ==
  LET a == m.to
      c == m.path
      g == set_receiving(agent[a], c, TRUE)
      follow == g.role = "CONTROLLED" /\ ~(g.best # None /\ g.conn[g.best].nominated) /\ Writable(g, c)
      h == IF follow THEN [g EXCEPT !.best = c] ELSE g IN
  /\ m \in net /\ m.kind = "data" /\ ~agent[a].busy
  /\ net' = net \ {m}
  /\ agent' = [agent EXCEPT ![a] = IF c \in connections(@) THEN Revive(h, c) ELSE @]
  /\ UNCHANGED <<lost, data>>

\* Mutant: the nominated connection is not forgotten.
OnConnectionDestroyedKeepsPending(a, c) ==
  LET g == agent[a]
      h == [g EXCEPT !.conn[c] = NoConnection, !.queue = Tail(@)] IN
  /\ g.queue # << >> /\ Head(g.queue) = c
  /\ agent' = [agent EXCEPT ![a] =
       Handled(IF h.best = c THEN RequestSort([h EXCEPT !.best = None]) ELSE h)]
  /\ UNCHANGED <<net, lost, data>>

\* MSG_DELETE is handled.
OnConnectionDestroyed(a, c) ==
  LET g == agent[a]
      h == [g EXCEPT !.conn[c] = NoConnection, !.queue = Tail(@), !.pending = IF @ = c THEN None ELSE @] IN
  /\ g.queue # << >> /\ Head(g.queue) = c
  /\ agent' = [agent EXCEPT ![a] =
       Handled(IF h.best = c THEN RequestSort([h EXCEPT !.best = None]) ELSE h)]
  /\ UNCHANGED <<net, lost, data>>

Lose(m) ==
  /\ m \in net /\ lost > 0
  /\ net' = net \ {m} /\ lost' = lost - 1
  /\ UNCHANGED <<agent, data>>

Next ==
  \/ \E a \in Agents :
       \/ OnSort(a) \/ CheckOnly(a) \/ SendPacket(a)
       \/ \E c \in Paths :
            \/ AddRemoteCandidate(a, c) \/ CheckAndPing(a, c) \/ OnConnectionDestroyed(a, c)
            \/ \E id \in PingIds : OnTimeout(a, c, id)
  \/ \E m \in net : OnRequest(m) \/ OnAnswer(m) \/ OnReadPacket(m) \/ Lose(m)

Spec == Init /\ [][Next]_vars

\* The thread handles its messages, timers and packets, and candidates are signalled;
\* the connections take turns to be pinged.
FairSpec ==
  /\ Spec
  /\ \A a \in Agents :
       /\ WF_vars(OnSort(a))
       /\ \A c \in Paths :
            /\ WF_vars(AddRemoteCandidate(a, c)) /\ SF_vars(CheckAndPing(a, c))
            /\ WF_vars(OnConnectionDestroyed(a, c))
            /\ WF_vars(\E id \in PingIds : OnTimeout(a, c, id))
            /\ WF_vars(\E m \in net : m.to = a /\ m.path = c /\ OnRequest(m))
            /\ WF_vars(\E m \in net : m.to = a /\ m.path = c /\ OnAnswer(m))
            /\ WF_vars(\E m \in net : m.to = a /\ m.path = c /\ OnReadPacket(m))

-----------------------------------------------------------------------------
(* Properties *)

\* The channel never points to a connection that was deleted, and a connection that
\* was deleted leaves nothing behind, neither requests that an answer may find nor a
\* second deletion.
NoDanglingBest ==
  \A a \in Agents : LET g == agent[a] IN
    /\ {g.best, g.pending} \subseteq connections(g) \cup {None}
    /\ Posted(g) \subseteq connections(g) \cup {MSG_SORT}
    /\ \A c \in Paths \ connections(g) : g.conn[c] = NoConnection

\* Whenever no sort is due, the channel is writable exactly if its best connection
\* is; and when none is in the queue, it is receiving if one of its connections is: no
\* state change of a connection is missed, not even if it is deleted after it was
\* found dead and then received something.
StateInSync ==
  \A a \in Agents : LET g == agent[a] IN
    /\ ~g.sort_dirty => g.writable = Writable(g, g.best)
    /\ MSG_SORT \notin Posted(g) => g.receiving = \E c \in Paths : g.conn[c].receiving

\* A role conflict is resolved for good, whatever answers are late.
RolesSettle == <>[](agent["A"].role # agent["B"].role)

\* The two agents rank the paths that both have a connection for, and know their own
\* address on, in the same order.
RankAlike ==
  LET A == agent["A"]
      B == agent["B"]
  IN \A c, d \in (connections(A) \cap connections(B)) \ (A.mapped \cup B.mapped) :
       Priority(A, c) > Priority(A, d) => Priority(B, c) > Priority(B, d)

\* Once the network behaves, both agents can send for good.  If they never rank the
\* paths differently, they send on the same path, the best of those that either knows:
\* the controlled one follows the nominations, and a connection that one side had
\* given up comes back.  (If they do, the controlled one may prune the path that the
\* controlling one selects later, and they stay on different paths.)
SamePath ==
  LET A == agent["A"]
      B == agent["B"]
  IN /\ <>[](A.writable /\ B.writable)
     /\ []RankAlike =>
          <>[](/\ A.best = B.best /\ A.best # None
               /\ \A a \in Agents : \A c \in connections(agent[a]) :
                    Priority(agent[a], agent[a].best) >= Priority(agent[a], c))
=============================================================================
