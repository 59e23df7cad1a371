------------------------------- MODULE MCIce -------------------------------
(* Model-checking instance of Ice: two candidate pairs of one network.     *)
EXTENDS Ice

MCNetwork == [c \in Paths |-> 1]
MCTiebreaker == [A |-> 1, B |-> 2]

For(ofA, ofB) == [A |-> ofA, B |-> ofB]

\* Priorities: a host candidate comes before a peer reflexive one, this one before a relayed
\* one, and path 2 has the higher local preference.
Host(c) == [local |-> 6 + c, signalled |-> 6 + c, prflx |-> 4 + c]
Relayed(c) == [Host(c) EXCEPT !.local = c, !.signalled = c]
MCHosts == [c \in Paths |-> Host(c)]

Calm ==
  [role |-> For("CONTROLLING", "CONTROLLED"), cand |-> For(MCHosts, MCHosts),
   mapped |-> For({}, {}), signalled |-> For({1}, {1}),
   window |-> For(1, 1), late |-> For(0, 0), lost |-> 0, data |-> 0]

\* Both sides control, and each knows one candidate of the other: it learns of the
\* second one from a ping.  Either side ranks the path first that was signalled to it.
TwoPaths ==
  [Calm EXCEPT !.role = For("CONTROLLING", "CONTROLLING"), !.signalled = For({1}, {2})]

\* The same, but B has only a relayed candidate on path 1: both rank path 2 first.
TwoPathsAlike == [TwoPaths EXCEPT !.cand["B"] = [@ EXCEPT ![1] = Relayed(1)]]

\* The same, but each side is behind a NAT on the path that its peer learns of from a
\* ping: its own candidate becomes the peer reflexive one.
TwoPathsMapped == [TwoPaths EXCEPT !.mapped = For({1}, {2})]

\* Both sides are controlled.
NobodyControls == [Calm EXCEPT !.role = For("CONTROLLED", "CONTROLLED")]

\* A gives up too early, and a message is lost.
LateController == [Calm EXCEPT !.late = For(1, 0), !.lost = 1]

\* The controlled side gives up too early while data arrives.
LateControlled ==
  [Calm EXCEPT !.role = For("CONTROLLED", "CONTROLLING"), !.late = For(1, 0), !.data = 1]

\* A role conflict, and answers that come too late.
LateConflict == [Calm EXCEPT !.role = For("CONTROLLING", "CONTROLLING"), !.late = For(1, 0)]

\* A gives up its only path while it learns of the second one from a ping: the answer to
\* its own ping may then arrive for the connection that is about to be deleted.
GivenUp ==
  [Calm EXCEPT !.role = For("CONTROLLED", "CONTROLLING"), !.signalled = For({1}, {2}),
               !.late = For(1, 0)]

\* A candidate of B is signalled only after A may have learned of it from a ping, and B
\* learns of path 1 from a ping only.
Trickle == [Calm EXCEPT !.signalled = For({1, 2}, {2})]

MCScenarios ==
  {TwoPaths, TwoPathsAlike, TwoPathsMapped, NobodyControls, LateController, LateControlled,
   LateConflict, GivenUp, Trickle}
MCLiveScenarios == MCScenarios \ {GivenUp, Trickle}
=============================================================================
