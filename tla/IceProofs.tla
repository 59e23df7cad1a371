----------------------------- MODULE IceProofs -----------------------------
(***************************************************************************)
(* Proofs about Ice, for any finite set of paths, any scenarios and any    *)
(* number of time limits exceeded, messages lost and data packets.         *)
(***************************************************************************)
EXTENDS Ice, FiniteSetTheorems, WellFoundedInduction, TLAPS

-----------------------------------------------------------------------------
(* The inductive invariant, part by part, of one agent *)

\* Nothing points to a connection that is not there.
Linked(g) ==
  /\ g.best \in connections(g) \cup {None}
  /\ g.pending \in connections(g) \cup {None}
  /\ \A c \in Paths \ connections(g) : g.conn[c] = NoConnection

\* A connection is deleted once, and it is there until then.
QueueOK(g) ==
  /\ Posted(g) \subseteq connections(g) \cup {MSG_SORT}
  /\ \A i, j \in DOMAIN g.queue : g.queue[i] = g.queue[j] /\ g.queue[i] # MSG_SORT => i = j

Valid(g) == g \in Channel /\ Linked(g) /\ QueueOK(g)

\* A sort is handled after message i of the queue.
SortAfter(q, i) == \E j \in DOMAIN q : j > i /\ q[j] = MSG_SORT

\* A connection that received something after it was found dead is missed: a sort
\* follows its deletion.
DeleteSeen(g) ==
  \A i \in DOMAIN g.queue :
    g.queue[i] # MSG_SORT /\ g.conn[g.queue[i]].receiving => SortAfter(g.queue, i)

Sound(g) == Valid(g) /\ DeleteSeen(g)

\* The sort that a handler relies on because sort_dirty_ is set is in the queue, and
\* while the thread may read packets it comes after every deletion.
SortPosted(g) == g.sort_dirty => MSG_SORT \in Posted(g)

Covered(g) ==
  g.sort_dirty => \A i \in DOMAIN g.queue : g.queue[i] # MSG_SORT => SortAfter(g.queue, i)

\* The best connection is writable if any is.
BestSorted(g) ==
  ~g.sort_dirty /\ (\E c \in Paths : Writable(g, c)) => Writable(g, g.best)

WritableInSync(g) == ~g.sort_dirty => g.writable = Writable(g, g.best)

Receives(g) == \E c \in Paths : g.conn[c].receiving

ReceivingInSync(g) == MSG_SORT \notin Posted(g) => g.receiving = Receives(g)

Synced(g) == SortPosted(g) /\ BestSorted(g) /\ WritableInSync(g) /\ ReceivingInSync(g)

AgentInv(g) == Sound(g) /\ Synced(g) /\ (~g.busy => Covered(g))

Inv == TypeOK /\ \A a \in Agents : AgentInv(agent[a])

-----------------------------------------------------------------------------
(* Records of connections and channels *)

\* h differs from g in nothing that the invariant speaks of.
Alike(g, h) ==
  /\ h \in Channel
  /\ \A c \in Paths :
       /\ h.conn[c].write = g.conn[c].write /\ h.conn[c].receiving = g.conn[c].receiving
       /\ g.conn[c].write = "NONE" => h.conn[c] = g.conn[c]
  /\ h.best = g.best /\ h.pending = g.pending /\ h.queue = g.queue
  /\ h.sort_dirty = g.sort_dirty /\ h.writable = g.writable /\ h.receiving = g.receiving

LEMMA ConnectionFacts ==
  /\ \A p, q \in Priorities :
       LET x == NewConnection(p, q) IN x \in Connection /\ x.write = "INIT" /\ ~x.receiving
  /\ NoConnection \in Connection /\ NoConnection.write = "NONE" /\ ~NoConnection.receiving
<1>1. ASSUME NEW p \in Priorities, NEW q \in Priorities
      PROVE  /\ NewConnection(p, q) \in Connection
             /\ NewConnection(p, q).write = "INIT" /\ ~NewConnection(p, q).receiving
  BY IceAssumption DEF NewConnection, Connection, WriteStates
<1>2. 0 \in Priorities
  BY IceAssumption DEF Priorities
<1>3. [NewConnection(0, 0) EXCEPT !.write = "NONE"] \in Connection
  BY <1>1, <1>2 DEF Connection, WriteStates
<1>4. NoConnection.write = "NONE" /\ ~NoConnection.receiving
  BY DEF NoConnection, NewConnection
<1> QED
  BY <1>1, <1>3, <1>4 DEF NoConnection

LEMMA AlikeKeeps ==
  ASSUME NEW g, NEW h, g \in Channel, Alike(g, h)
  PROVE  /\ connections(h) = connections(g) /\ Posted(h) = Posted(g)
         /\ Valid(g) => Valid(h)
         /\ DeleteSeen(g) => DeleteSeen(h)
         /\ Synced(g) => Synced(h)
         /\ Covered(g) => Covered(h)
<1>1. connections(h) = connections(g) /\ Posted(h) = Posted(g)
  BY DEF Alike, connections, Posted
<1>2. ASSUME Valid(g) PROVE Valid(h)
  <2>1. Linked(h)
    BY <1>1, <1>2 DEF Alike, Valid, Linked, connections
  <2>2. QueueOK(h)
    BY <1>1, <1>2 DEF Alike, Valid, QueueOK
  <2> QED
    BY <2>1, <2>2 DEF Valid, Alike
<1>3. ASSUME DeleteSeen(g) PROVE DeleteSeen(h)
  <2> SUFFICES ASSUME NEW i \in DOMAIN h.queue, h.queue[i] # MSG_SORT,
                      h.conn[h.queue[i]].receiving
               PROVE  SortAfter(h.queue, i)
    BY DEF DeleteSeen
  <2>1. i \in DOMAIN g.queue /\ g.queue[i] # MSG_SORT
    BY DEF Alike
  <2>2. h.queue[i] \in Paths
    BY <2>1 DEF Alike, Channel
  <2>3. g.conn[g.queue[i]].receiving
    BY <2>2 DEF Alike
  <2> QED
    BY <1>3, <2>1, <2>3 DEF DeleteSeen, Alike
<1>4. \A c \in Paths \cup {None} : Writable(h, c) = Writable(g, c)
  BY DEF Alike, Writable
<1>5. Receives(h) = Receives(g)
  BY DEF Alike, Receives
<1>6. h.best \in Paths \cup {None}
  BY DEF Alike, Channel
<1>7. ASSUME Synced(g) PROVE Synced(h)
  <2>1. SortPosted(h)
    BY <1>1, <1>7 DEF Synced, SortPosted, Alike
  <2>2. BestSorted(h)
    BY <1>4, <1>6, <1>7 DEF Synced, BestSorted, Alike
  <2>3. WritableInSync(h)
    BY <1>4, <1>6, <1>7 DEF Synced, WritableInSync, Alike
  <2>4. ReceivingInSync(h)
    BY <1>1, <1>5, <1>7 DEF Synced, ReceivingInSync, Alike
  <2> QED
    BY <2>1, <2>2, <2>3, <2>4 DEF Synced
<1>8. ASSUME Covered(g) PROVE Covered(h)
  BY <1>8 DEF Covered, Alike
<1> QED
  BY <1>1, <1>2, <1>3, <1>7, <1>8

-----------------------------------------------------------------------------
(* The queue *)

LEMMA AppendFacts ==
  ASSUME NEW q \in Seq(Paths \cup {MSG_SORT}), NEW x \in Paths \cup {MSG_SORT}
  PROVE  /\ Append(q, x) \in Seq(Paths \cup {MSG_SORT})
         /\ DOMAIN q = 1 .. Len(q) /\ Len(q) \in Nat
         /\ DOMAIN Append(q, x) = 1 .. Len(q) + 1
         /\ \A i \in DOMAIN q : Append(q, x)[i] = q[i]
         /\ Append(q, x)[Len(q) + 1] = x
  OBVIOUS

\* A sort at the end comes after everything else.
LEMMA AppendedSortIsLast ==
  ASSUME NEW q \in Seq(Paths \cup {MSG_SORT}),
         NEW i \in DOMAIN Append(q, MSG_SORT), Append(q, MSG_SORT)[i] # MSG_SORT
  PROVE  SortAfter(Append(q, MSG_SORT), i)
<1>1. i < Len(q) + 1 /\ Len(q) + 1 \in DOMAIN Append(q, MSG_SORT)
  BY AppendFacts
<1> QED
  BY <1>1, AppendFacts DEF SortAfter

\* A message at the end leaves the order of the others alone.
LEMMA AppendKeepsOrder ==
  ASSUME NEW q \in Seq(Paths \cup {MSG_SORT}), NEW x \in Paths \cup {MSG_SORT},
         NEW i \in DOMAIN q, SortAfter(q, i)
  PROVE  SortAfter(Append(q, x), i)
<1>1. PICK j \in DOMAIN q : j > i /\ q[j] = MSG_SORT
  BY DEF SortAfter
<1>2. j \in DOMAIN Append(q, x) /\ Append(q, x)[j] = MSG_SORT
  BY <1>1, AppendFacts
<1> QED
  BY <1>1, <1>2 DEF SortAfter

LEMMA TailFacts ==
  ASSUME NEW q \in Seq(Paths \cup {MSG_SORT}), q # << >>
  PROVE  /\ Tail(q) \in Seq(Paths \cup {MSG_SORT})
         /\ Head(q) = q[1] /\ 1 \in DOMAIN q /\ Len(q) \in Nat
         /\ DOMAIN q = 1 .. Len(q) /\ DOMAIN Tail(q) = 1 .. Len(q) - 1
         /\ \A i \in DOMAIN Tail(q) : i + 1 \in DOMAIN q /\ Tail(q)[i] = q[i + 1]
  OBVIOUS

LEMMA TailKeepsOrder ==
  ASSUME NEW q \in Seq(Paths \cup {MSG_SORT}), q # << >>,
         NEW i \in DOMAIN Tail(q), SortAfter(q, i + 1)
  PROVE  SortAfter(Tail(q), i)
<1>1. PICK j \in DOMAIN q : j > i + 1 /\ q[j] = MSG_SORT
  BY DEF SortAfter
<1>2. j - 1 \in DOMAIN Tail(q) /\ j - 1 > i /\ (j - 1) + 1 = j
  BY <1>1, TailFacts
<1>3. Tail(q)[j - 1] = MSG_SORT
  BY <1>1, <1>2, TailFacts
<1> QED
  BY <1>2, <1>3 DEF SortAfter

LEMMA RequestSortFacts ==
  ASSUME NEW g \in Channel
  PROVE  /\ RequestSort(g) \in Channel
         /\ RequestSort(g).conn = g.conn /\ RequestSort(g).best = g.best
         /\ RequestSort(g).pending = g.pending /\ RequestSort(g).late = g.late
         /\ RequestSort(g).writable = g.writable /\ RequestSort(g).receiving = g.receiving
         /\ RequestSort(g).sort_dirty
         /\ RequestSort(g).queue = IF g.sort_dirty THEN g.queue ELSE Append(g.queue, MSG_SORT)
         /\ RequestSort(g).role = g.role
<1>1. CASE g.sort_dirty
  BY <1>1 DEF RequestSort
<1>2. CASE ~g.sort_dirty
  <2>1. Append(g.queue, MSG_SORT) \in Seq(Paths \cup {MSG_SORT})
    BY AppendFacts DEF Channel
  <2>2. RequestSort(g) = [g EXCEPT !.sort_dirty = TRUE, !.queue = Append(g.queue, MSG_SORT)]
    BY <1>2 DEF RequestSort
  <2> QED
    BY <1>2, <2>1, <2>2 DEF Channel
<1> QED
  BY <1>1, <1>2

\* What a request for a sort keeps, and that it makes up for what is out of step.
LEMMA RequestSortKeeps ==
  ASSUME NEW g, Valid(g)
  PROVE  /\ Valid(RequestSort(g)) /\ connections(RequestSort(g)) = connections(g)
         /\ DeleteSeen(g) => DeleteSeen(RequestSort(g))
         /\ SortPosted(g) => Synced(RequestSort(g))
         /\ Covered(g) => Covered(RequestSort(g)) /\ DeleteSeen(RequestSort(g))
<1> DEFINE h == RequestSort(g)
<1>0. g \in Channel /\ g.queue \in Seq(Paths \cup {MSG_SORT})
  BY DEF Valid, Channel
<1>1. /\ h \in Channel
      /\ h.conn = g.conn /\ h.best = g.best
      /\ h.pending = g.pending
      /\ h.sort_dirty
      /\ h.queue = IF g.sort_dirty THEN g.queue ELSE Append(g.queue, MSG_SORT)
  BY <1>0, RequestSortFacts
<1> HIDE DEF h
<1>2. connections(h) = connections(g)
  BY <1>1 DEF connections
<1>3. Linked(h)
  BY <1>1, <1>2 DEF Valid, Linked
<1>4. CASE g.sort_dirty
  <2>1. h.queue = g.queue /\ Posted(h) = Posted(g)
    BY <1>1, <1>4 DEF Posted
  <2>2. QueueOK(h)
    BY <1>2, <2>1 DEF Valid, QueueOK
  <2>3. DeleteSeen(g) => DeleteSeen(h)
    BY <1>1, <2>1 DEF DeleteSeen
  <2>4. SortPosted(g) => Synced(h)
    BY <1>1, <1>4, <2>1 DEF Synced, SortPosted, BestSorted, WritableInSync, ReceivingInSync
  <2>5. Covered(g) => Covered(h) /\ DeleteSeen(h)
    BY <1>1, <1>4, <2>1 DEF Covered, DeleteSeen
  <2> QED
    BY <1>1, <1>2, <1>3, <2>2, <2>3, <2>4, <2>5 DEF h, Valid
<1>5. CASE ~g.sort_dirty
  <2>1. h.queue = Append(g.queue, MSG_SORT)
    BY <1>1, <1>5
  <2>2. Posted(h) = Posted(g) \cup {MSG_SORT}
    BY <1>0, <2>1, AppendFacts DEF Posted
  <2>3. QueueOK(h)
    <3>1. Posted(h) \subseteq connections(h) \cup {MSG_SORT}
      BY <1>2, <2>2 DEF Valid, QueueOK
    <3>2. ASSUME NEW i \in DOMAIN h.queue, h.queue[i] # MSG_SORT
          PROVE  i \in DOMAIN g.queue /\ h.queue[i] = g.queue[i]
      BY <1>0, <2>1, <3>2, AppendFacts
    <3> QED
      BY <3>1, <3>2 DEF Valid, QueueOK
  <2>4. \A i \in DOMAIN h.queue : h.queue[i] # MSG_SORT => SortAfter(h.queue, i)
    BY <1>0, <2>1, AppendedSortIsLast
  <2>5. Covered(h) /\ DeleteSeen(h)
    BY <2>4 DEF Covered, DeleteSeen
  <2>6. Synced(h)
    BY <1>1, <2>2 DEF Synced, SortPosted, BestSorted, WritableInSync, ReceivingInSync
  <2> QED
    BY <1>1, <1>2, <1>3, <2>3, <2>5, <2>6 DEF h, Valid
<1> QED
  BY <1>4, <1>5

-----------------------------------------------------------------------------
(* State changes of a connection *)

\* h comes from g by a change that asks for a sort.
Requested(g, h) ==
  /\ Valid(h) /\ connections(h) = connections(g) /\ h.late = g.late
  /\ DeleteSeen(g) => DeleteSeen(h)
  /\ SortPosted(g) => Synced(h)
  /\ Covered(g) => Covered(h) /\ DeleteSeen(h)

LEMMA OnConnectionStateChangeKeeps ==
  ASSUME NEW g, Valid(g), NEW c \in connections(g)
  PROVE  Requested(g, OnConnectionStateChange(g, c))
<1> DEFINE h == IF g.role = "CONTROLLED" /\ g.pending = c /\ Writable(g, c)
                THEN [g EXCEPT !.pending = None, !.best = c] ELSE g
<1>0. g \in Channel /\ c \in Paths
  BY DEF Valid, connections
<1>1. /\ h \in Channel
      /\ h.conn = g.conn /\ h.queue = g.queue /\ h.sort_dirty = g.sort_dirty /\ h.late = g.late
  BY <1>0 DEF Channel
<1>2. /\ h.best = c \/ h.best = g.best
      /\ h.pending = None \/ h.pending = g.pending
  BY <1>0 DEF Channel
<1>3. OnConnectionStateChange(g, c) = RequestSort(h)
  BY DEF OnConnectionStateChange
<1> HIDE DEF h
<1>4. connections(h) = connections(g) /\ Posted(h) = Posted(g)
  BY <1>1 DEF connections, Posted
<1>5. Valid(h)
  <2>1. Linked(h)
    BY <1>1, <1>2, <1>4 DEF Valid, Linked
  <2>2. QueueOK(h)
    BY <1>1, <1>4 DEF Valid, QueueOK
  <2> QED
    BY <1>1, <2>1, <2>2 DEF Valid
<1>6. /\ DeleteSeen(g) => DeleteSeen(h)
      /\ SortPosted(g) => SortPosted(h)
      /\ Covered(g) => Covered(h)
  BY <1>1, <1>4 DEF DeleteSeen, SortPosted, Covered
<1>7. RequestSort(h).late = g.late
  BY <1>1, RequestSortFacts
<1> QED
  BY <1>3, <1>4, <1>5, <1>6, <1>7, RequestSortKeeps DEF Requested

LEMMA SetWriteStateKeeps ==
  ASSUME NEW g, Valid(g), NEW c \in connections(g),
         NEW w \in WriteStates \ {"NONE"}
  PROVE  LET h == set_write_state(g, c, w)
         IN /\ Valid(h) /\ connections(h) = connections(g) /\ h.late = g.late
            /\ DeleteSeen(g) => DeleteSeen(h)
            /\ SortPosted(g) /\ Synced(g) => Synced(h)
            /\ Covered(g) => Covered(h)
<1>1. CASE g.conn[c].write = w
  BY <1>1 DEF set_write_state
<1>2. CASE g.conn[c].write # w
  <2> DEFINE i == [g EXCEPT !.conn[c].write = w]
  <2>1. g \in Channel /\ c \in Paths /\ g.conn[c] \in Connection /\ g.conn[c].write # "NONE"
    BY DEF Valid, connections, Channel
  <2>2. i.conn = [g.conn EXCEPT ![c].write = w]
    BY <2>1 DEF Channel
  <2>3. [g.conn[c] EXCEPT !.write = w] \in Connection
    BY <2>1 DEF Connection
  <2>4. i.conn \in [Paths -> Connection]
    BY <2>1, <2>2, <2>3 DEF Channel
  <2>5. /\ i \in Channel
        /\ i.best = g.best /\ i.pending = g.pending /\ i.queue = g.queue
        /\ i.sort_dirty = g.sort_dirty /\ i.late = g.late
    BY <2>1, <2>4 DEF Channel
  <2>6. /\ i.conn[c].write = w /\ i.conn[c].receiving = g.conn[c].receiving
        /\ \A d \in Paths \ {c} : i.conn[d] = g.conn[d]
    BY <2>1, <2>2 DEF Channel, Connection
  <2>7. set_write_state(g, c, w) = OnConnectionStateChange(i, c)
    BY <1>2 DEF set_write_state
  <2> HIDE DEF i
  <2>8. connections(i) = connections(g) /\ Posted(i) = Posted(g)
    BY <2>1, <2>5, <2>6 DEF connections, Posted
  <2>9. Valid(i)
    <3>1. Linked(i)
      BY <2>5, <2>6, <2>8 DEF Valid, Linked
    <3>2. QueueOK(i)
      BY <2>5, <2>8 DEF Valid, QueueOK
    <3> QED
      BY <2>5, <3>1, <3>2 DEF Valid
  <2>10. DeleteSeen(g) => DeleteSeen(i)
    <3> SUFFICES ASSUME DeleteSeen(g), NEW k \in DOMAIN g.queue, g.queue[k] # MSG_SORT,
                        i.conn[g.queue[k]].receiving
                 PROVE  SortAfter(g.queue, k)
      BY <2>5 DEF DeleteSeen
    <3>1. g.queue[k] \in Paths
      BY <2>1 DEF Channel
    <3>2. g.conn[g.queue[k]].receiving
      BY <2>6, <3>1
    <3> QED
      BY <3>2 DEF DeleteSeen
  <2>11. (SortPosted(g) => SortPosted(i)) /\ (Covered(g) => Covered(i))
    BY <2>5, <2>8 DEF SortPosted, Covered
  <2>12. Requested(i, OnConnectionStateChange(i, c))
    BY <2>8, <2>9, OnConnectionStateChangeKeeps
  <2> QED
    BY <2>5, <2>7, <2>8, <2>10, <2>11, <2>12 DEF Requested
<1> QED
  BY <1>1, <1>2

LEMMA SetReceivingKeeps ==
  ASSUME NEW g, Valid(g), NEW c \in connections(g), NEW value \in BOOLEAN,
         DeleteSeen(g), value => Covered(g)
  PROVE  LET h == set_receiving(g, c, value)
         IN /\ Valid(h) /\ connections(h) = connections(g) /\ h.late = g.late
            /\ DeleteSeen(h)
            /\ SortPosted(g) /\ Synced(g) => Synced(h)
            /\ Covered(g) => Covered(h)
<1>1. CASE g.conn[c].receiving = value
  BY <1>1 DEF set_receiving
<1>2. CASE g.conn[c].receiving # value
  <2> DEFINE i == [g EXCEPT !.conn[c].receiving = value]
  <2>1. g \in Channel /\ c \in Paths /\ g.conn[c] \in Connection /\ g.conn[c].write # "NONE"
    BY DEF Valid, connections, Channel
  <2>2. i.conn = [g.conn EXCEPT ![c].receiving = value]
    BY <2>1 DEF Channel
  <2>3. [g.conn[c] EXCEPT !.receiving = value] \in Connection
    BY <2>1 DEF Connection
  <2>4. i.conn \in [Paths -> Connection]
    BY <2>1, <2>2, <2>3 DEF Channel
  <2>5. /\ i \in Channel
        /\ i.best = g.best /\ i.pending = g.pending /\ i.queue = g.queue
        /\ i.sort_dirty = g.sort_dirty /\ i.late = g.late
    BY <2>1, <2>4 DEF Channel
  <2>6. /\ i.conn[c].write = g.conn[c].write /\ i.conn[c].receiving = value
        /\ \A d \in Paths \ {c} : i.conn[d] = g.conn[d]
    BY <2>1, <2>2 DEF Channel, Connection
  <2>7. set_receiving(g, c, value) = OnConnectionStateChange(i, c)
    BY <1>2 DEF set_receiving
  <2> HIDE DEF i
  <2>8. connections(i) = connections(g) /\ Posted(i) = Posted(g)
    BY <2>1, <2>5, <2>6 DEF connections, Posted
  <2>9. Valid(i)
    <3>1. Linked(i)
      BY <2>5, <2>6, <2>8 DEF Valid, Linked
    <3>2. QueueOK(i)
      BY <2>5, <2>8 DEF Valid, QueueOK
    <3> QED
      BY <2>5, <3>1, <3>2 DEF Valid
  <2>10. ~value => DeleteSeen(i)
    <3> SUFFICES ASSUME ~value, NEW k \in DOMAIN g.queue, g.queue[k] # MSG_SORT,
                        i.conn[g.queue[k]].receiving
                 PROVE  SortAfter(g.queue, k)
      BY <2>5 DEF DeleteSeen
    <3>1. g.queue[k] \in Paths
      BY <2>1 DEF Channel
    <3>2. g.conn[g.queue[k]].receiving
      BY <2>6, <3>1
    <3> QED
      BY <3>2 DEF DeleteSeen
  <2>11. (SortPosted(g) => SortPosted(i)) /\ (Covered(g) => Covered(i))
    BY <2>5, <2>8 DEF SortPosted, Covered
  <2>12. Requested(i, OnConnectionStateChange(i, c))
    BY <2>8, <2>9, OnConnectionStateChangeKeeps
  <2>13. DeleteSeen(OnConnectionStateChange(i, c))
    BY <2>10, <2>11, <2>12 DEF Requested
  <2> QED
    BY <2>5, <2>7, <2>8, <2>11, <2>12, <2>13 DEF Requested
<1> QED
  BY <1>1, <1>2

-----------------------------------------------------------------------------
(* The order of the connections *)

LEMMA MinimumExists ==
  ASSUME NEW T \in SUBSET Nat, T # {}
  PROVE  \E x \in T : \A y \in T : x <= y
<1> DEFINE R == OpToRel(<, Nat)
<1>1. \A x, y \in Nat : <<y, x>> \notin R => x <= y
  BY DEF OpToRel
<1>2. IsWellFoundedOn(R, Nat)
  BY NatLessThanWellFounded
<1> HIDE DEF R
<1>3. \E x \in T : \A y \in T : ~(<<y, x>> \in R)
  BY <1>2, WFMin
<1> QED
  BY <1>1, <1>3

\* A finite set of numbers has a greatest one: there is no smallest set without.
LEMMA MaximumExists ==
  ASSUME NEW T \in SUBSET Nat, T # {}, IsFiniteSet(T)
  PROVE  \E x \in T : \A y \in T : y <= x
<1> DEFINE Bad(S) == /\ S # {} /\ IsFiniteSet(S)
                     /\ \A x \in S : \E y \in S : ~(y <= x)
           Sizes == {n \in Nat : \E S \in SUBSET Nat : Bad(S) /\ Cardinality(S) = n}
<1> SUFFICES ASSUME Bad(T) PROVE FALSE
  OBVIOUS
<1>1. Cardinality(T) \in Sizes
  BY FS_CardinalityType
<1>2. PICK n \in Sizes : \A k \in Sizes : n <= k
  <2>1. Sizes \in SUBSET Nat /\ Sizes # {}
    BY <1>1
  <2> HIDE DEF Sizes
  <2> QED
    BY <2>1, MinimumExists
<1>3. PICK S \in SUBSET Nat : Bad(S) /\ Cardinality(S) = n
  BY <1>2
<1>4. PICK x : x \in S
  BY <1>3
<1> DEFINE U == S \ {x}
<1>5. IsFiniteSet(U) /\ Cardinality(U) = n - 1
  BY <1>3, <1>4, FS_RemoveElement
<1>6. U # {}
  BY <1>3, <1>4
<1>7. U \in SUBSET Nat /\ Cardinality(U) \in Nat
  BY <1>5, FS_CardinalityType
<1>8. ASSUME Bad(U) PROVE FALSE
  <2>1. n - 1 \in Nat
    BY <1>5, <1>7
  <2>2. n - 1 \in Sizes
    BY <1>5, <1>7, <1>8, <2>1
  <2> QED
    BY <1>2, <2>1, <2>2
<1>9. PICK u \in U : \A y \in U : y <= u
  BY <1>5, <1>6, <1>8
<1>10. u \in Nat /\ x \in Nat
  BY <1>4, <1>7, <1>9
<1>11. CASE x <= u
  BY <1>3, <1>4, <1>9, <1>11
<1>12. CASE ~(x <= u)
  <2>1. \A y \in S : y <= x
    BY <1>7, <1>9, <1>10, <1>12
  <2> QED
    BY <1>3, <1>4, <2>1
<1> QED
  BY <1>11, <1>12

LEMMA PriorityIsNat ==
  ASSUME NEW g \in Channel, NEW c \in Paths
  PROVE  Priority(g, c) \in Nat
<1> DEFINE x == g.conn[c]
           G == IF g.role = "CONTROLLING" THEN x.local ELSE x.remote
           D == IF g.role = "CONTROLLING" THEN x.remote ELSE x.local
<1>1. x.local \in Nat /\ x.remote \in Nat
  BY DEF Channel, Connection, Priorities
<1>2. G \in Nat /\ D \in Nat
  BY <1>1
<1>3. Priority(g, c) = PairBase * Lower(G, D) + 2 * Higher(G, D) + (IF G > D THEN 1 ELSE 0)
  BY DEF Priority
<1> HIDE DEF x, G, D
<1>4. Lower(G, D) \in Nat /\ Higher(G, D) \in Nat /\ PairBase \in Nat
  BY <1>2, IceAssumption DEF Lower, Higher
<1>5. \A n, k \in Nat : n * k \in Nat
  OBVIOUS
<1> QED
  BY <1>2, <1>3, <1>4, <1>5

\* The sort finds a first connection, and none is in a better state.
LEMMA FirstIsBest ==
  ASSUME NEW g \in Channel, connections(g) # {}
  PROVE  /\ First(g, connections(g)) \in connections(g)
         /\ \A d \in connections(g) : ~BetterState(g.conn[d], g.conn[First(g, connections(g))])
<1> DEFINE S == connections(g)
           rank(c) == Rank(g.conn[c].write)
<1>1. S \subseteq Paths /\ S \subseteq Nat /\ IsFiniteSet(S)
  BY IceAssumption, FS_Subset DEF connections
<1>2. \A c \in S : /\ g.conn[c] \in Connection
                   /\ g.conn[c].write \in {"WRITABLE", "UNRELIABLE", "INIT", "TIMEOUT"}
                   /\ g.conn[c].receiving \in BOOLEAN
  BY DEF connections, Channel, Connection, WriteStates
<1>3. \A c \in S : rank(c) \in Nat
  BY <1>2 DEF Rank
<1>4. \A c, d \in S : rank(c) = rank(d) => g.conn[c].write = g.conn[d].write
  BY <1>2 DEF Rank
<1> HIDE DEF rank
<1>5. \E m \in {rank(c) : c \in S} : \A n \in {rank(c) : c \in S} : m <= n
  <2>1. {rank(c) : c \in S} \in SUBSET Nat /\ {rank(c) : c \in S} # {}
    BY <1>3
  <2> QED
    BY <2>1, MinimumExists
<1>6. PICK m \in S : \A c \in S : rank(m) <= rank(c)
  BY <1>5
<1> DEFINE T == {c \in S : rank(c) = rank(m)}
           U == IF \E c \in T : g.conn[c].receiving THEN {c \in T : g.conn[c].receiving} ELSE T
<1>7. U # {} /\ U \subseteq T /\ T \subseteq S /\ U \in SUBSET Nat /\ IsFiniteSet(U)
  <2>1. m \in T
    BY <1>6
  <2>2. U # {} /\ U \subseteq T /\ T \subseteq S
    BY <2>1
  <2>3. IsFiniteSet(U)
    BY <1>1, <2>2, FS_Subset
  <2> QED
    BY <1>1, <2>2, <2>3
<1>8. \A c \in U, d \in S : ~BetterState(g.conn[d], g.conn[c])
  <2> SUFFICES ASSUME NEW c \in U, NEW d \in S, BetterState(g.conn[d], g.conn[c]) PROVE FALSE
    OBVIOUS
  <2>1. rank(c) = rank(m) /\ rank(m) <= rank(d) /\ rank(c) \in Nat /\ rank(d) \in Nat
    BY <1>3, <1>6, <1>7
  <2>2. ~(rank(d) < rank(c))
    BY <2>1
  <2>3. g.conn[d].write = g.conn[c].write /\ g.conn[d].receiving /\ ~g.conn[c].receiving
    BY <2>2 DEF BetterState, rank
  <2>4. d \in T
    BY <1>7, <2>1, <2>3 DEF rank
  <2> QED
    BY <2>3, <2>4
<1>9. \A c, d \in S : rank(c) < rank(d) => BetterState(g.conn[c], g.conn[d])
  BY DEF BetterState, rank
<1>10. \A c \in U : \A d \in S \ U : BetterState(g.conn[c], g.conn[d])
  <2> SUFFICES ASSUME NEW c \in U, NEW d \in S \ U PROVE BetterState(g.conn[c], g.conn[d])
    OBVIOUS
  <2>1. rank(c) = rank(m) /\ rank(m) <= rank(d) /\ rank(c) \in Nat /\ rank(d) \in Nat /\ c \in S
    BY <1>3, <1>6, <1>7
  <2>2. CASE rank(d) = rank(m)
    <3>1. g.conn[c].receiving /\ ~g.conn[d].receiving
      BY <1>2, <2>2
    <3>2. g.conn[c].write = g.conn[d].write
      BY <1>4, <2>1, <2>2
    <3> QED
      BY <3>1, <3>2 DEF BetterState
  <2>3. CASE rank(d) # rank(m)
    <3>1. rank(c) < rank(d)
      BY <2>1, <2>3
    <3> QED
      BY <1>9, <2>1, <3>1
  <2> QED
    BY <2>2, <2>3
<1>11. PICK top \in U : \A c \in U \ {top} :
         \/ Priority(g, top) > Priority(g, c)
         \/ Priority(g, top) = Priority(g, c) /\ top > c
  <2>1. \A c \in U : Priority(g, c) \in Nat
    BY <1>1, <1>7, PriorityIsNat
  <2> HIDE DEF U
  <2> DEFINE P == {Priority(g, c) : c \in U}
  <2>2. P \in SUBSET Nat /\ P # {}
    BY <1>7, <2>1
  <2>3. IsFiniteSet(P)
    <3> DEFINE f == [c \in U |-> Priority(g, c)]
    <3>1. f \in Surjection(U, P)
      BY DEF Surjection
    <3> HIDE DEF f, P
    <3> QED
      BY <1>7, <3>1, FS_Surjection
  <2>4. \E p \in P : \A q \in P : q <= p
    <3> HIDE DEF P
    <3> QED
      BY <2>2, <2>3, MaximumExists
  <2>5. PICK u \in U : \A c \in U : Priority(g, c) <= Priority(g, u)
    BY <2>4
  <2> DEFINE V == {c \in U : Priority(g, c) = Priority(g, u)}
  <2>6. V \in SUBSET Nat /\ V # {} /\ V \subseteq U
    BY <1>7, <2>5
  <2>7. IsFiniteSet(V)
    BY <1>7, <2>6, FS_Subset
  <2>8. PICK v \in V : \A c \in V : c <= v
    <3> HIDE DEF V
    <3> QED
      BY <2>6, <2>7, MaximumExists
  <2>9. ASSUME NEW c \in U \ {v}
        PROVE  \/ Priority(g, v) > Priority(g, c)
               \/ Priority(g, v) = Priority(g, c) /\ v > c
    <3>1. /\ Priority(g, v) = Priority(g, u) /\ Priority(g, c) <= Priority(g, u)
          /\ Priority(g, c) \in Nat /\ Priority(g, u) \in Nat /\ c \in Nat /\ v \in Nat /\ c # v
      BY <1>7, <2>1, <2>5, <2>6, <2>8
    <3>2. Priority(g, c) = Priority(g, u) => c <= v
      BY <2>8
    <3> QED
      BY <3>1, <3>2
  <2> QED
    BY <2>6, <2>8, <2>9
<1>12. top \in S /\ \A d \in S \ {top} : Before(g, top, d)
  <2> SUFFICES ASSUME NEW d \in S \ {top} PROVE Before(g, top, d)
    BY <1>7
  <2>1. ~BetterState(g.conn[d], g.conn[top])
    BY <1>8
  <2>2. CASE d \in U
    <3>1. \/ Priority(g, top) > Priority(g, d)
          \/ Priority(g, top) = Priority(g, d) /\ top > d
      BY <1>11, <2>2
    <3> QED
      BY <2>1, <3>1 DEF Before
  <2>3. CASE d \notin U
    BY <1>10, <2>3 DEF Before
  <2> QED
    BY <2>2, <2>3
<1>13. /\ First(g, S) \in S
       /\ \A d \in S \ {First(g, S)} : Before(g, First(g, S), d)
  <2> HIDE DEF S
  <2> QED
    BY <1>12 DEF First
<1> HIDE DEF S
<1>14. ASSUME NEW d \in S PROVE ~BetterState(g.conn[d], g.conn[First(g, S)])
  <2> DEFINE f == First(g, S)
  <2>1. f \in S /\ rank(f) \in Nat /\ rank(d) \in Nat
    BY <1>3, <1>13
  <2>2. ~BetterState(g.conn[d], g.conn[d])
    BY <2>1 DEF BetterState, rank
  <2>3. BetterState(g.conn[f], g.conn[d]) => ~BetterState(g.conn[d], g.conn[f])
    <3>1. g.conn[f].write = g.conn[d].write => rank(f) = rank(d)
      BY DEF rank
    <3> QED
      BY <2>1, <3>1 DEF BetterState, rank
  <2>4. CASE d = f
    BY <2>2, <2>4
  <2>5. CASE d # f
    <3>1. Before(g, f, d)
      BY <1>13, <2>5
    <3> QED
      BY <2>3, <3>1 DEF Before
  <2> QED
    BY <2>4, <2>5
<1> QED
  BY <1>13, <1>14 DEF S

-----------------------------------------------------------------------------
(* Updating and sorting the connections *)

LEMMA DestroyKeeps ==
  ASSUME NEW g, Valid(g), NEW c \in connections(g), ~g.conn[c].receiving
  PROVE  LET h == Destroy(g, c)
         IN /\ Valid(h) /\ connections(h) = connections(g)
            /\ DeleteSeen(g) => DeleteSeen(h)
            /\ Synced(g) => Synced(h)
<1>1. CASE c \in Posted(g)
  BY <1>1 DEF Destroy
<1>2. CASE c \notin Posted(g)
  <2> DEFINE h == Destroy(g, c)
  <2>1. g \in Channel /\ g.queue \in Seq(Paths \cup {MSG_SORT}) /\ c \in Paths /\ c # MSG_SORT
    BY IceAssumption DEF Valid, Channel, connections, MSG_SORT
  <2>2. h = [g EXCEPT !.queue = Append(g.queue, c)]
    BY <1>2 DEF Destroy
  <2>3. Append(g.queue, c) \in Seq(Paths \cup {MSG_SORT})
    BY <2>1, AppendFacts
  <2>4. /\ h \in Channel /\ h.queue = Append(g.queue, c)
        /\ h.conn = g.conn /\ h.best = g.best /\ h.pending = g.pending
        /\ h.sort_dirty = g.sort_dirty /\ h.writable = g.writable /\ h.receiving = g.receiving
    BY <2>1, <2>2, <2>3 DEF Channel
  <2> HIDE DEF h
  <2>5. connections(h) = connections(g)
    BY <2>4 DEF connections
  <2>6. Posted(h) = Posted(g) \cup {c}
    BY <2>1, <2>4, AppendFacts DEF Posted
  <2>7. \A i \in DOMAIN h.queue :
          \/ i \in DOMAIN g.queue /\ h.queue[i] = g.queue[i] /\ g.queue[i] # c
          \/ i = Len(g.queue) + 1 /\ h.queue[i] = c
    BY <1>2, <2>1, <2>4, AppendFacts DEF Posted
  <2>8. Linked(h)
    BY <2>4, <2>5 DEF Valid, Linked
  <2>9. QueueOK(h)
    <3>1. Posted(h) \subseteq connections(h) \cup {MSG_SORT}
      BY <2>5, <2>6 DEF Valid, QueueOK
    <3>2. ASSUME NEW i \in DOMAIN h.queue, NEW j \in DOMAIN h.queue,
                 h.queue[i] = h.queue[j], h.queue[i] # MSG_SORT
          PROVE  i = j
      <4>1. CASE i \in DOMAIN g.queue /\ h.queue[i] = g.queue[i] /\ g.queue[i] # c
        <5>1. j \in DOMAIN g.queue /\ h.queue[j] = g.queue[j]
          BY <2>7, <3>2, <4>1
        <5> QED
          BY <3>2, <4>1, <5>1 DEF Valid, QueueOK
      <4>2. CASE i = Len(g.queue) + 1 /\ h.queue[i] = c
        BY <2>7, <3>2, <4>2
      <4> QED
        BY <2>7, <4>1, <4>2
    <3> QED
      BY <3>1, <3>2 DEF QueueOK
  <2>10. DeleteSeen(g) => DeleteSeen(h)
    <3> SUFFICES ASSUME DeleteSeen(g), NEW i \in DOMAIN h.queue, h.queue[i] # MSG_SORT,
                        h.conn[h.queue[i]].receiving
                 PROVE  SortAfter(h.queue, i)
      BY DEF DeleteSeen
    <3>1. i \in DOMAIN g.queue /\ h.queue[i] = g.queue[i]
      BY <2>4, <2>7
    <3>2. SortAfter(g.queue, i)
      BY <2>4, <3>1 DEF DeleteSeen
    <3> QED
      BY <2>1, <2>4, <3>1, <3>2, AppendKeepsOrder
  <2>11. \A d : Writable(h, d) = Writable(g, d)
    BY <2>4 DEF Writable
  <2>12. MSG_SORT \in Posted(h) <=> MSG_SORT \in Posted(g)
    BY <2>1, <2>6
  <2>13. Receives(h) = Receives(g)
    BY <2>4 DEF Receives
  <2>14. Synced(g) => Synced(h)
    <3> SUFFICES ASSUME Synced(g) PROVE Synced(h)
      OBVIOUS
    <3>1. SortPosted(h) /\ ReceivingInSync(h)
      BY <2>4, <2>12, <2>13 DEF Synced, SortPosted, ReceivingInSync
    <3>2. BestSorted(h) /\ WritableInSync(h)
      BY <2>4, <2>11 DEF Synced, BestSorted, WritableInSync
    <3> QED
      BY <3>1, <3>2 DEF Synced
  <2> QED
    BY <2>4, <2>5, <2>8, <2>9, <2>10, <2>14 DEF h, Valid
<1> QED
  BY <1>1, <1>2

LEMMA UpdateKeeps ==
  ASSUME NEW g, Sound(g), NEW h \in UpdateConnectionStates(g)
  PROVE  Sound(h) /\ connections(h) = connections(g) /\ (Synced(g) => Synced(h))
<1> DEFINE Keeps(i) == Sound(i) /\ connections(i) = connections(g) /\ (Synced(g) => Synced(i))
           Slow(c) == set_write_state(g, c, IF Writable(g, c) THEN "UNRELIABLE" ELSE "TIMEOUT")
           Silent(c) == set_receiving(g, c, FALSE)
           Late(i) == [i EXCEPT !.late = @ - 1]
           dead(i) == {c \in Paths : i.conn[c].write = "TIMEOUT" /\ ~i.conn[c].receiving}
<1>0. Valid(g) /\ DeleteSeen(g) /\ g \in Channel /\ g.late \in Nat
  BY DEF Sound, Valid, Channel
<1>1. Synced(g) => SortPosted(g)
  BY DEF Synced
<1>2. ASSUME NEW c \in connections(g) PROVE Keeps(Slow(c)) /\ Slow(c).late = g.late
  BY <1>0, <1>1, SetWriteStateKeeps DEF Sound, WriteStates
<1>3. ASSUME NEW c \in connections(g) PROVE Keeps(Silent(c)) /\ Silent(c).late = g.late
  BY <1>0, <1>1, SetReceivingKeeps DEF Sound
<1>4. ASSUME NEW i, Keeps(i), i.late = g.late, g.late # 0 PROVE Keeps(Late(i))
  <2>1. i \in Channel /\ i.late - 1 \in Nat
    BY <1>0, <1>4 DEF Sound, Valid
  <2>2. Alike(i, Late(i))
    BY <2>1 DEF Alike, Channel
  <2> QED
    BY <1>4, <2>1, <2>2, AlikeKeeps DEF Sound
<1>5. ASSUME NEW i, Keeps(i), NEW c \in dead(i) PROVE Keeps(Destroy(i, c))
  <2>1. c \in connections(i) /\ ~i.conn[c].receiving
    BY DEF connections
  <2> QED
    BY <1>5, <2>1, DestroyKeeps DEF Sound
<1>6. Keeps(g)
  OBVIOUS
<1> DEFINE MayBeSlow == {c \in connections(g) :
             LET x == g.conn[c] IN
             IF x.write = "WRITABLE" THEN x.pings >= MaxFailures ELSE Active(x) /\ x.pings > 0}
           late == {Slow(c) : c \in MayBeSlow}
                     \cup {Silent(c) : c \in {d \in connections(g) : g.conn[d].receiving}}
           updated == {g} \cup IF g.late = 0 THEN {} ELSE {Late(i) : i \in late}
<1>7. UpdateConnectionStates(g) = updated \cup UNION {{Destroy(i, c) : c \in dead(i)} : i \in updated}
  BY DEF UpdateConnectionStates
<1>8. \A i \in late : Keeps(i) /\ i.late = g.late
  <2> HIDE DEF Keeps, Slow, Silent
  <2> QED
    BY <1>2, <1>3
<1>9. \A i \in updated : Keeps(i)
  <2> HIDE DEF Keeps, Late, late
  <2> QED
    BY <1>4, <1>6, <1>8
<1>10. Keeps(h)
  <2> HIDE DEF Keeps, updated, dead
  <2>1. h \in updated \/ \E i \in updated : \E c \in dead(i) : h = Destroy(i, c)
    BY <1>7
  <2> QED
    BY <1>5, <1>9, <2>1
<1> QED
  BY <1>10

\* After the switch the best connection is writable if any is.
LEMMA SwitchedKeeps ==
  ASSUME NEW g, Sound(g), ~g.sort_dirty
  PROVE  LET h == Switched(g)
         IN Sound(h) /\ connections(h) = connections(g) /\ ~h.sort_dirty /\ BestSorted(h)
<1> DEFINE top == First(g, connections(g))
           h == Switched(g)
<1>0. g \in Channel /\ Linked(g) /\ QueueOK(g) /\ DeleteSeen(g)
  BY DEF Sound, Valid
<1>1. connections(g) \subseteq Paths
  BY DEF connections
<1>2. h = IF connections(g) # {} /\ ShouldSwitch(g, top) THEN [g EXCEPT !.best = top] ELSE g
  BY DEF Switched
<1>3. connections(g) # {} => top \in connections(g)
  BY <1>0, FirstIsBest
<1>4. \A d \in connections(g) : ~BetterState(g.conn[d], g.conn[top])
  BY <1>0, FirstIsBest
<1> HIDE DEF top
<1>5. /\ h \in Channel /\ h.conn = g.conn /\ h.queue = g.queue
      /\ h.sort_dirty = g.sort_dirty /\ h.pending = g.pending
      /\ h.best = IF connections(g) # {} /\ ShouldSwitch(g, top) THEN top ELSE g.best
  BY <1>0, <1>1, <1>2, <1>3 DEF Channel
<1> HIDE DEF h
<1>6. connections(h) = connections(g) /\ Posted(h) = Posted(g)
  BY <1>5 DEF connections, Posted
<1>7. Linked(h) /\ QueueOK(h)
  BY <1>0, <1>3, <1>5, <1>6 DEF Linked, QueueOK
<1>8. DeleteSeen(h)
  BY <1>0, <1>5 DEF DeleteSeen
<1>9. BestSorted(h)
  <2> SUFFICES ASSUME NEW c \in Paths, Writable(h, c) PROVE Writable(h, h.best)
    BY DEF BestSorted
  <2>1. c \in connections(g) /\ g.conn[c].write = "WRITABLE"
    BY <1>5 DEF Writable, connections
  <2>2. \A d \in connections(g) : g.conn[d].write \in {"WRITABLE", "UNRELIABLE", "INIT", "TIMEOUT"}
    BY <1>0 DEF connections, Channel, Connection, WriteStates
  <2>3. top \in connections(g) /\ g.conn[top].write = "WRITABLE"
    <3>1. top \in connections(g) /\ ~BetterState(g.conn[c], g.conn[top])
      BY <1>3, <1>4, <2>1
    <3> QED
      BY <2>1, <2>2, <3>1 DEF BetterState, Rank
  <2>4. h.best \in connections(g) /\ g.conn[h.best].write = "WRITABLE"
    <3>1. CASE ShouldSwitch(g, top)
      BY <1>5, <2>1, <2>3, <3>1
    <3>2. CASE ~ShouldSwitch(g, top) /\ g.best = top
      BY <1>5, <2>3, <3>2
    <3>3. CASE ~ShouldSwitch(g, top) /\ g.best # top
      <4>1. g.best # None /\ ~BetterState(g.conn[top], g.conn[g.best]) /\ h.best = g.best
        BY <1>5, <3>3 DEF ShouldSwitch
      <4>2. g.best \in connections(g)
        BY <1>0, <4>1 DEF Linked
      <4> QED
        BY <2>2, <2>3, <4>1, <4>2 DEF BetterState, Rank
    <3> QED
      BY <3>1, <3>2, <3>3
  <2>5. h.best # None
    BY <1>1, <2>4, IceAssumption DEF None
  <2> QED
    BY <1>5, <2>4, <2>5 DEF Writable
<1> QED
  BY <1>5, <1>6, <1>7, <1>8, <1>9 DEF h, Sound, Valid

LEMMA PruneFacts ==
  ASSUME NEW x \in Connection, x.write # "NONE"
  PROVE  /\ Prune(x) \in Connection /\ Prune(x).write # "NONE"
         /\ Prune(x).receiving = x.receiving
         /\ ~Active(x) => Prune(x).write = x.write
<1>1. x.write \in WriteStates
  BY DEF Connection
<1>2. CASE ~x.pruned \/ Active(x)
  <2>1. Prune(x) = [x EXCEPT !.pruned = TRUE, !.requests = {}, !.write = "TIMEOUT"]
    BY <1>2 DEF Prune
  <2> QED
    BY <2>1 DEF Connection, WriteStates, Active
<1>3. CASE x.pruned /\ ~Active(x)
  BY <1>3 DEF Prune
<1> QED
  BY <1>2, <1>3 DEF Connection

\* A sort is requested if one of the connections that are pruned was active.
LEMMA PruneKeeps ==
  ASSUME NEW g, Sound(g), ~g.sort_dirty, BestSorted(g)
  PROVE  LET h == PruneConnections(g)
         IN /\ Sound(h) /\ connections(h) = connections(g)
            /\ SortPosted(h) /\ BestSorted(h) /\ Covered(h)
<1> DEFINE S == IF MayPrune(g) THEN Prunable(g) ELSE {}
           i == IF \E c \in S : Active(g.conn[c]) THEN RequestSort(g) ELSE g
           conn == [c \in Paths |-> IF c \in S THEN Prune(g.conn[c]) ELSE g.conn[c]]
           h == PruneConnections(g)
<1>0. g \in Channel /\ Valid(g) /\ DeleteSeen(g)
  BY DEF Sound, Valid
<1>1. S \subseteq connections(g)
  BY DEF Prunable
<1>2. SortPosted(g) /\ Covered(g)
  BY DEF SortPosted, Covered
<1>3. /\ i \in Channel /\ i.conn = g.conn
      /\ i.best = g.best /\ i.pending = g.pending
  BY <1>0, RequestSortFacts
<1>4. /\ Valid(i) /\ connections(i) = connections(g)
      /\ DeleteSeen(i) /\ SortPosted(i) /\ Covered(i)
  BY <1>0, <1>2, RequestSortKeeps DEF Synced
<1>5. ~i.sort_dirty => i = g /\ \A c \in S : ~Active(g.conn[c])
  BY <1>0, RequestSortFacts
<1>6. h = [i EXCEPT !.conn = [c \in Paths |-> IF c \in S THEN Prune(i.conn[c]) ELSE i.conn[c]]]
  BY DEF PruneConnections
<1>7. h = [i EXCEPT !.conn = conn]
  BY <1>3, <1>6
<1> HIDE DEF S, i, h
<1>8. \A c \in Paths : /\ g.conn[c] \in Connection
                       /\ c \in S => g.conn[c].write # "NONE"
  BY <1>0, <1>1 DEF Channel, connections
<1>9. \A c \in Paths : /\ conn[c] \in Connection
                       /\ conn[c].write = "NONE" <=> g.conn[c].write = "NONE"
                       /\ conn[c].receiving = g.conn[c].receiving
                       /\ ~(c \in S /\ Active(g.conn[c])) => conn[c].write = g.conn[c].write
                       /\ c \notin S => conn[c] = g.conn[c]
  BY <1>8, PruneFacts
<1>10. conn \in [Paths -> Connection]
  BY <1>9
<1> HIDE DEF conn
<1>11. /\ h \in Channel /\ h.conn = conn /\ h.best = i.best /\ h.pending = i.pending
       /\ h.queue = i.queue /\ h.sort_dirty = i.sort_dirty
  BY <1>3, <1>7, <1>10 DEF Channel
<1>12. connections(h) = connections(g) /\ Posted(h) = Posted(i)
  BY <1>9, <1>11 DEF connections, Posted
<1>13. Linked(h)
  <2>1. \A c \in Paths \ connections(g) : conn[c] = g.conn[c] /\ g.conn[c] = NoConnection
    BY <1>0, <1>1, <1>9 DEF Valid, Linked
  <2> QED
    BY <1>3, <1>4, <1>11, <1>12, <2>1 DEF Valid, Linked
<1>14. QueueOK(h)
  BY <1>4, <1>11, <1>12 DEF Valid, QueueOK
<1>15. DeleteSeen(h)
  <2> SUFFICES ASSUME NEW k \in DOMAIN i.queue, i.queue[k] # MSG_SORT,
                      conn[i.queue[k]].receiving
               PROVE  SortAfter(i.queue, k)
    BY <1>11 DEF DeleteSeen
  <2>1. i.queue[k] \in Paths
    BY <1>3 DEF Channel
  <2>2. i.conn[i.queue[k]].receiving
    BY <1>3, <1>9, <2>1
  <2> QED
    BY <1>4, <2>2 DEF DeleteSeen
<1>16. SortPosted(h) /\ Covered(h)
  BY <1>4, <1>11, <1>12 DEF SortPosted, Covered
<1>17. BestSorted(h)
  <2> SUFFICES ASSUME ~h.sort_dirty, NEW c \in Paths, Writable(h, c) PROVE Writable(h, h.best)
    BY DEF BestSorted
  <2>1. \A d \in Paths : h.conn[d].write = g.conn[d].write
    BY <1>5, <1>9, <1>11
  <2>2. Writable(g, c)
    BY <2>1 DEF Writable
  <2>3. Writable(g, g.best)
    BY <2>2 DEF BestSorted
  <2>4. h.best = g.best /\ g.best \in Paths \cup {None}
    BY <1>0, <1>3, <1>11 DEF Channel
  <2> QED
    BY <2>1, <2>3, <2>4 DEF Writable
<1> QED
  BY <1>11, <1>12, <1>13, <1>14, <1>15, <1>16, <1>17 DEF h, Sound, Valid

LEMMA UpdateChannelStateKeeps ==
  ASSUME NEW g, Sound(g), SortPosted(g), BestSorted(g), Covered(g)
  PROVE  LET h == UpdateChannelState(g)
         IN Sound(h) /\ Synced(h) /\ Covered(h) /\ connections(h) = connections(g)
<1> DEFINE h == UpdateChannelState(g)
<1>0. g \in Channel /\ Valid(g) /\ DeleteSeen(g)
  BY DEF Sound, Valid
<1>1. Writable(g, g.best) \in BOOLEAN /\ Receives(g) \in BOOLEAN
  BY DEF Writable, Receives
<1>2. h = [g EXCEPT !.writable = Writable(g, g.best), !.receiving = Receives(g)]
  BY DEF UpdateChannelState, Receives
<1>3. /\ h \in Channel /\ h.conn = g.conn /\ h.best = g.best /\ h.pending = g.pending
      /\ h.queue = g.queue /\ h.sort_dirty = g.sort_dirty
      /\ h.writable = Writable(g, g.best) /\ h.receiving = Receives(g)
  BY <1>0, <1>1, <1>2 DEF Channel
<1> HIDE DEF h
<1>4. connections(h) = connections(g) /\ Posted(h) = Posted(g) /\ Receives(h) = Receives(g)
  BY <1>3 DEF connections, Posted, Receives
<1>5. \A c : Writable(h, c) = Writable(g, c)
  BY <1>3 DEF Writable
<1>6. Linked(h) /\ QueueOK(h)
  BY <1>0, <1>3, <1>4 DEF Valid, Linked, QueueOK
<1>7. DeleteSeen(h) /\ Covered(h) /\ SortPosted(h)
  BY <1>0, <1>3, <1>4 DEF DeleteSeen, Covered, SortPosted
<1>8. BestSorted(h) /\ WritableInSync(h)
  BY <1>3, <1>5 DEF BestSorted, WritableInSync
<1>9. ReceivingInSync(h)
  BY <1>3, <1>4 DEF ReceivingInSync
<1> QED
  BY <1>3, <1>4, <1>6, <1>7, <1>8, <1>9 DEF h, Sound, Valid, Synced

\* A sort sets everything right, whatever was out of step.
LEMMA SortKeeps ==
  ASSUME NEW g, Sound(g), NEW h \in SortConnections(g)
  PROVE  Sound(h) /\ Synced(h) /\ Covered(h) /\ connections(h) = connections(g)
<1>1. PICK i \in UpdateConnectionStates(g) :
        h = UpdateChannelState(PruneConnections(Switched([i EXCEPT !.sort_dirty = FALSE])))
  BY DEF SortConnections
<1> DEFINE j == [i EXCEPT !.sort_dirty = FALSE]
<1>2. Sound(i) /\ connections(i) = connections(g)
  BY UpdateKeeps
<1>3. Sound(j) /\ connections(j) = connections(g) /\ ~j.sort_dirty
  <2>1. i \in Channel
    BY <1>2 DEF Sound, Valid
  <2>2. /\ j \in Channel /\ j.conn = i.conn /\ j.best = i.best /\ j.pending = i.pending
        /\ j.queue = i.queue /\ ~j.sort_dirty
    BY <2>1 DEF Channel
  <2> HIDE DEF j
  <2>3. connections(j) = connections(i) /\ Posted(j) = Posted(i)
    BY <2>2 DEF connections, Posted
  <2>4. Linked(j) /\ QueueOK(j)
    BY <1>2, <2>2, <2>3 DEF Sound, Valid, Linked, QueueOK
  <2>5. DeleteSeen(j)
    BY <1>2, <2>2 DEF Sound, DeleteSeen
  <2> QED
    BY <1>2, <2>2, <2>3, <2>4, <2>5 DEF Sound, Valid
<1> HIDE DEF j
<1> DEFINE k == Switched(j)
<1>4. Sound(k) /\ connections(k) = connections(g) /\ ~k.sort_dirty /\ BestSorted(k)
  BY <1>3, SwitchedKeeps
<1> HIDE DEF k
<1> DEFINE l == PruneConnections(k)
<1>5. /\ Sound(l) /\ connections(l) = connections(g)
      /\ SortPosted(l) /\ BestSorted(l) /\ Covered(l)
  BY <1>4, PruneKeeps
<1> HIDE DEF l
<1>6. h = UpdateChannelState(l)
  BY <1>1 DEF j, k, l
<1> QED
  BY <1>5, <1>6, UpdateChannelStateKeeps

-----------------------------------------------------------------------------
(* What a packet does *)

\* The state of an agent that may read packets.
Steady(g) == Sound(g) /\ Synced(g) /\ Covered(g)

LEMMA SteadyInv ==
  ASSUME NEW g, Steady(g)
  PROVE  AgentInv(g)
  BY DEF Steady, AgentInv

LEMMA AlikeSteady ==
  ASSUME NEW g, Steady(g), NEW h, Alike(g, h)
  PROVE  Steady(h) /\ connections(h) = connections(g)
  BY AlikeKeeps DEF Steady, Sound, Valid

LEMMA HandledInv ==
  ASSUME NEW g, Sound(g), Synced(g)
  PROVE  AgentInv(Handled(g))
<1> DEFINE h == Handled(g)
<1>1. g \in Channel
  BY DEF Sound, Valid
<1>2. Alike(g, h) /\ h.queue = g.queue /\ h.busy = (g.queue # << >>)
  BY <1>1 DEF Handled, Alike, Channel
<1> HIDE DEF h
<1>3. Sound(h) /\ Synced(h)
  BY <1>1, <1>2, AlikeKeeps DEF Sound
<1>4. ASSUME ~h.busy PROVE Covered(h)
  <2>1. h.queue = << >>
    BY <1>2, <1>4
  <2> QED
    BY <2>1 DEF Covered
<1> QED
  BY <1>3, <1>4 DEF h, AgentInv

LEMMA ReceivedSteady ==
  ASSUME NEW g, Steady(g), NEW c \in connections(g)
  PROVE  /\ Steady(set_receiving(g, c, TRUE))
         /\ connections(set_receiving(g, c, TRUE)) = connections(g)
  BY SetReceivingKeeps DEF Steady, Sound, Synced

LEMMA WriteStateSteady ==
  ASSUME NEW g, Steady(g), NEW c \in connections(g), NEW w \in WriteStates \ {"NONE"}
  PROVE  /\ Steady(set_write_state(g, c, w))
         /\ connections(set_write_state(g, c, w)) = connections(g)
  BY SetWriteStateKeeps DEF Steady, Sound, Synced

LEMMA ReviveSteady ==
  ASSUME NEW g, Steady(g), NEW c \in connections(g)
  PROVE  Steady(Revive(g, c)) /\ connections(Revive(g, c)) = connections(g)
  BY WriteStateSteady DEF Revive, WriteStates

LEMMA ResponseSteady ==
  ASSUME NEW g, Steady(g), NEW c \in connections(g)
  PROVE  /\ Steady(ReceivedPingResponse(g, c))
         /\ connections(ReceivedPingResponse(g, c)) = connections(g)
<1> DEFINE h == set_write_state(set_receiving(g, c, TRUE), c, "WRITABLE")
           i == [h EXCEPT !.conn[c].pings = 0]
<1>1. Steady(h) /\ connections(h) = connections(g)
  <2> DEFINE k == set_receiving(g, c, TRUE)
  <2>1. Steady(k) /\ connections(k) = connections(g)
    BY ReceivedSteady
  <2> HIDE DEF k
  <2>2. Steady(set_write_state(k, c, "WRITABLE"))
          /\ connections(set_write_state(k, c, "WRITABLE")) = connections(k)
    BY <2>1, WriteStateSteady DEF WriteStates
  <2> QED
    BY <2>1, <2>2 DEF k
<1> HIDE DEF h
<1>2. h \in Channel /\ c \in Paths /\ h.conn[c] \in Connection /\ h.conn[c].write # "NONE"
  BY <1>1 DEF Steady, Sound, Valid, connections, Channel
<1>3. i.conn = [h.conn EXCEPT ![c].pings = 0]
  BY <1>2 DEF Channel
<1>4. [h.conn[c] EXCEPT !.pings = 0] \in Connection
  BY <1>2, IceAssumption DEF Connection
<1>5. i.conn \in [Paths -> Connection]
  BY <1>2, <1>3, <1>4 DEF Channel
<1>6. \A d \in Paths : /\ i.conn[d].write = h.conn[d].write
                       /\ i.conn[d].receiving = h.conn[d].receiving
                       /\ d # c => i.conn[d] = h.conn[d]
  BY <1>2, <1>3 DEF Channel, Connection
<1>7. Alike(h, i)
  <2>1. i \in Channel
    BY <1>2, <1>5 DEF Channel
  <2>2. /\ i.best = h.best /\ i.pending = h.pending /\ i.queue = h.queue
        /\ i.sort_dirty = h.sort_dirty /\ i.writable = h.writable /\ i.receiving = h.receiving
    BY <1>2 DEF Channel
  <2> QED
    BY <1>2, <1>6, <2>1, <2>2 DEF Alike
<1>8. ReceivedPingResponse(g, c) = i
  BY DEF ReceivedPingResponse, h
<1> HIDE DEF i
<1> QED
  BY <1>1, <1>2, <1>7, <1>8, AlikeSteady, AlikeKeeps

LEMMA PrflxCandidateSteady ==
  ASSUME NEW g, Steady(g), NEW c \in connections(g)
  PROVE  Steady(MaybeAddPrflxCandidate(g, c))
<1> DEFINE p == g.cand[c].prflx
           i == [g EXCEPT !.mapped = @ \ {c}, !.conn[c].local = p]
<1>1. g \in Channel /\ c \in Paths /\ g.conn[c] \in Connection /\ g.conn[c].write # "NONE"
  BY DEF Steady, Sound, Valid, connections, Channel
<1>2. p \in Priorities
  BY <1>1 DEF Channel, Candidate
<1>3. MaybeAddPrflxCandidate(g, c) = IF c \in g.mapped THEN OnConnectionStateChange(i, c) ELSE g
  BY DEF MaybeAddPrflxCandidate
<1> HIDE DEF p
<1>4. [g.conn[c] EXCEPT !.local = p] \in Connection
  BY <1>1, <1>2 DEF Connection
<1>5. i.conn = [g.conn EXCEPT ![c].local = p]
  BY <1>1 DEF Channel
<1>6. i.conn \in [Paths -> Connection]
  BY <1>1, <1>4, <1>5 DEF Channel
<1>7. /\ i \in Channel /\ i.best = g.best /\ i.pending = g.pending /\ i.queue = g.queue
      /\ i.sort_dirty = g.sort_dirty /\ i.writable = g.writable /\ i.receiving = g.receiving
  BY <1>1, <1>6 DEF Channel
<1>8. \A d \in Paths : /\ i.conn[d].write = g.conn[d].write
                       /\ i.conn[d].receiving = g.conn[d].receiving
                       /\ d # c => i.conn[d] = g.conn[d]
  BY <1>1, <1>5 DEF Channel, Connection
<1> HIDE DEF i
<1>9. Alike(g, i)
  BY <1>1, <1>7, <1>8 DEF Alike
<1>10. Steady(i) /\ connections(i) = connections(g)
  BY <1>1, <1>9, AlikeSteady, AlikeKeeps
<1>11. Steady(OnConnectionStateChange(i, c))
  BY <1>10, OnConnectionStateChangeKeeps DEF Steady, Sound, Synced, Requested
<1> QED
  BY <1>3, <1>11

LEMMA RoleConflictAlike ==
  ASSUME NEW g \in Channel
  PROVE  Alike(g, OnRoleConflict(g))
  BY DEF OnRoleConflict, Alike, Channel, Reversed, Roles

LEMMA NominatedSteady ==
  ASSUME NEW g, Steady(g), NEW c \in connections(g), NEW m
  PROVE  Steady(MaybeNominate(g, c, m)) /\ connections(MaybeNominate(g, c, m)) = connections(g)
<1> DEFINE h == [g EXCEPT !.conn[c].nominated = TRUE]
           i == [h EXCEPT !.pending = c]
           j == [h EXCEPT !.pending = None, !.best = c]
<1>1. g \in Channel /\ c \in Paths /\ g.conn[c] \in Connection /\ g.conn[c].write # "NONE"
  BY DEF Steady, Sound, Valid, connections, Channel
<1>2. h.conn = [g.conn EXCEPT ![c].nominated = TRUE]
  BY <1>1 DEF Channel
<1>3. [g.conn[c] EXCEPT !.nominated = TRUE] \in Connection
  BY <1>1 DEF Connection
<1>4. h.conn \in [Paths -> Connection]
  BY <1>1, <1>2, <1>3 DEF Channel
<1>5. \A d \in Paths : /\ h.conn[d].write = g.conn[d].write
                       /\ h.conn[d].receiving = g.conn[d].receiving
                       /\ d # c => h.conn[d] = g.conn[d]
  BY <1>1, <1>2 DEF Channel, Connection
<1>6. Alike(g, h)
  <2>1. h \in Channel
    BY <1>1, <1>4 DEF Channel
  <2>2. /\ h.best = g.best /\ h.pending = g.pending /\ h.queue = g.queue
        /\ h.sort_dirty = g.sort_dirty /\ h.writable = g.writable /\ h.receiving = g.receiving
    BY <1>1 DEF Channel
  <2> QED
    BY <1>1, <1>5, <2>1, <2>2 DEF Alike
<1>7. MaybeNominate(g, c, m) \in {g, i, h, RequestSort(j)}
  BY DEF MaybeNominate, OnNominated
<1> HIDE DEF h
<1>8. Steady(h) /\ connections(h) = connections(g) /\ h \in Channel
  BY <1>6, AlikeSteady DEF Alike
<1>9. Steady(i) /\ connections(i) = connections(g)
  <2>1. /\ i \in Channel /\ i.conn = h.conn /\ i.best = h.best /\ i.pending = c
        /\ i.queue = h.queue /\ i.sort_dirty = h.sort_dirty
        /\ i.writable = h.writable /\ i.receiving = h.receiving
    BY <1>1, <1>8 DEF Channel
  <2> HIDE DEF i
  <2>2. connections(i) = connections(h) /\ Posted(i) = Posted(h) /\ Receives(i) = Receives(h)
    BY <2>1 DEF connections, Posted, Receives
  <2>3. \A d : Writable(i, d) = Writable(h, d)
    BY <2>1 DEF Writable
  <2>4. Linked(i) /\ QueueOK(i)
    BY <1>8, <2>1, <2>2 DEF Steady, Sound, Valid, Linked, QueueOK
  <2>5. DeleteSeen(i) /\ Covered(i) /\ SortPosted(i)
    BY <1>8, <2>1, <2>2 DEF Steady, Sound, DeleteSeen, Covered, Synced, SortPosted
  <2>6. BestSorted(i) /\ WritableInSync(i)
    BY <1>8, <2>1, <2>3 DEF Steady, Synced, BestSorted, WritableInSync
  <2>7. ReceivingInSync(i)
    BY <1>8, <2>1, <2>2 DEF Steady, Synced, ReceivingInSync
  <2> QED
    BY <1>8, <2>1, <2>2, <2>4, <2>5, <2>6, <2>7 DEF Steady, Sound, Valid, Synced
<1>10. Steady(RequestSort(j)) /\ connections(RequestSort(j)) = connections(g)
  <2>1. /\ j \in Channel /\ j.conn = h.conn /\ j.best = c /\ j.pending = None
        /\ j.queue = h.queue /\ j.sort_dirty = h.sort_dirty
    BY <1>1, <1>8 DEF Channel
  <2> HIDE DEF j
  <2>2. connections(j) = connections(h) /\ Posted(j) = Posted(h)
    BY <2>1 DEF connections, Posted
  <2>3. Linked(j) /\ QueueOK(j)
    BY <1>8, <2>1, <2>2 DEF Steady, Sound, Valid, Linked, QueueOK
  <2>4. Covered(j) /\ SortPosted(j)
    BY <1>8, <2>1, <2>2 DEF Steady, Covered, Synced, SortPosted
  <2>5. Valid(j)
    BY <2>1, <2>3 DEF Valid
  <2> QED
    BY <1>8, <2>2, <2>4, <2>5, RequestSortKeeps DEF Steady, Sound
<1> QED
  BY <1>7, <1>8, <1>9, <1>10

\* The controlled side follows data to a connection that is writable: then its best
\* one was writable as well.
LEMMA FollowSteady ==
  ASSUME NEW g, Steady(g), NEW c \in connections(g), Writable(g, c)
  PROVE  LET h == [g EXCEPT !.best = c] IN Steady(h) /\ connections(h) = connections(g)
<1> DEFINE h == [g EXCEPT !.best = c]
<1>1. g \in Channel /\ c \in Paths
  BY DEF Steady, Sound, Valid, connections
<1>2. /\ h \in Channel /\ h.conn = g.conn /\ h.best = c /\ h.pending = g.pending
      /\ h.queue = g.queue /\ h.sort_dirty = g.sort_dirty
      /\ h.writable = g.writable /\ h.receiving = g.receiving
  BY <1>1 DEF Channel
<1> HIDE DEF h
<1>3. connections(h) = connections(g) /\ Posted(h) = Posted(g) /\ Receives(h) = Receives(g)
  BY <1>2 DEF connections, Posted, Receives
<1>4. \A d : Writable(h, d) = Writable(g, d)
  BY <1>2 DEF Writable
<1>5. Linked(h) /\ QueueOK(h)
  BY <1>2, <1>3 DEF Steady, Sound, Valid, Linked, QueueOK
<1>6. DeleteSeen(h) /\ Covered(h) /\ SortPosted(h)
  BY <1>2, <1>3 DEF Steady, Sound, DeleteSeen, Covered, Synced, SortPosted
<1>7. Writable(h, h.best)
  BY <1>2, <1>4
<1>8. ~g.sort_dirty => g.writable = TRUE
  BY <1>1 DEF Steady, Synced, BestSorted, WritableInSync
<1>9. BestSorted(h) /\ WritableInSync(h)
  <2>1. Writable(h, h.best) = TRUE
    BY <1>7 DEF Writable
  <2> QED
    BY <1>2, <1>8, <2>1 DEF BestSorted, WritableInSync
<1>10. ReceivingInSync(h)
  BY <1>2, <1>3 DEF Steady, Synced, ReceivingInSync
<1> QED
  BY <1>2, <1>3, <1>5, <1>6, <1>9, <1>10 DEF h, Steady, Sound, Valid, Synced

LEMMA AddConnectionKeeps ==
  ASSUME NEW g, Sound(g), Synced(g), NEW c \in Paths \ connections(g), NEW q \in Priorities
  PROVE  LET h == AddConnection(g, c, q)
         IN /\ Sound(h) /\ Synced(h) /\ connections(h) = connections(g) \cup {c}
            /\ Covered(g) => Covered(h)
<1> DEFINE h == AddConnection(g, c, q)
           x == NewConnection(g.cand[c].local, q)
<1>1. g \in Channel /\ g.conn \in [Paths -> Connection] /\ Linked(g) /\ QueueOK(g) /\ DeleteSeen(g)
  BY DEF Sound, Valid, Channel
<1>2. x \in Connection /\ x.write = "INIT" /\ ~x.receiving
  <2>1. g.cand[c].local \in Priorities
    BY <1>1 DEF Channel, Candidate
  <2> QED
    BY <2>1, ConnectionFacts
<1>3. NoConnection.write = "NONE" /\ ~NoConnection.receiving
  BY ConnectionFacts
<1>4. h = [g EXCEPT !.conn[c] = x]
  BY DEF AddConnection
<1> HIDE DEF h, x
<1>5. h.conn = [g.conn EXCEPT ![c] = x]
  BY <1>1, <1>4 DEF Channel
<1>6. h.conn \in [Paths -> Connection]
  BY <1>1, <1>2, <1>5
<1>7. /\ h \in Channel /\ h.best = g.best /\ h.pending = g.pending
      /\ h.queue = g.queue /\ h.sort_dirty = g.sort_dirty
      /\ h.writable = g.writable /\ h.receiving = g.receiving
  BY <1>1, <1>4, <1>6 DEF Channel
<1>8. /\ h.conn[c] = x /\ g.conn[c] = NoConnection
      /\ \A d \in Paths \ {c} : h.conn[d] = g.conn[d]
  BY <1>1, <1>5 DEF Linked
<1>9. connections(h) = connections(g) \cup {c} /\ Posted(h) = Posted(g)
  BY <1>2, <1>7, <1>8 DEF connections, Posted
<1>10. Linked(h) /\ QueueOK(h)
  BY <1>1, <1>7, <1>8, <1>9 DEF Linked, QueueOK
<1>11. \A d \in Paths : h.conn[d].receiving <=> g.conn[d].receiving
  BY <1>2, <1>3, <1>8
<1>12. DeleteSeen(h)
  <2> SUFFICES ASSUME NEW k \in DOMAIN g.queue, g.queue[k] # MSG_SORT,
                      h.conn[g.queue[k]].receiving
               PROVE  SortAfter(g.queue, k)
    BY <1>7 DEF DeleteSeen
  <2>1. g.queue[k] \in Paths
    BY <1>1 DEF Channel
  <2>2. g.conn[g.queue[k]].receiving
    BY <1>11, <2>1
  <2> QED
    BY <1>1, <2>2 DEF DeleteSeen
<1>13. \A d \in Paths \cup {None} : Writable(h, d) = Writable(g, d)
  BY <1>2, <1>3, <1>8 DEF Writable
<1>14. Receives(h) = Receives(g)
  BY <1>11 DEF Receives
<1>15. SortPosted(h) /\ ReceivingInSync(h)
  BY <1>7, <1>9, <1>14 DEF Synced, SortPosted, ReceivingInSync
<1>16. h.best \in Paths \cup {None}
  BY <1>7 DEF Channel
<1>17. BestSorted(h) /\ WritableInSync(h)
  BY <1>7, <1>13, <1>16 DEF Synced, BestSorted, WritableInSync
<1>18. Covered(g) => Covered(h)
  BY <1>7 DEF Covered
<1> QED
  BY <1>7, <1>9, <1>10, <1>12, <1>15, <1>17, <1>18 DEF h, Sound, Valid, Synced

-----------------------------------------------------------------------------
(* The steps *)

AgentsInv == agent \in [Agents -> Channel] /\ \A a \in Agents : AgentInv(agent[a])

LEMMA OneAgentChanges ==
  ASSUME Inv, NEW a \in Agents, NEW h, AgentInv(h), agent' = [agent EXCEPT ![a] = h]
  PROVE  AgentsInv'
<1>1. h \in Channel
  BY DEF AgentInv, Sound, Valid
<1>2. agent' \in [Agents -> Channel]
  BY <1>1 DEF Inv, TypeOK
<1>3. \A b \in Agents : agent'[b] = IF b = a THEN h ELSE agent[b]
  BY DEF Inv, TypeOK
<1> QED
  BY <1>2, <1>3 DEF AgentsInv, Inv

LEMMA AgentFacts ==
  ASSUME Inv, NEW a \in Agents
  PROVE  /\ agent[a] \in Channel /\ Sound(agent[a]) /\ Synced(agent[a])
         /\ ~agent[a].busy => Steady(agent[a])
  BY DEF Inv, TypeOK, AgentInv, Steady

LEMMA AddRemoteCandidateInv ==
  ASSUME Inv, NEW a \in Agents, NEW c \in Paths, AddRemoteCandidate(a, c)
  PROVE  Inv'
<1> DEFINE o == agent[a]
           g == [o EXCEPT !.signalled = @ \ {c}, !.remembered = @ \cup {c}]
           q == agent[Peer(a)].cand[c].signalled
           h == [g EXCEPT !.conn[c].remote = q]
           i == IF c \in connections(g) THEN h ELSE AddConnection(g, c, q)
<1>1. o \in Channel /\ Sound(o) /\ Synced(o)
  BY AgentFacts
<1>2. PICK j \in SortConnections(i) : agent' = [agent EXCEPT ![a] = Handled(j)]
  BY DEF AddRemoteCandidate
<1>3. UNCHANGED <<net, lost, data>>
  BY DEF AddRemoteCandidate
<1>4. q \in Priorities
  BY AgentFacts DEF Peer, Agents, Channel, Candidate
<1> HIDE DEF o, q
<1>5. Alike(o, g)
  BY <1>1 DEF Alike, Channel
<1> HIDE DEF g
<1>6. Sound(g) /\ Synced(g) /\ g \in Channel
  BY <1>1, <1>5, AlikeKeeps DEF Sound, Alike
<1>7. ASSUME c \in connections(g) PROVE Sound(h)
  <2>1. g.conn[c] \in Connection /\ g.conn[c].write # "NONE"
    BY <1>6, <1>7 DEF Channel, connections
  <2>2. [g.conn[c] EXCEPT !.remote = q] \in Connection
    BY <1>4, <2>1 DEF Connection
  <2>3. h.conn = [g.conn EXCEPT ![c].remote = q]
    BY <1>6 DEF Channel
  <2>4. h.conn \in [Paths -> Connection]
    BY <1>6, <2>2, <2>3 DEF Channel
  <2>5. /\ h \in Channel /\ h.best = g.best /\ h.pending = g.pending /\ h.queue = g.queue
        /\ h.sort_dirty = g.sort_dirty /\ h.writable = g.writable /\ h.receiving = g.receiving
    BY <1>6, <2>4 DEF Channel
  <2>6. \A d \in Paths : /\ h.conn[d].write = g.conn[d].write
                         /\ h.conn[d].receiving = g.conn[d].receiving
                         /\ d # c => h.conn[d] = g.conn[d]
    BY <1>6, <2>1, <2>3 DEF Channel, Connection
  <2> HIDE DEF h
  <2>7. Alike(g, h)
    BY <2>1, <2>5, <2>6 DEF Alike
  <2> QED
    BY <1>6, <2>7, AlikeKeeps DEF Sound
<1>8. Sound(i)
  BY <1>4, <1>6, <1>7, AddConnectionKeeps
<1> HIDE DEF i
<1>9. AgentInv(Handled(j))
  BY <1>8, SortKeeps, HandledInv
<1>10. AgentsInv'
  BY <1>2, <1>9, OneAgentChanges
<1> QED
  BY <1>3, <1>10 DEF Inv, TypeOK, AgentsInv

LEMMA OnSortInv ==
  ASSUME Inv, NEW a \in Agents, OnSort(a)
  PROVE  Inv'
<1> DEFINE g == agent[a]
           h == [g EXCEPT !.queue = Tail(@)]
<1>1. g \in Channel /\ Linked(g) /\ QueueOK(g) /\ DeleteSeen(g)
  BY AgentFacts DEF Sound, Valid
<1>2. PICK j \in SortConnections(h) : agent' = [agent EXCEPT ![a] = Handled(j)]
  BY DEF OnSort
<1>3. UNCHANGED <<net, lost, data>> /\ g.queue # << >> /\ Head(g.queue) = MSG_SORT
  BY DEF OnSort
<1> HIDE DEF g
<1>4. g.queue \in Seq(Paths \cup {MSG_SORT})
  BY <1>1 DEF Channel
<1>5. Tail(g.queue) \in Seq(Paths \cup {MSG_SORT})
  BY <1>3, <1>4, TailFacts
<1>6. /\ h \in Channel /\ h.queue = Tail(g.queue)
      /\ h.conn = g.conn /\ h.best = g.best /\ h.pending = g.pending
  BY <1>1, <1>5 DEF Channel
<1> HIDE DEF h
<1>7. connections(h) = connections(g)
  BY <1>6 DEF connections
<1>8. \A k \in DOMAIN h.queue : k + 1 \in DOMAIN g.queue /\ h.queue[k] = g.queue[k + 1] /\ k \in Nat
  BY <1>3, <1>4, <1>6, TailFacts
<1>9. Linked(h)
  BY <1>1, <1>6, <1>7 DEF Linked
<1>10. QueueOK(h)
  <2>1. Posted(h) \subseteq Posted(g)
    BY <1>8 DEF Posted
  <2>2. \A k, l \in DOMAIN h.queue : h.queue[k] = h.queue[l] /\ h.queue[k] # MSG_SORT => k = l
    <3> SUFFICES ASSUME NEW k \in DOMAIN h.queue, NEW l \in DOMAIN h.queue,
                        h.queue[k] = h.queue[l], h.queue[k] # MSG_SORT
                 PROVE  k = l
      OBVIOUS
    <3>1. k + 1 = l + 1
      BY <1>1, <1>8 DEF QueueOK
    <3> QED
      BY <1>8, <3>1
  <2> QED
    BY <1>1, <1>7, <2>1, <2>2 DEF QueueOK
<1>11. DeleteSeen(h)
  <2> SUFFICES ASSUME NEW k \in DOMAIN h.queue, h.queue[k] # MSG_SORT,
                      h.conn[h.queue[k]].receiving
               PROVE  SortAfter(h.queue, k)
    BY DEF DeleteSeen
  <2>1. SortAfter(g.queue, k + 1)
    BY <1>1, <1>6, <1>8 DEF DeleteSeen
  <2> QED
    BY <1>3, <1>4, <1>6, <2>1, TailKeepsOrder
<1>12. Sound(h)
  BY <1>6, <1>9, <1>10, <1>11 DEF Sound, Valid
<1>13. AgentInv(Handled(j))
  BY <1>12, SortKeeps, HandledInv
<1>14. AgentsInv'
  BY <1>2, <1>13, OneAgentChanges
<1> QED
  BY <1>3, <1>14 DEF Inv, TypeOK, AgentsInv

LEMMA CheckOnlyInv ==
  ASSUME Inv, NEW a \in Agents, CheckOnly(a)
  PROVE  Inv'
<1>1. PICK g \in UpdateConnectionStates(agent[a]) : agent' = [agent EXCEPT ![a] = Handled(g)]
  BY DEF CheckOnly
<1>2. UNCHANGED <<net, lost, data>>
  BY DEF CheckOnly
<1>3. Sound(g) /\ Synced(g)
  BY AgentFacts, UpdateKeeps
<1>4. AgentsInv'
  BY <1>1, <1>3, HandledInv, OneAgentChanges
<1> QED
  BY <1>2, <1>4 DEF Inv, TypeOK, AgentsInv

\* Requests and pings_since_last_response_ may change.
LEMMA BookkeepingAlike ==
  ASSUME NEW g \in Channel, NEW c \in connections(g), NEW R \in SUBSET PingIds,
         NEW n \in 0 .. MaxFailures, NEW l \in Nat
  PROVE  Alike(g, [g EXCEPT !.conn[c].requests = R, !.conn[c].pings = n, !.late = l])
<1> DEFINE h == [g EXCEPT !.conn[c].requests = R, !.conn[c].pings = n, !.late = l]
           x == [g.conn[c] EXCEPT !.requests = R, !.pings = n]
<1>1. c \in Paths /\ g.conn[c] \in Connection /\ g.conn[c].write # "NONE"
  BY DEF connections, Channel
<1>2. x \in Connection /\ x.write = g.conn[c].write /\ x.receiving = g.conn[c].receiving
  BY <1>1 DEF Connection
<1>3. h.conn = [g.conn EXCEPT ![c] = x]
  BY <1>1 DEF Channel
<1> HIDE DEF x
<1>4. h.conn \in [Paths -> Connection]
  BY <1>2, <1>3 DEF Channel
<1>5. h \in Channel
  BY <1>4 DEF Channel
<1>6. /\ h.best = g.best /\ h.pending = g.pending /\ h.queue = g.queue
      /\ h.sort_dirty = g.sort_dirty /\ h.writable = g.writable /\ h.receiving = g.receiving
  BY DEF Channel
<1>7. h.conn[c] = x /\ \A d \in Paths \ {c} : h.conn[d] = g.conn[d]
  BY <1>1, <1>3 DEF Channel
<1> HIDE DEF h
<1>8. Alike(g, h)
  BY <1>1, <1>2, <1>5, <1>6, <1>7 DEF Alike
<1> QED
  BY <1>8 DEF h

LEMMA RequesterIsThere ==
  ASSUME NEW g, Valid(g), NEW c \in Paths, NEW id, id \in g.conn[c].requests
  PROVE  c \in connections(g)
<1>1. NoConnection.requests = {}
  BY DEF NoConnection, NewConnection
<1> QED
  BY <1>1 DEF Valid, Linked

LEMMA PingAlike ==
  ASSUME NEW g \in Channel, NEW c \in connections(g), NEW id \in PingIds
  PROVE  Alike(g, Ping(g, c, id))
<1> DEFINE R == g.conn[c].requests \cup {id}
           n == Min({g.conn[c].pings + 1, MaxFailures})
<1>1. c \in Paths /\ g.conn[c] \in Connection /\ g.late \in Nat
  BY DEF connections, Channel
<1>2. g.conn[c].pings \in 0 .. MaxFailures /\ g.conn[c].requests \in SUBSET PingIds
  BY <1>1 DEF Connection
<1>3. R \in SUBSET PingIds
  BY <1>2
<1>4. n \in 0 .. MaxFailures
  <2>1. \A x, y \in Nat : Min({x, y}) \in {x, y} /\ Min({x, y}) <= x /\ Min({x, y}) <= y
    <3> SUFFICES ASSUME NEW x \in Nat, NEW y \in Nat
                 PROVE  Min({x, y}) \in {x, y} /\ Min({x, y}) <= x /\ Min({x, y}) <= y
      OBVIOUS
    <3>1. \E z \in {x, y} : \A u \in {x, y} : z <= u
      OBVIOUS
    <3> QED
      BY <3>1 DEF Min
  <2> QED
    BY <1>2, <2>1, IceAssumption
<1> HIDE DEF n
<1> DEFINE h == [g EXCEPT !.conn[c].requests = R, !.conn[c].pings = n, !.late = g.late]
<1>5. Ping(g, c, id) = [g EXCEPT !.conn[c].requests = @ \cup {id}, !.conn[c].pings = n]
  BY <1>1 DEF Ping, n, Channel, Connection
<1>6. Ping(g, c, id) = h
  BY <1>1, <1>5 DEF Channel, Connection
<1> HIDE DEF R
<1>7. Alike(g, h)
  BY <1>1, <1>3, <1>4, BookkeepingAlike
<1> HIDE DEF h
<1> QED
  BY <1>6, <1>7

LEMMA CheckAndPingInv ==
  ASSUME Inv, NEW a \in Agents, NEW c \in Paths, CheckAndPing(a, c)
  PROVE  Inv'
<1> DEFINE Request(g, id) == [to |-> Peer(a), path |-> c, kind |-> "request", id |-> id,
                              role |-> g.role, use_candidate |-> UseCandidate(g, c)]
<1>1. PICK g \in UpdateConnectionStates(agent[a]), id \in FreeIds(a, c) :
        /\ c \in NextPingable(g)
        /\ agent' = [agent EXCEPT ![a] = Handled(Ping(g, c, id))]
        /\ net' = net \cup {Request(g, id)}
  BY DEF CheckAndPing
<1>2. UNCHANGED <<lost, data>>
  BY DEF CheckAndPing
<1>3. Sound(g) /\ Synced(g) /\ g \in Channel
  BY AgentFacts, UpdateKeeps DEF Sound, Valid
<1>4. c \in connections(g) /\ id \in PingIds
  BY <1>1 DEF NextPingable, FreeIds
<1>5. Alike(g, Ping(g, c, id))
  BY <1>3, <1>4, PingAlike
<1>6. Sound(Ping(g, c, id)) /\ Synced(Ping(g, c, id))
  BY <1>3, <1>5, AlikeKeeps DEF Sound
<1>7. AgentsInv'
  BY <1>1, <1>6, HandledInv, OneAgentChanges
<1>8. Request(g, id) \in Message
  <2>1. UseCandidate(g, c) \in BOOLEAN
    BY DEF UseCandidate
  <2>2. g.role \in Roles /\ Peer(a) \in Agents
    BY <1>3 DEF Channel, Peer, Agents
  <2> QED
    BY <1>4, <2>1, <2>2 DEF Message
<1>9. net' \subseteq Message
  BY <1>1, <1>8 DEF Inv, TypeOK
<1> QED
  BY <1>2, <1>7, <1>9 DEF Inv, TypeOK, AgentsInv

LEMMA OnTimeoutInv ==
  ASSUME Inv, NEW a \in Agents, NEW c \in Paths, NEW id \in PingIds, OnTimeout(a, c, id)
  PROVE  Inv'
<1> DEFINE g == agent[a]
           waiting == \E m \in UnderWay(a) : m.path = c /\ m.id = id
           l == IF waiting THEN g.late - 1 ELSE g.late
           R == g.conn[c].requests \ {id}
           h == [g EXCEPT !.conn[c].requests = @ \ {id}, !.late = IF waiting THEN @ - 1 ELSE @]
<1>1. /\ agent' = [agent EXCEPT ![a] = Handled(h)]
      /\ UNCHANGED <<net, lost, data>>
      /\ id \in g.conn[c].requests /\ (waiting => g.late > 0)
  BY DEF OnTimeout
<1>2. g \in Channel /\ Sound(g) /\ Synced(g) /\ Valid(g)
  BY AgentFacts DEF Sound
<1> HIDE DEF g, waiting
<1>3. g.conn[c] \in Connection /\ g.late \in Nat /\ c \in connections(g)
  BY <1>1, <1>2, RequesterIsThere DEF Channel
<1>4. R \in SUBSET PingIds /\ g.conn[c].pings \in 0 .. MaxFailures
  BY <1>3 DEF Connection
<1>5. l \in Nat
  BY <1>1, <1>3
<1> DEFINE i == [g EXCEPT !.conn[c].requests = R, !.conn[c].pings = g.conn[c].pings, !.late = l]
<1>6. h = i
  BY <1>2, <1>3 DEF Channel, Connection
<1> HIDE DEF h, R, l
<1>7. Alike(g, i)
  BY <1>2, <1>3, <1>4, <1>5, BookkeepingAlike
<1> HIDE DEF i
<1>8. Sound(h) /\ Synced(h)
  BY <1>2, <1>6, <1>7, AlikeKeeps DEF Sound
<1>9. AgentsInv'
  BY <1>1, <1>8, HandledInv, OneAgentChanges
<1> QED
  BY <1>1, <1>9 DEF Inv, TypeOK, AgentsInv

LEMMA SendPacketInv ==
  ASSUME Inv, NEW a \in Agents, SendPacket(a)
  PROVE  Inv'
<1> DEFINE g == agent[a]
           m == [to |-> Peer(a), path |-> g.best, kind |-> "data",
                 id |-> CHOOSE id \in PingIds : TRUE, role |-> g.role, use_candidate |-> FALSE]
<1>1. /\ data > 0 /\ g.best # None /\ net' = net \cup {m} /\ data' = data - 1
      /\ UNCHANGED <<agent, lost>>
  BY DEF SendPacket
<1>2. g \in Channel
  BY AgentFacts
<1>3. (CHOOSE id \in PingIds : TRUE) \in PingIds
  BY IceAssumption
<1>4. m \in Message
  BY <1>1, <1>2, <1>3 DEF Message, Channel, Peer, Agents
<1> HIDE DEF m
<1>5. net' \subseteq Message /\ data' \in Nat
  BY <1>1, <1>4 DEF Inv, TypeOK
<1> QED
  BY <1>1, <1>5 DEF Inv, TypeOK

LEMMA LoseInv ==
  ASSUME Inv, NEW m \in net, Lose(m)
  PROVE  Inv'
  BY DEF Lose, Inv, TypeOK

LEMMA OnReadPacketInv ==
  ASSUME Inv, NEW m \in net, OnReadPacket(m)
  PROVE  Inv'
<1> DEFINE a == m.to
           c == m.path
           g == set_receiving(agent[a], c, TRUE)
           follow == g.role = "CONTROLLED" /\ ~(g.best # None /\ g.conn[g.best].nominated)
                       /\ Writable(g, c)
           h == IF follow THEN [g EXCEPT !.best = c] ELSE g
           i == IF c \in connections(agent[a]) THEN Revive(h, c) ELSE agent[a]
<1>1. /\ ~agent[a].busy /\ net' = net \ {m} /\ UNCHANGED <<lost, data>>
      /\ agent' = [agent EXCEPT ![a] = IF c \in connections(@) THEN Revive(h, c) ELSE @]
  BY DEF OnReadPacket
<1>2. a \in Agents /\ c \in Paths
  BY DEF Inv, TypeOK, Message
<1>3. Steady(agent[a])
  BY <1>1, <1>2, AgentFacts
<1>4. agent' = [agent EXCEPT ![a] = i]
  BY <1>1, <1>2 DEF Inv, TypeOK
<1>5. Steady(i)
  <2>1. CASE c \notin connections(agent[a])
    BY <1>3, <2>1
  <2>2. CASE c \in connections(agent[a])
    <3>1. Steady(g) /\ c \in connections(g)
      BY <1>3, <2>2, ReceivedSteady
    <3> HIDE DEF g
    <3>2. Steady(h) /\ c \in connections(h)
      BY <3>1, FollowSteady
    <3> HIDE DEF h
    <3> QED
      BY <2>2, <3>2, ReviveSteady
  <2> QED
    BY <2>1, <2>2
<1> HIDE DEF i
<1>6. AgentsInv'
  BY <1>2, <1>4, <1>5, SteadyInv, OneAgentChanges
<1> QED
  BY <1>1, <1>6 DEF Inv, TypeOK, AgentsInv

LEMMA OnAnswerInv ==
  ASSUME Inv, NEW m \in net, OnAnswer(m)
  PROVE  Inv'
<1> DEFINE a == m.to
           c == m.path
           g == agent[a]
           h == [g EXCEPT !.conn[c].requests = @ \ {m.id}]
           i == IF m.id \notin g.conn[c].requests THEN g
                ELSE IF m.kind = "response" THEN MaybeAddPrflxCandidate(ReceivedPingResponse(h, c), c)
                ELSE OnRoleConflict(h)
<1>1. /\ ~g.busy /\ net' = net \ {m} /\ UNCHANGED <<lost, data>>
      /\ agent' = [agent EXCEPT ![a] = i]
  BY DEF OnAnswer
<1>2. a \in Agents /\ c \in Paths
  BY DEF Inv, TypeOK, Message
<1>3. Steady(g)
  BY <1>1, <1>2, AgentFacts
<1> HIDE DEF a, c, g
<1>4. Steady(i)
  <2>1. CASE m.id \notin g.conn[c].requests
    BY <1>3, <2>1
  <2>2. CASE m.id \in g.conn[c].requests
    <3> DEFINE R == g.conn[c].requests \ {m.id}
               j == [g EXCEPT !.conn[c].requests = R, !.conn[c].pings = g.conn[c].pings,
                              !.late = g.late]
    <3>1. g \in Channel /\ c \in connections(g)
      BY <1>2, <1>3, <2>2, RequesterIsThere DEF Steady, Sound, Valid
    <3>2. g.conn[c] \in Connection /\ g.late \in Nat
      BY <1>2, <3>1 DEF Channel
    <3>3. R \in SUBSET PingIds /\ g.conn[c].pings \in 0 .. MaxFailures
      BY <3>2 DEF Connection
    <3>4. h = j
      BY <1>2, <3>1, <3>2 DEF Channel, Connection
    <3> HIDE DEF h, R
    <3>5. Alike(g, j)
      BY <3>1, <3>2, <3>3, BookkeepingAlike
    <3> HIDE DEF j
    <3>6. Steady(h) /\ c \in connections(h) /\ h \in Channel
      BY <1>3, <3>1, <3>4, <3>5, AlikeSteady DEF Alike
    <3>7. Steady(MaybeAddPrflxCandidate(ReceivedPingResponse(h, c), c))
      BY <3>6, ResponseSteady, PrflxCandidateSteady
    <3>8. Steady(OnRoleConflict(h))
      BY <3>6, RoleConflictAlike, AlikeSteady
    <3> QED
      BY <2>2, <3>7, <3>8
  <2> QED
    BY <2>1, <2>2
<1> HIDE DEF i
<1>5. AgentsInv'
  BY <1>1, <1>2, <1>4, SteadyInv, OneAgentChanges
<1> QED
  BY <1>1, <1>5 DEF Inv, TypeOK, AgentsInv

LEMMA OnRequestInv ==
  ASSUME Inv, NEW m \in net, OnRequest(m)
  PROVE  Inv'
<1> DEFINE a == m.to
           c == m.path
           g == IF Yields(agent[a], a, m) THEN OnRoleConflict(agent[a]) ELSE agent[a]
           known == MaybeNominate(Revive(ReceivedPing(g, c), c), c, m)
           unknown == MaybeNominate(ReceivedPing(AddConnection(g, c, RemoteOf(a, c)), c), c, m)
<1>1. /\ ~agent[a].busy /\ UNCHANGED <<lost, data>>
      /\ \/ net' = (net \ {m}) \cup {Answer(m, "error")} /\ UNCHANGED agent
         \/ /\ c \in connections(g) /\ net' = (net \ {m}) \cup {Answer(m, "response")}
            /\ agent' = [agent EXCEPT ![a] = known]
         \/ /\ c \notin connections(g) /\ net' = net \ {m}
            /\ \E h \in SortConnections(unknown) : agent' = [agent EXCEPT ![a] = h]
  BY DEF OnRequest
<1>2. a \in Agents /\ c \in Paths /\ m \in Message
  BY DEF Inv, TypeOK, Message
<1>3. Steady(agent[a]) /\ agent[a] \in Channel
  BY <1>1, <1>2, AgentFacts
<1>4. Steady(g)
  BY <1>3, RoleConflictAlike, AlikeSteady
<1>5. Answer(m, "error") \in Message /\ Answer(m, "response") \in Message
  BY <1>2 DEF Answer, Message, Peer, Agents
<1>6. net' \subseteq Message
  BY <1>1, <1>5 DEF Inv, TypeOK
<1> HIDE DEF a, c, g
<1>7. RemoteOf(a, c) \in Priorities
  BY <1>2, AgentFacts DEF RemoteOf, Peer, Agents, Channel, Candidate
<1>8. AgentsInv'
  <2>1. CASE UNCHANGED agent
    BY <2>1 DEF Inv, TypeOK, AgentsInv
  <2>2. CASE c \in connections(g) /\ agent' = [agent EXCEPT ![a] = known]
    <3> DEFINE i == ReceivedPing(g, c)
               j == Revive(i, c)
    <3>1. Steady(i) /\ c \in connections(i)
      BY <1>4, <2>2, ReceivedSteady DEF ReceivedPing
    <3> HIDE DEF i
    <3>2. Steady(j) /\ c \in connections(j)
      BY <3>1, ReviveSteady
    <3>3. known = MaybeNominate(j, c, m)
      BY DEF i
    <3> HIDE DEF j, known
    <3>4. Steady(known)
      BY <3>2, <3>3, NominatedSteady
    <3> QED
      BY <1>2, <2>2, <3>4, SteadyInv, OneAgentChanges
  <2>3. CASE c \notin connections(g) /\ \E h \in SortConnections(unknown) : agent' = [agent EXCEPT ![a] = h]
    <3> DEFINE i == AddConnection(g, c, RemoteOf(a, c))
               j == ReceivedPing(i, c)
    <3>1. Steady(i) /\ c \in connections(i)
      BY <1>2, <1>4, <1>7, <2>3, AddConnectionKeeps DEF Steady
    <3> HIDE DEF i
    <3>2. Steady(j) /\ c \in connections(j)
      BY <3>1, ReceivedSteady DEF ReceivedPing
    <3>3. unknown = MaybeNominate(j, c, m)
      BY DEF i
    <3> HIDE DEF j, unknown
    <3>4. Sound(unknown)
      BY <3>2, <3>3, NominatedSteady DEF Steady
    <3>5. PICK h \in SortConnections(unknown) : agent' = [agent EXCEPT ![a] = h]
      BY <2>3
    <3>6. Steady(h)
      BY <3>4, SortKeeps DEF Steady
    <3> QED
      BY <1>2, <3>5, <3>6, SteadyInv, OneAgentChanges
  <2> QED
    BY <1>1, <2>1, <2>2, <2>3
<1> QED
  BY <1>1, <1>6, <1>8 DEF Inv, TypeOK, AgentsInv

\* The deletion of a connection: if it was receiving, a sort is still to come.
LEMMA OnConnectionDestroyedInv ==
  ASSUME Inv, NEW a \in Agents, NEW c \in Paths, OnConnectionDestroyed(a, c)
  PROVE  Inv'
<1> DEFINE g == agent[a]
           h == [g EXCEPT !.conn[c] = NoConnection, !.queue = Tail(@),
                          !.pending = IF @ = c THEN None ELSE @]
           j == [h EXCEPT !.best = None]
           i == IF h.best = c THEN RequestSort(j) ELSE h
<1>1. /\ g.queue # << >> /\ Head(g.queue) = c /\ UNCHANGED <<net, lost, data>>
      /\ agent' = [agent EXCEPT ![a] = Handled(i)]
  BY DEF OnConnectionDestroyed
<1>2. /\ g \in Channel /\ Linked(g) /\ QueueOK(g) /\ DeleteSeen(g)
      /\ SortPosted(g) /\ BestSorted(g) /\ WritableInSync(g) /\ ReceivingInSync(g)
  BY AgentFacts DEF Sound, Valid, Synced
<1> HIDE DEF g
<1>3. c # MSG_SORT /\ c # None
  BY IceAssumption DEF MSG_SORT, None
<1>4. g.queue \in Seq(Paths \cup {MSG_SORT}) /\ g.conn \in [Paths -> Connection]
  BY <1>2 DEF Channel
<1>5. Tail(g.queue) \in Seq(Paths \cup {MSG_SORT}) /\ 1 \in DOMAIN g.queue /\ g.queue[1] = c
  BY <1>1, <1>4, TailFacts
<1>6. NoConnection \in Connection /\ NoConnection.write = "NONE" /\ ~NoConnection.receiving
  BY ConnectionFacts
<1>7. [g.conn EXCEPT ![c] = NoConnection] \in [Paths -> Connection]
  BY <1>4, <1>6
<1>8. /\ h \in Channel /\ h.conn = [g.conn EXCEPT ![c] = NoConnection]
      /\ h.queue = Tail(g.queue) /\ h.best = g.best
      /\ h.pending = IF g.pending = c THEN None ELSE g.pending
      /\ h.sort_dirty = g.sort_dirty /\ h.writable = g.writable /\ h.receiving = g.receiving
  BY <1>2, <1>5, <1>7 DEF Channel
<1> HIDE DEF h
<1>9. h.conn[c] = NoConnection /\ \A d \in Paths \ {c} : h.conn[d] = g.conn[d]
  BY <1>4, <1>8
<1>10. connections(h) = connections(g) \ {c}
  BY <1>6, <1>9 DEF connections
<1>11. \A k \in DOMAIN h.queue : /\ k + 1 \in DOMAIN g.queue /\ h.queue[k] = g.queue[k + 1]
                                 /\ k \in Nat /\ k + 1 # 1
  BY <1>1, <1>4, <1>8, TailFacts
<1>12. \A k \in DOMAIN h.queue : h.queue[k] # c
  BY <1>2, <1>3, <1>5, <1>11 DEF QueueOK
<1>13. Posted(h) \subseteq Posted(g) \ {c}
  BY <1>11, <1>12 DEF Posted
<1>14. QueueOK(h)
  <2>1. \A k, l \in DOMAIN h.queue : h.queue[k] = h.queue[l] /\ h.queue[k] # MSG_SORT => k = l
    <3> SUFFICES ASSUME NEW k \in DOMAIN h.queue, NEW l \in DOMAIN h.queue,
                        h.queue[k] = h.queue[l], h.queue[k] # MSG_SORT
                 PROVE  k = l
      OBVIOUS
    <3>1. k + 1 = l + 1
      BY <1>2, <1>11 DEF QueueOK
    <3> QED
      BY <1>11, <3>1
  <2> QED
    BY <1>2, <1>10, <1>13, <2>1 DEF QueueOK
<1>15. DeleteSeen(h)
  <2> SUFFICES ASSUME NEW k \in DOMAIN h.queue, h.queue[k] # MSG_SORT,
                      h.conn[h.queue[k]].receiving
               PROVE  SortAfter(h.queue, k)
    BY DEF DeleteSeen
  <2>1. h.queue[k] \in Paths \ {c}
    BY <1>8, <1>12 DEF Channel
  <2>2. g.conn[g.queue[k + 1]].receiving
    BY <1>9, <1>11, <2>1
  <2>3. SortAfter(g.queue, k + 1)
    BY <1>2, <1>11, <2>2 DEF DeleteSeen
  <2> QED
    BY <1>1, <1>4, <1>8, <2>3, TailKeepsOrder
<1>16. MSG_SORT \in Posted(h) <=> MSG_SORT \in Posted(g)
  <2> SUFFICES ASSUME MSG_SORT \in Posted(g) PROVE MSG_SORT \in Posted(h)
    BY <1>13
  <2>1. PICK k \in DOMAIN g.queue : g.queue[k] = MSG_SORT
    BY DEF Posted
  <2>2. k # 1 /\ DOMAIN g.queue = 1 .. Len(g.queue) /\ Len(g.queue) \in Nat
          /\ DOMAIN h.queue = 1 .. Len(g.queue) - 1
    BY <1>1, <1>3, <1>4, <1>5, <1>8, <2>1, TailFacts
  <2>3. k - 1 \in DOMAIN h.queue /\ (k - 1) + 1 = k
    BY <2>1, <2>2
  <2>4. h.queue[k - 1] = MSG_SORT
    BY <1>11, <2>1, <2>3
  <2> QED
    BY <2>3, <2>4 DEF Posted
<1>17. SortPosted(h)
  BY <1>2, <1>8, <1>16 DEF SortPosted
<1>18. MSG_SORT \notin Posted(g) => ~g.conn[c].receiving
  <2> SUFFICES ASSUME g.conn[c].receiving PROVE MSG_SORT \in Posted(g)
    OBVIOUS
  <2>1. SortAfter(g.queue, 1)
    BY <1>2, <1>3, <1>5 DEF DeleteSeen
  <2> QED
    BY <2>1 DEF SortAfter, Posted
<1>19. ReceivingInSync(h)
  <2> SUFFICES ASSUME MSG_SORT \notin Posted(h) PROVE h.receiving = Receives(h)
    BY DEF ReceivingInSync
  <2>1. ~g.conn[c].receiving /\ g.receiving = Receives(g)
    BY <1>2, <1>16, <1>18 DEF ReceivingInSync
  <2>2. Receives(h) = Receives(g)
    BY <1>6, <1>9, <2>1 DEF Receives
  <2> QED
    BY <1>8, <2>1, <2>2
<1>20. Sound(i) /\ Synced(i)
  <2>1. CASE g.best # c
    <3>1. i = h
      BY <1>8, <2>1
    <3>2. Linked(h)
      BY <1>2, <1>8, <1>9, <1>10, <2>1 DEF Linked
    <3>3. g.best \in Paths \cup {None} /\ h.best \in (Paths \cup {None}) \ {c}
      BY <1>2, <1>8, <2>1 DEF Channel
    <3>4. \A d \in (Paths \cup {None}) \ {c} : Writable(h, d) = Writable(g, d)
      BY <1>9 DEF Writable
    <3>5. ~Writable(h, c)
      BY <1>6, <1>9 DEF Writable
    <3>6. BestSorted(h)
      <4> SUFFICES ASSUME ~h.sort_dirty, NEW d \in Paths, Writable(h, d) PROVE Writable(h, h.best)
        BY DEF BestSorted
      <4>1. Writable(g, d)
        BY <3>4, <3>5
      <4>2. Writable(g, g.best)
        BY <1>2, <1>8, <4>1 DEF BestSorted
      <4> QED
        BY <1>8, <3>3, <3>4, <4>2
    <3>7. WritableInSync(h)
      BY <1>2, <1>8, <3>3, <3>4 DEF WritableInSync
    <3> QED
      BY <1>8, <1>14, <1>15, <1>17, <1>19, <3>1, <3>2, <3>6, <3>7 DEF Sound, Valid, Synced
  <2>2. CASE g.best = c
    <3>1. i = RequestSort(j)
      BY <1>8, <2>2
    <3>2. /\ j \in Channel /\ j.conn = h.conn /\ j.queue = h.queue /\ j.best = None
          /\ j.pending = h.pending /\ j.sort_dirty = h.sort_dirty
      BY <1>8 DEF Channel
    <3> HIDE DEF j
    <3>3. connections(j) = connections(h) /\ Posted(j) = Posted(h)
      BY <3>2 DEF connections, Posted
    <3>4. Linked(j)
      BY <1>2, <1>8, <1>9, <1>10, <3>2, <3>3 DEF Linked
    <3>5. QueueOK(j)
      BY <1>14, <3>2, <3>3 DEF QueueOK
    <3>6. DeleteSeen(j) /\ SortPosted(j)
      BY <1>15, <1>17, <3>2, <3>3 DEF DeleteSeen, SortPosted
    <3>7. Valid(j)
      BY <3>2, <3>4, <3>5 DEF Valid
    <3> QED
      BY <3>1, <3>6, <3>7, RequestSortKeeps DEF Sound
  <2> QED
    BY <2>1, <2>2
<1> HIDE DEF i
<1>21. AgentsInv'
  BY <1>1, <1>20, HandledInv, OneAgentChanges
<1> QED
  BY <1>1, <1>21 DEF Inv, TypeOK, AgentsInv

LEMMA InitInv == Init => Inv
<1> SUFFICES ASSUME Init PROVE Inv
  OBVIOUS
<1>1. PICK s \in Scenarios :
        /\ agent = [a \in Agents |->
             [ice_role |-> s.role[a], ice_role_switch |-> FALSE, role |-> s.role[a],
              conn |-> [c \in Paths |-> NoConnection], cand |-> s.cand[a], mapped |-> s.mapped[a],
              signalled |-> s.signalled[a], remembered |-> {},
              best |-> None, pending |-> None, sort_dirty |-> FALSE, queue |-> << >>, busy |-> FALSE,
              writable |-> FALSE, receiving |-> FALSE,
              window |-> s.window[a], late |-> s.late[a]]]
        /\ net = {} /\ lost = s.lost /\ data = s.data
  BY DEF Init
<1>2. s \in Scenario
  BY IceAssumption
<1>3. /\ s.role \in [Agents -> Roles] /\ s.cand \in [Agents -> [Paths -> Candidate]]
      /\ s.mapped \in [Agents -> SUBSET Paths] /\ s.signalled \in [Agents -> SUBSET Paths]
      /\ s.window \in [Agents -> Nat] /\ s.late \in [Agents -> Nat] /\ s.lost \in Nat /\ s.data \in Nat
  BY <1>2 DEF Scenario
<1>4. NoConnection \in Connection /\ NoConnection.write = "NONE" /\ ~NoConnection.receiving
  BY ConnectionFacts
<1>5. ASSUME NEW a \in Agents PROVE agent[a] \in Channel /\ AgentInv(agent[a])
  <2> DEFINE g == agent[a]
  <2>1. /\ g.conn = [c \in Paths |-> NoConnection] /\ g.best = None /\ g.pending = None
        /\ ~g.sort_dirty /\ g.queue = << >> /\ g.writable = FALSE /\ g.receiving = FALSE
    BY <1>1
  <2>2. g \in Channel
    <3>1. [c \in Paths |-> NoConnection] \in [Paths -> Connection]
      BY <1>4
    <3>2. << >> \in Seq(Paths \cup {MSG_SORT})
      OBVIOUS
    <3>3. /\ s.role[a] \in Roles /\ s.cand[a] \in [Paths -> Candidate] /\ s.mapped[a] \in SUBSET Paths
          /\ s.signalled[a] \in SUBSET Paths /\ s.window[a] \in Nat /\ s.late[a] \in Nat
      BY <1>3
    <3> HIDE DEF NoConnection
    <3> QED
      BY <1>1, <3>1, <3>2, <3>3 DEF Channel
  <2> HIDE DEF g
  <2>3. connections(g) = {} /\ Posted(g) = {} /\ ~Receives(g)
    BY <1>4, <2>1 DEF connections, Posted, Receives
  <2>4. \A c : c \in Paths \cup {None} => Writable(g, c) = FALSE
    BY <1>4, <2>1 DEF Writable
  <2>5. Linked(g) /\ QueueOK(g)
    BY <2>1, <2>3 DEF Linked, QueueOK
  <2>6. DeleteSeen(g) /\ Covered(g) /\ SortPosted(g)
    BY <2>1 DEF DeleteSeen, Covered, SortPosted
  <2>7. BestSorted(g) /\ WritableInSync(g) /\ ReceivingInSync(g)
    BY <2>1, <2>3, <2>4 DEF BestSorted, WritableInSync, ReceivingInSync, Receives
  <2> QED
    BY <2>2, <2>5, <2>6, <2>7 DEF g, AgentInv, Sound, Valid, Synced
<1>6. agent \in [Agents -> Channel]
  BY <1>1, <1>5
<1> QED
  BY <1>1, <1>3, <1>5, <1>6 DEF Inv, TypeOK

LEMMA NextInv == Inv /\ [Next]_vars => Inv'
<1> SUFFICES ASSUME Inv, [Next]_vars PROVE Inv'
  OBVIOUS
<1>1. CASE UNCHANGED vars
  BY <1>1 DEF vars, Inv, TypeOK
<1>2. CASE \E a \in Agents : OnSort(a) \/ CheckOnly(a) \/ SendPacket(a)
  BY <1>2, OnSortInv, CheckOnlyInv, SendPacketInv
<1>3. CASE \E a \in Agents, c \in Paths :
             AddRemoteCandidate(a, c) \/ CheckAndPing(a, c) \/ OnConnectionDestroyed(a, c)
  BY <1>3, AddRemoteCandidateInv, CheckAndPingInv, OnConnectionDestroyedInv
<1>4. CASE \E a \in Agents, c \in Paths, id \in PingIds : OnTimeout(a, c, id)
  BY <1>4, OnTimeoutInv
<1>5. CASE \E m \in net : OnRequest(m) \/ OnAnswer(m) \/ OnReadPacket(m) \/ Lose(m)
  BY <1>5, OnRequestInv, OnAnswerInv, OnReadPacketInv, LoseInv
<1> QED
  BY <1>1, <1>2, <1>3, <1>4, <1>5 DEF Next

-----------------------------------------------------------------------------
(* Theorems *)

\* The invariant holds in every reachable state.
THEOREM Invariance == Spec => []Inv
  BY InitInv, NextInv, PTL DEF Spec

\* best_connection_ and pending_best_connection_ never point to a connection that was
\* deleted, no deletion is left in the queue for one, and nothing of it stays behind:
\* OnConnectionDestroyed resets all that refers to it.
THEOREM DeletedConnectionsForgotten == Spec => []NoDanglingBest
<1>1. Inv => NoDanglingBest
  BY DEF Inv, AgentInv, Sound, Valid, Linked, QueueOK, NoDanglingBest
<1> QED
  BY <1>1, Invariance, PTL

\* The channel's writable and receiving states follow its connections, although they
\* are updated only by a sort: whatever changes a connection posts a sort, and a
\* connection that receives something after it was found dead has one posted after
\* its deletion, because the thread reads packets only when it has no message left.
THEOREM ChannelStateFollows == Spec => []StateInSync
<1>1. Inv => StateInSync
  BY DEF Inv, AgentInv, Synced, WritableInSync, ReceivingInSync, Receives, StateInSync
<1> QED
  BY <1>1, Invariance, PTL
=============================================================================
