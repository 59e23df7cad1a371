--------------------------- MODULE SessionProofs ---------------------------
(***************************************************************************)
(* Proofs about Session, for any number of peer connections and any        *)
(* scenario.  RequestInv is inductive: SessionInv says what a session has  *)
(* in each of its states, Accounts where the requests are and WaitInv why  *)
(* those that wait do not wait in vain.  What SetCertificate and Kept      *)
(* return is defined by recursion; that they return anything at all is     *)
(* shown first, by induction over the length of the sequence.              *)
(***************************************************************************)
EXTENDS Session, IdentityStoreProofs, WellFoundedInduction

\* Every step of the sessions leaves the store they share alone or is a step of it.
LEMMA StoreStep == [SessionNext]_sessionVars => [Next]_storeVars
<1> SUFFICES ASSUME [SessionNext]_sessionVars PROVE [Next]_storeVars
  OBVIOUS
<1> USE DEF storeVars
<1>1. CASE UNCHANGED sessionVars
  BY <1>1 DEF sessionVars
<1>2. ASSUME NEW p \in Observers, CreatePeerConnection(p) PROVE [Next]_storeVars
  BY <1>2 DEF CreatePeerConnection, Next
<1>3. ASSUME NEW p \in Observers,
             \/ CreateOffer(p) \/ CreateAnswer(p) \/ SetLocalDescription(p)
             \/ SetRemoteDescription(p) \/ AddIceCandidate(p) \/ Close(p)
             \/ DestroyPeerConnection(p)
      PROVE  [Next]_storeVars
  BY <1>3 DEF CreateOffer, CreateAnswer, SetLocalDescription, SetRemoteDescription,
              AddIceCandidate, Close, DestroyPeerConnection
<1>4. CASE DestroyStore
  BY <1>4 DEF DestroyStore, Next
<1>5. CASE GenerateIdentity
  BY <1>5 DEF GenerateIdentity, Next
<1>6. CASE HandleMessage
  BY <1>6 DEF HandleMessage, HandleIdentity, HandleCertificate, HandleCreated, Next
<1> QED
  BY <1>1, <1>2, <1>3, <1>4, <1>5, <1>6 DEF SessionNext

\* The sessions use the store as it is meant to be used: for any number of peer
\* connections and whatever their applications do, what they do to the store is a
\* behaviour of the store's own specification.
THEOREM SessionImplementsStore == SessionSpec => Spec
<1>1. SessionInit => Init
  BY DEF SessionInit
<1> QED
  BY <1>1, StoreStep, PTL DEF SessionSpec, Spec

\* Also with sessions that are deleted while their identity is generated, the counter
\* of identities on their way covers every peer connection that waits for one.
THEOREM SessionPromised == SessionSpec => []Promised
BY SessionImplementsStore, StorePromised, PTL

\* No two peer connections are given the same private key, whatever the sessions do.
THEOREM SessionKeysDistinct == SessionSpec => []KeysDistinct
BY SessionImplementsStore, StoreKeysDistinct, PTL

-----------------------------------------------------------------------------
(* The sessions themselves *)

Message ==
  [kind : {"IDENTITY"}] \cup [kind : {"CERTIFICATE"}, peer : Observers]
    \cup [kind : {"CREATED"}, peer : Observers, id : Nat, desc : LocalDesc \cup {NoDesc}]

TypeInv ==
  /\ scenario \in Scenario
  /\ session \in [Observers -> WebRtcSession]
  /\ queue \in Seq(Message)
  /\ asked \in Nat /\ called \in Seq(Nat)
  /\ created \in [Observers -> SUBSET LocalDesc]
  /\ request_observers \in Seq(Observers)

\* The descriptions that the state of s promises.
HasDescriptions(s) ==
  /\ s.state \in {"RECEIVEDOFFER", "SENTPRANSWER"} => s.remote.type = "offer"
  /\ s.state \in {"SENTOFFER", "RECEIVEDPRANSWER"} => s.local.type = "offer"
  /\ s.state = "INPROGRESS" => s.local # NoDesc /\ s.remote # NoDesc

\* The media channel exists once a description was taken, ...
HasChannel(s) ==
  /\ s.local_set \/ s.remote_set => s.channel
  /\ s.state \notin {"INIT", "CLOSED"} => s.channel

\* ... the transport has what the session has, and the candidates are kept.
Negotiated(s) ==
  /\ s.remote = NoDesc => s.accepted = {}
  /\ s.remote # NoDesc => s.accepted \subseteq s.remote.candidates
  /\ s.state # "CLOSED" =>
       (s.local # NoDesc => s.local_set) /\ (s.remote # NoDesc => s.remote_set)
  /\ s.local_set /\ s.remote_set => s.accepted \subseteq s.used

SessionOK(s) == HasDescriptions(s) /\ HasChannel(s) /\ (~s.rejected => Negotiated(s))

SessionInv == TypeInv /\ \A p \in Observers : SessionOK(session[p])


-----------------------------------------------------------------------------
(* Sequences that are defined by recursion *)

\* Induction up to m, for the set of the numbers for which something holds.
LEMMA UpTo ==
  ASSUME NEW m \in Nat, NEW T, 0 \in T, \A n \in 0 .. m - 1 : n \in T => n + 1 \in T
  PROVE  0 .. m \subseteq T
<1> DEFINE R == OpToRel(<, Nat)
           F == {n \in 0 .. m : n \notin T}
<1>1. IsWellFoundedOn(R, Nat) /\ \A x, y \in Nat : <<y, x>> \notin R => x <= y
  BY NatLessThanWellFounded DEF OpToRel
<1> SUFFICES ASSUME F # {} PROVE FALSE
  OBVIOUS
<1>2. F \subseteq Nat
  OBVIOUS
<1> HIDE DEF R, F
<1>3. PICK x \in F : \A y \in F : ~(<<y, x>> \in R)
  BY <1>1, <1>2, WFMin
<1>4. \A y \in F : x <= y
  BY <1>1, <1>2, <1>3
<1>5. x \in 0 .. m /\ x \notin T
  BY <1>3 DEF F
<1>6. x # 0 /\ x - 1 \in 0 .. m - 1 /\ (x - 1) + 1 = x
  BY <1>5
<1>7. x - 1 \in F
  BY <1>5, <1>6 DEF F
<1> QED
  BY <1>4, <1>5, <1>7

\* The recursion of Kept is well defined.
IsKept(q, S, m, k) ==
  k = [n \in 0 .. m |-> IF n = 0 THEN << >>
                        ELSE IF q[n] \in S THEN Append(k[n - 1], q[n]) ELSE k[n - 1]]

LEMMA KeptDefined ==
  ASSUME NEW q, Len(q) \in Nat, NEW S
  PROVE  \E k : IsKept(q, S, Len(q), k) /\ Kept(q, S) = k[Len(q)]
<1> DEFINE T == {m \in 0 .. Len(q) : \E k : IsKept(q, S, m, k)}
<1>1. 0 \in T
  <2>1. IsKept(q, S, 0, [n \in 0 .. 0 |-> << >>])
    BY DEF IsKept
  <2> QED
    BY <2>1
<1>2. ASSUME NEW m \in 0 .. Len(q) - 1, m \in T PROVE m + 1 \in T
  <2>1. PICK k : IsKept(q, S, m, k)
    BY <1>2
  <2> DEFINE x == IF q[m + 1] \in S THEN Append(k[m], q[m + 1]) ELSE k[m]
             g == [n \in 0 .. m + 1 |-> IF n = m + 1 THEN x ELSE k[n]]
  <2>2. k = [n \in 0 .. m |-> IF n = 0 THEN << >>
                              ELSE IF q[n] \in S THEN Append(k[n - 1], q[n]) ELSE k[n - 1]]
    BY <2>1 DEF IsKept
  <2>3. \A n \in 0 .. m : k[n] = IF n = 0 THEN << >>
                                 ELSE IF q[n] \in S THEN Append(k[n - 1], q[n]) ELSE k[n - 1]
    BY <2>2
  <2>4. g[m] = k[m] /\ \A n \in 0 .. m : n # 0 => g[n - 1] = k[n - 1]
    OBVIOUS
  <2>5. \A n \in 0 .. m + 1 : g[n] = IF n = 0 THEN << >>
                                     ELSE IF q[n] \in S THEN Append(g[n - 1], q[n]) ELSE g[n - 1]
    <3> SUFFICES ASSUME NEW n \in 0 .. m + 1
                 PROVE g[n] = IF n = 0 THEN << >>
                              ELSE IF q[n] \in S THEN Append(g[n - 1], q[n]) ELSE g[n - 1]
      OBVIOUS
    <3>1. CASE n = m + 1
      <4>1. n - 1 = m /\ n # 0 /\ g[n] = x
        BY <3>1
      <4> HIDE DEF g
      <4> QED
        BY <3>1, <4>1, <2>4
    <3>2. CASE n # m + 1
      <4>1. n \in 0 .. m /\ g[n] = k[n]
        BY <3>2
      <4> HIDE DEF g
      <4> QED
        BY <4>1, <2>3, <2>4
    <3> QED
      BY <3>1, <3>2
  <2>6. g = [n \in 0 .. m + 1 |-> g[n]]
    OBVIOUS
  <2> HIDE DEF g
  <2>7. IsKept(q, S, m + 1, g)
    BY <2>5, <2>6 DEF IsKept
  <2> QED
    BY <2>7
<1>3. Len(q) \in 0 .. Len(q)
  OBVIOUS
<1> HIDE DEF T
<1>4. Len(q) \in T
  BY <1>1, <1>2, <1>3, UpTo
<1>5. \E k : IsKept(q, S, Len(q), k)
  BY <1>4 DEF T
<1> DEFINE c == CHOOSE k : IsKept(q, S, Len(q), k)
<1>6. IsKept(q, S, Len(q), c)
  BY <1>5
<1>7. Kept(q, S) = c[Len(q)]
  BY DEF Kept, IsKept
<1> QED
  BY <1>6, <1>7


\* What Kept returns: the elements of q in S, each once and in their order.  e names the
\* position in q of each.
Selects(q, S, m, r, e) ==
  /\ e \in [1 .. Len(r) -> 1 .. m]
  /\ \A i \in 1 .. Len(r) : r[i] = q[e[i]] /\ q[e[i]] \in S
  /\ \A i, j \in 1 .. Len(r) : i < j => e[i] < e[j]
  /\ \A i \in 1 .. m : q[i] \in S => \E j \in 1 .. Len(r) : e[j] = i

LEMMA SelectsNext ==
  ASSUME NEW A, NEW q \in Seq(A), NEW S, NEW m \in 0 .. Len(q) - 1, NEW r \in Seq(A),
         NEW e, Selects(q, S, m, r, e), NEW t,
         t = IF q[m + 1] \in S THEN Append(r, q[m + 1]) ELSE r
  PROVE  t \in Seq(A) /\ \E f : Selects(q, S, m + 1, t, f)
<1>1. CASE q[m + 1] \notin S
  <2>1. t = r
    BY <1>1
  <2>2. \A i \in 1 .. Len(r) : e[i] \in 1 .. m + 1
    BY DEF Selects
  <2>3. \A i \in 1 .. m + 1 : q[i] \in S => i \in 1 .. m
    BY <1>1
  <2>4. Selects(q, S, m + 1, r, e)
    BY <2>2, <2>3 DEF Selects
  <2> QED
    BY <2>1, <2>4
<1>2. CASE q[m + 1] \in S
  <2> DEFINE n == Len(r)
             f == [i \in 1 .. n + 1 |-> IF i = n + 1 THEN m + 1 ELSE e[i]]
  <2>1. q[m + 1] \in A /\ n \in Nat
    OBVIOUS
  <2>2. t = Append(r, q[m + 1]) /\ t \in Seq(A) /\ Len(t) = n + 1
    BY <1>2, <2>1
  <2>3. (\A i \in 1 .. n : t[i] = r[i]) /\ t[n + 1] = q[m + 1]
    BY <2>1, <2>2, AppendFacts
  <2>4. (\A i \in 1 .. n : e[i] \in 1 .. m) /\ (\A i \in 1 .. n : f[i] = e[i]) /\ f[n + 1] = m + 1
    BY <2>1 DEF Selects
  <2>5. f \in [1 .. n + 1 -> 1 .. m + 1]
    BY <2>1, <2>4
  <2>6. \A i \in 1 .. n : e[i] < m + 1
    BY <2>4
  <2> HIDE DEF n, f
  <2>7. \A i \in 1 .. n + 1 : i \in 1 .. n \/ i = n + 1
    BY <2>1
  <2>8. \A i \in 1 .. n + 1 : t[i] = q[f[i]] /\ q[f[i]] \in S
    BY <1>2, <2>3, <2>4, <2>7 DEF Selects, n
  <2>9. \A i, j \in 1 .. n + 1 : i < j => f[i] < f[j]
    <3> SUFFICES ASSUME NEW i \in 1 .. n + 1, NEW j \in 1 .. n + 1, i < j PROVE f[i] < f[j]
      OBVIOUS
    <3>1. i \in 1 .. n
      BY <2>1
    <3> QED
      BY <2>4, <2>6, <2>7, <3>1 DEF Selects, n
  <2>10. ASSUME NEW i \in 1 .. m + 1, q[i] \in S PROVE \E j \in 1 .. n + 1 : f[j] = i
    <3>1. CASE i = m + 1
      <4>1. n + 1 \in 1 .. n + 1
        BY <2>1
      <4> QED
        BY <2>4, <3>1, <4>1
    <3>2. CASE i # m + 1
      <4>1. i \in 1 .. m
        BY <3>2
      <4>2. PICK j \in 1 .. n : e[j] = i
        BY <2>10, <4>1 DEF Selects, n
      <4>3. j \in 1 .. n + 1
        BY <2>1
      <4> QED
        BY <2>4, <4>2, <4>3
    <3> QED
      BY <3>1, <3>2
  <2>11. Selects(q, S, m + 1, t, f)
    BY <2>2, <2>5, <2>8, <2>9, <2>10 DEF Selects
  <2> QED
    BY <2>2, <2>11
<1> QED
  BY <1>1, <1>2

LEMMA KeptLemma ==
  ASSUME NEW A, NEW q \in Seq(A), NEW S
  PROVE  Kept(q, S) \in Seq(A) /\ \E e : Selects(q, S, Len(q), Kept(q, S), e)
<1>1. Len(q) \in Nat
  OBVIOUS
<1>2. PICK k : IsKept(q, S, Len(q), k) /\ Kept(q, S) = k[Len(q)]
  BY <1>1, KeptDefined
<1>3. k = [n \in 0 .. Len(q) |-> IF n = 0 THEN << >>
                                 ELSE IF q[n] \in S THEN Append(k[n - 1], q[n]) ELSE k[n - 1]]
  BY <1>2 DEF IsKept
<1>4. k[0] = << >> /\ \A m \in 0 .. Len(q) - 1 :
        k[m + 1] = IF q[m + 1] \in S THEN Append(k[m], q[m + 1]) ELSE k[m]
  <2>1. \A n \in 0 .. Len(q) : k[n] = IF n = 0 THEN << >>
                                      ELSE IF q[n] \in S THEN Append(k[n - 1], q[n]) ELSE k[n - 1]
    BY <1>3
  <2>2. k[0] = << >>
    BY <1>1, <2>1
  <2>3. ASSUME NEW m \in 0 .. Len(q) - 1
        PROVE  k[m + 1] = IF q[m + 1] \in S THEN Append(k[m], q[m + 1]) ELSE k[m]
    <3>1. m + 1 \in 0 .. Len(q) /\ m + 1 # 0 /\ (m + 1) - 1 = m
      BY <1>1
    <3> QED
      BY <2>1, <3>1
  <2> QED
    BY <2>2, <2>3
<1> DEFINE T == {m \in 0 .. Len(q) : k[m] \in Seq(A) /\ \E e : Selects(q, S, m, k[m], e)}
<1>5. 0 \in T
  <2>1. Selects(q, S, 0, << >>, << >>)
    BY DEF Selects
  <2>2. k[0] \in Seq(A) /\ Selects(q, S, 0, k[0], << >>)
    BY <1>4, <2>1
  <2> QED
    BY <1>1, <2>2
<1>6. ASSUME NEW m \in 0 .. Len(q) - 1, m \in T PROVE m + 1 \in T
  <2>1. k[m] \in Seq(A) /\ m + 1 \in 0 .. Len(q)
    BY <1>1, <1>6
  <2>2. PICK e : Selects(q, S, m, k[m], e)
    BY <1>6
  <2>3. k[m + 1] \in Seq(A) /\ \E f : Selects(q, S, m + 1, k[m + 1], f)
    <3> DEFINE r == k[m]
               t == k[m + 1]
    <3>1. t = IF q[m + 1] \in S THEN Append(r, q[m + 1]) ELSE r
      BY <1>4
    <3>2. r \in Seq(A) /\ Selects(q, S, m, r, e)
      BY <2>1, <2>2
    <3> HIDE DEF r, t
    <3>3. t \in Seq(A) /\ \E f : Selects(q, S, m + 1, t, f)
      BY <3>1, <3>2, SelectsNext
    <3> QED
      BY <3>3 DEF t
  <2> QED
    BY <2>1, <2>3
<1>7. Len(q) \in 0 .. Len(q)
  BY <1>1
<1> HIDE DEF T
<1>8. Len(q) \in T
  BY <1>1, <1>5, <1>6, <1>7, UpTo
<1> QED
  BY <1>2, <1>8 DEF T


\* The recursion of SetCertificate is well defined.
Unserved(s) == Posting([s EXCEPT !.certificate = "SUCCEEDED", !.requests = << >>], << >>)

IsServed(p, s, bad, m, k) ==
  k = [n \in 0 .. m |->
         IF n = 0 THEN Unserved(s)
         ELSE ServeRequest(p, k[n - 1], s.requests[n], s.requests[n].id \notin bad)]

LEMMA ServedDefined ==
  ASSUME NEW p, NEW s, Len(s.requests) \in Nat, NEW bad
  PROVE  \E k : IsServed(p, s, bad, Len(s.requests), k) /\ SetCertificate(p, s, bad) = k[Len(s.requests)]
<1> DEFINE N == Len(s.requests)
           T == {m \in 0 .. N : \E k : IsServed(p, s, bad, m, k)}
<1>1. 0 \in T
  <2>1. IsServed(p, s, bad, 0, [n \in 0 .. 0 |-> Unserved(s)])
    BY DEF IsServed
  <2> QED
    BY <2>1
<1>2. ASSUME NEW m \in 0 .. N - 1, m \in T PROVE m + 1 \in T
  <2>1. PICK k : IsServed(p, s, bad, m, k)
    BY <1>2
  <2> DEFINE x == ServeRequest(p, k[m], s.requests[m + 1], s.requests[m + 1].id \notin bad)
             g == [n \in 0 .. m + 1 |-> IF n = m + 1 THEN x ELSE k[n]]
  <2>2. \A n \in 0 .. m : k[n] = IF n = 0 THEN Unserved(s)
          ELSE ServeRequest(p, k[n - 1], s.requests[n], s.requests[n].id \notin bad)
    BY <2>1 DEF IsServed
  <2>3. g[m] = k[m] /\ \A n \in 0 .. m : n # 0 => g[n - 1] = k[n - 1]
    OBVIOUS
  <2>4. ASSUME NEW n \in 0 .. m + 1
        PROVE  g[n] = IF n = 0 THEN Unserved(s)
                 ELSE ServeRequest(p, g[n - 1], s.requests[n], s.requests[n].id \notin bad)
    <3>1. CASE n = m + 1
      <4>1. n - 1 = m /\ n # 0 /\ g[n] = x
        BY <3>1
      <4> HIDE DEF g
      <4> QED
        BY <3>1, <4>1, <2>3
    <3>2. CASE n # m + 1
      <4>1. n \in 0 .. m /\ g[n] = k[n]
        BY <3>2
      <4> HIDE DEF g
      <4> QED
        BY <4>1, <2>2, <2>3
    <3> QED
      BY <3>1, <3>2
  <2>5. g = [n \in 0 .. m + 1 |-> g[n]]
    OBVIOUS
  <2> HIDE DEF g
  <2>6. IsServed(p, s, bad, m + 1, g)
    BY <2>4, <2>5 DEF IsServed
  <2> QED
    BY <2>6
<1>3. N \in 0 .. N
  OBVIOUS
<1> HIDE DEF T
<1>4. N \in T
  BY <1>1, <1>2, <1>3, UpTo
<1>5. \E k : IsServed(p, s, bad, N, k)
  BY <1>4 DEF T
<1> DEFINE c == CHOOSE k : IsServed(p, s, bad, N, k)
<1>6. IsServed(p, s, bad, N, c)
  BY <1>5
<1>7. SetCertificate(p, s, bad) = c[N]
  BY DEF SetCertificate, IsServed, Unserved
<1> QED
  BY <1>6, <1>7

\* What the factory does to a session, and the answers it posts to requests rs.
Served(s, c, q, v, l) == [s EXCEPT !.certificate = c, !.requests = q, !.version = v, !.latch = l]

Answer(p) == [kind : {"CREATED"}, peer : {p}, id : Nat, desc : LocalDesc \cup {NoDesc}]

Answers(p, rs, msgs) ==
  /\ msgs \in Seq(Answer(p)) /\ Len(msgs) = Len(rs)
  /\ \A i \in 1 .. Len(rs) : msgs[i].id = rs[i].id


LEMMA ServedFacts ==
  ASSUME NEW s \in WebRtcSession, NEW c \in CertificateStates, NEW q \in Seq(Request),
         NEW v \in Nat, NEW l \in BOOLEAN
  PROVE  /\ Served(s, c, q, v, l) \in WebRtcSession
         /\ Served(s, c, q, v, l).certificate = c /\ Served(s, c, q, v, l).requests = q
         /\ Served(s, c, q, v, l).version = v /\ Served(s, c, q, v, l).latch = l
         /\ Served(s, c, q, v, l).life = s.life /\ Served(s, c, q, v, l).local = s.local
         /\ SessionOK(s) => SessionOK(Served(s, c, q, v, l))
<1>1. /\ Served(s, c, q, v, l) \in WebRtcSession
      /\ Served(s, c, q, v, l).certificate = c /\ Served(s, c, q, v, l).requests = q
      /\ Served(s, c, q, v, l).version = v /\ Served(s, c, q, v, l).latch = l
  BY DEF Served, WebRtcSession
<1> DEFINE t == Served(s, c, q, v, l)
<1>2. /\ t.state = s.state /\ t.local = s.local /\ t.remote = s.remote /\ t.life = s.life
      /\ t.channel = s.channel /\ t.local_set = s.local_set /\ t.remote_set = s.remote_set
      /\ t.used = s.used /\ t.accepted = s.accepted /\ t.rejected = s.rejected
  BY DEF Served, WebRtcSession
<1> HIDE DEF t
<1>3. SessionOK(s) => SessionOK(t)
  BY <1>2 DEF SessionOK, HasDescriptions, HasChannel, Negotiated
<1> QED
  BY <1>1, <1>2, <1>3 DEF t

LEMMA ServedTwice ==
  ASSUME NEW s \in WebRtcSession, NEW c, NEW q, NEW v, NEW l, NEW d, NEW r, NEW w, NEW n
  PROVE  Served(Served(s, c, q, v, l), d, r, w, n) = Served(s, d, r, w, n)
  BY DEF Served, WebRtcSession

\* x is what a description created for r leaves, and posts.
Creates(p, s, r, x) ==
  \E v \in Nat, l \in BOOLEAN, m \in Answer(p) :
    x = Posting(Served(s, s.certificate, s.requests, v, l), <<m>>) /\ m.id = r.id

LEMMA InternalCreateLemma ==
  ASSUME NEW p, NEW s \in WebRtcSession, NEW r \in Request, NEW ok \in BOOLEAN
  PROVE  Creates(p, s, r, InternalCreate(p, s, r, ok))
<1> DEFINE restart == IF r.type = "answer" THEN s.latch ELSE r.restart
           u == IF s.local = NoDesc \/ restart THEN s.version ELSE s.local.ufrag
           d == [type |-> r.type, version |-> s.version, ufrag |-> u]
           x == IF ok THEN d ELSE NoDesc
           m == Created(p, r, x)
           l == s.latch /\ ~(r.type = "answer" /\ ok)
<1>1. s.version \in Nat /\ s.version + 1 \in Nat /\ l \in BOOLEAN
  BY DEF WebRtcSession
<1>2. u \in Nat
  <2>1. s.local # NoDesc => s.local \in LocalDesc
    BY DEF WebRtcSession
  <2> QED
    BY <1>1, <2>1 DEF LocalDesc
<1> HIDE DEF u
<1>3. d \in LocalDesc
  BY <1>1, <1>2 DEF LocalDesc, Request, Types
<1> HIDE DEF d
<1>4. x \in LocalDesc \cup {NoDesc}
  BY <1>3
<1> HIDE DEF x
<1>5. m \in Answer(p) /\ m.id = r.id
  BY <1>4 DEF Created, Answer, Request
<1>6. Served(s, s.certificate, s.requests, s.version + 1, l)
        = [s EXCEPT !.version = @ + 1, !.latch = @ /\ ~(r.type = "answer" /\ ok)]
  BY DEF Served, WebRtcSession
<1>7. InternalCreate(p, s, r, ok) = Posting(Served(s, s.certificate, s.requests, s.version + 1, l), <<m>>)
  BY <1>6 DEF InternalCreate, Posting, u, d, x
<1> HIDE DEF m, l
<1> QED
  BY <1>1, <1>5, <1>7 DEF Creates


\* x is what the first n requests of s leave when they have been served.
FirstServed(p, s, n, x) ==
  \E v \in Nat, l \in BOOLEAN, msgs \in Seq(Answer(p)) :
    /\ x = Posting(Served(s, "SUCCEEDED", << >>, v, l), msgs)
    /\ Len(msgs) = n /\ \A i \in 1 .. n : msgs[i].id = s.requests[i].id

LEMMA ServeNext ==
  ASSUME NEW p, NEW s \in WebRtcSession, NEW n \in 0 .. Len(s.requests) - 1, NEW x,
         FirstServed(p, s, n, x), NEW ok \in BOOLEAN
  PROVE  FirstServed(p, s, n + 1, ServeRequest(p, x, s.requests[n + 1], ok))
<1>1. PICK v \in Nat, l \in BOOLEAN, msgs \in Seq(Answer(p)) :
        /\ x = Posting(Served(s, "SUCCEEDED", << >>, v, l), msgs)
        /\ Len(msgs) = n /\ \A i \in 1 .. n : msgs[i].id = s.requests[i].id
  BY DEF FirstServed
<1> DEFINE t == Served(s, "SUCCEEDED", << >>, v, l)
           r == s.requests[n + 1]
<1>2. s.requests \in Seq(Request) /\ n + 1 \in 1 .. Len(s.requests)
  BY DEF WebRtcSession
<1>3. r \in Request
  BY <1>2
<1>4. t \in WebRtcSession /\ t.certificate = "SUCCEEDED" /\ t.requests = << >>
  <2> DEFINE c == "SUCCEEDED"
             q == << >>
  <2>1. c \in CertificateStates /\ q \in Seq(Request)
    BY DEF CertificateStates
  <2> HIDE DEF c, q
  <2>2. Served(s, c, q, v, l) \in WebRtcSession
    BY <2>1, ServedFacts
  <2>3. Served(s, c, q, v, l).certificate = c /\ Served(s, c, q, v, l).requests = q
    BY <2>1, ServedFacts
  <2> QED
    BY <2>2, <2>3 DEF c, q
<1>5. x.session = t /\ x.msgs = msgs
  BY <1>1 DEF Posting
<1> HIDE DEF t, r
<1> DEFINE y == InternalCreate(p, t, r, ok)
<1>6. PICK w \in Nat, k \in BOOLEAN, m \in Answer(p) :
        y = Posting(Served(t, t.certificate, t.requests, w, k), <<m>>) /\ m.id = r.id
  <2>1. t \in WebRtcSession
    BY <1>4
  <2>2. Creates(p, t, r, y)
    BY <1>3, <2>1, InternalCreateLemma
  <2> HIDE DEF y
  <2> QED
    BY <2>2 DEF Creates
<1>7. Served(t, "SUCCEEDED", << >>, w, k) = Served(s, "SUCCEEDED", << >>, w, k)
  BY ServedTwice DEF t
<1>8. ServeRequest(p, x, r, ok) = Posting(Served(s, "SUCCEEDED", << >>, w, k), msgs \o <<m>>)
  BY <1>4, <1>5, <1>6, <1>7 DEF ServeRequest, Posting
<1>9. msgs \o <<m>> \in Seq(Answer(p)) /\ Len(msgs \o <<m>>) = n + 1 /\ msgs \o <<m>> = Append(msgs, m)
  BY <1>1
<1>10. \A i \in 1 .. n + 1 : (msgs \o <<m>>)[i].id = s.requests[i].id
  BY <1>1, <1>6, <1>9, AppendFacts DEF r
<1> QED
  BY <1>8, <1>9, <1>10 DEF FirstServed, r

LEMMA SetCertificateLemma ==
  ASSUME NEW p, NEW s \in WebRtcSession, NEW bad
  PROVE  \E v \in Nat, l \in BOOLEAN, msgs \in Seq(Answer(p)) :
           /\ SetCertificate(p, s, bad) = Posting(Served(s, "SUCCEEDED", << >>, v, l), msgs)
           /\ Answers(p, s.requests, msgs)
<1> DEFINE N == Len(s.requests)
<1>1. N \in Nat
  BY DEF WebRtcSession
<1>2. PICK k : IsServed(p, s, bad, N, k) /\ SetCertificate(p, s, bad) = k[N]
  BY <1>1, ServedDefined
<1>3. \A n \in 0 .. N : k[n] = IF n = 0 THEN Unserved(s)
        ELSE ServeRequest(p, k[n - 1], s.requests[n], s.requests[n].id \notin bad)
  BY <1>2 DEF IsServed
<1> HIDE DEF N
<1> DEFINE T == {n \in 0 .. N : FirstServed(p, s, n, k[n])}
<1>4. 0 \in T
  <2>1. Unserved(s) = Posting(Served(s, "SUCCEEDED", << >>, s.version, s.latch), << >>)
    BY DEF Unserved, Served, WebRtcSession
  <2>2. s.version \in Nat /\ s.latch \in BOOLEAN /\ << >> \in Seq(Answer(p)) /\ Len(<< >>) = 0
    BY DEF WebRtcSession
  <2> HIDE DEF Unserved, Served
  <2>3. FirstServed(p, s, 0, Unserved(s))
    <3> DEFINE e == << >>
    <3>1. /\ Unserved(s) = Posting(Served(s, "SUCCEEDED", << >>, s.version, s.latch), e)
          /\ Len(e) = 0 /\ \A i \in 1 .. 0 : e[i].id = s.requests[i].id
      BY <2>1, <2>2
    <3>2. e \in Seq(Answer(p))
      BY <2>2
    <3> HIDE DEF e
    <3> QED
      BY <2>2, <3>1, <3>2 DEF FirstServed
  <2>4. k[0] = Unserved(s)
    BY <1>1, <1>3
  <2> QED
    BY <1>1, <2>3, <2>4
<1>5. ASSUME NEW n \in 0 .. N - 1, n \in T PROVE n + 1 \in T
  <2>1. n + 1 \in 0 .. N /\ n + 1 # 0 /\ (n + 1) - 1 = n
    BY <1>1
  <2>2. k[n + 1] = ServeRequest(p, k[n], s.requests[n + 1], s.requests[n + 1].id \notin bad)
    BY <1>3, <2>1
  <2>3. FirstServed(p, s, n + 1, ServeRequest(p, k[n], s.requests[n + 1], s.requests[n + 1].id \notin bad))
    BY <1>5, ServeNext DEF N
  <2> QED
    BY <2>1, <2>2, <2>3
<1>6. N \in 0 .. N
  BY <1>1
<1> HIDE DEF T
<1>7. N \in T
  BY <1>1, <1>4, <1>5, <1>6, UpTo
<1>8. FirstServed(p, s, N, k[N])
  BY <1>7 DEF T
<1> QED
  BY <1>2, <1>8 DEF FirstServed, Answers, N

LEMMA FailPendingLemma ==
  ASSUME NEW p, NEW s \in WebRtcSession
  PROVE  \E msgs : /\ FailPendingRequests(p, s)
                        = Posting(Served(s, s.certificate, << >>, s.version, s.latch), msgs)
                   /\ Answers(p, s.requests, msgs)
<1> DEFINE msgs == [i \in DOMAIN s.requests |-> Created(p, s.requests[i], NoDesc)]
<1>1. s.requests \in Seq(Request)
  BY DEF WebRtcSession
<1>2. \A i \in DOMAIN s.requests :
        Created(p, s.requests[i], NoDesc) \in Answer(p) /\ Created(p, s.requests[i], NoDesc).id = s.requests[i].id
  <2> SUFFICES ASSUME NEW i \in DOMAIN s.requests
               PROVE  /\ Created(p, s.requests[i], NoDesc) \in Answer(p)
                      /\ Created(p, s.requests[i], NoDesc).id = s.requests[i].id
    OBVIOUS
  <2>1. s.requests[i] \in Request
    BY <1>1
  <2>2. s.requests[i].id \in Nat
    BY <2>1 DEF Request
  <2> QED
    BY <2>2 DEF Created, Answer
<1>3. DOMAIN s.requests = 1 .. Len(s.requests) /\ Len(s.requests) \in Nat
  BY <1>1
<1>4. msgs \in Seq(Answer(p)) /\ Len(msgs) = Len(s.requests)
  BY <1>2, <1>3
<1>5. Answers(p, s.requests, msgs)
  BY <1>2, <1>3, <1>4 DEF Answers
<1>6. [s EXCEPT !.requests = << >>] = Served(s, s.certificate, << >>, s.version, s.latch)
  BY DEF Served, WebRtcSession
<1>7. FailPendingRequests(p, s) = Posting([s EXCEPT !.requests = << >>], msgs)
  BY DEF FailPendingRequests
<1> HIDE DEF msgs
<1> QED
  BY <1>5, <1>6, <1>7


-----------------------------------------------------------------------------
(* Descriptions and candidates *)

Expected(type, source, state) ==
  \/ source = "LOCAL" /\ type = "offer" /\ state \in {"INIT", "SENTOFFER", "INPROGRESS"}
  \/ source = "LOCAL" /\ type # "offer" /\ state \in {"RECEIVEDOFFER", "SENTPRANSWER"}
  \/ source = "REMOTE" /\ type = "offer" /\ state \in {"INIT", "RECEIVEDOFFER", "INPROGRESS"}
  \/ source = "REMOTE" /\ type # "offer" /\ state \in {"SENTOFFER", "RECEIVEDPRANSWER"}

\* UpdateSessionState, field by field.
Updates(s, t, type, source, outcome) ==
  /\ t \in WebRtcSession
  /\ t.life = s.life /\ t.certificate = s.certificate /\ t.requests = s.requests
  /\ t.local = s.local /\ t.remote = s.remote /\ t.used = s.used /\ t.accepted = s.accepted
  /\ t.rejected = (s.rejected \/ outcome # "ok")
  /\ IF outcome \in {"ok", "content"}
     THEN /\ t.state = NextState(type, source)
          /\ t.channel = (s.channel \/ type = "offer")
          /\ t.local_set = (s.local_set \/ source = "LOCAL")
          /\ t.remote_set = (s.remote_set \/ source = "REMOTE")
     ELSE /\ t.state = s.state
          /\ s.channel => t.channel
          /\ t.local_set = s.local_set /\ t.remote_set = s.remote_set

LEMMA UpdateLemma ==
  ASSUME NEW s \in WebRtcSession, NEW type \in Types, NEW source \in {"LOCAL", "REMOTE"},
         NEW outcome \in {"ok", "transport", "content", "channels"}
  PROVE  Updates(s, UpdateSessionState(s, type, source, outcome), type, source, outcome)
<1>1. NextState(type, source) \in States
  BY DEF NextState, States, Types
<1> DEFINE n == NextState(type, source)
           t == UpdateSessionState(s, type, source, outcome)
           a == s.channel \/ type = "offer"
           b == s.local_set \/ source = "LOCAL"
           c == s.remote_set \/ source = "REMOTE"
<1>2. /\ a \in BOOLEAN /\ b \in BOOLEAN /\ c \in BOOLEAN
      /\ s.channel \in BOOLEAN /\ s.local_set \in BOOLEAN /\ s.remote_set \in BOOLEAN
      /\ s.rejected \in BOOLEAN
  BY DEF WebRtcSession
<1>3. s.channel => a
  OBVIOUS
<1>4. CASE outcome = "ok"
  <2>1. t = [s EXCEPT !.channel = a, !.state = n, !.local_set = b, !.remote_set = c]
    BY <1>4 DEF UpdateSessionState, WebRtcSession
  <2> HIDE DEF t, n, a, b, c
  <2>2. t \in WebRtcSession
    BY <1>1, <1>2, <2>1 DEF WebRtcSession, n
  <2>3. /\ t.channel = a /\ t.state = n /\ t.local_set = b /\ t.remote_set = c
        /\ t.life = s.life /\ t.certificate = s.certificate /\ t.requests = s.requests
        /\ t.local = s.local /\ t.remote = s.remote /\ t.used = s.used /\ t.accepted = s.accepted
        /\ t.rejected = s.rejected
    BY <2>1 DEF WebRtcSession
  <2>4. t.rejected = (s.rejected \/ outcome # "ok")
    BY <1>2, <1>4, <2>3
  <2> QED
    BY <1>4, <2>2, <2>3, <2>4 DEF Updates, t, n, a, b, c
<1>5. CASE outcome = "content"
  <2>1. t = [s EXCEPT !.channel = a, !.state = n, !.local_set = b, !.remote_set = c,
                      !.error = TRUE, !.rejected = TRUE]
    BY <1>5 DEF UpdateSessionState, WebRtcSession
  <2> HIDE DEF t, n, a, b, c
  <2>2. t \in WebRtcSession
    BY <1>1, <1>2, <2>1 DEF WebRtcSession, n
  <2>3. /\ t.channel = a /\ t.state = n /\ t.local_set = b /\ t.remote_set = c
        /\ t.life = s.life /\ t.certificate = s.certificate /\ t.requests = s.requests
        /\ t.local = s.local /\ t.remote = s.remote /\ t.used = s.used /\ t.accepted = s.accepted
        /\ t.rejected = TRUE
    BY <2>1 DEF WebRtcSession
  <2>4. t.rejected = (s.rejected \/ outcome # "ok")
    BY <1>2, <1>5, <2>3
  <2> QED
    BY <1>5, <2>2, <2>3, <2>4 DEF Updates, t, n, a, b, c
<1>6. CASE outcome \in {"transport", "channels"}
  <2>1. PICK d \in BOOLEAN : t = [s EXCEPT !.channel = d, !.rejected = TRUE] /\ (s.channel => d)
    <3>1. outcome = "transport" => t = [s EXCEPT !.channel = a, !.rejected = TRUE]
      BY DEF UpdateSessionState, WebRtcSession
    <3>2. outcome = "channels" => t = [s EXCEPT !.channel = s.channel, !.rejected = TRUE]
      BY DEF UpdateSessionState, WebRtcSession
    <3> HIDE DEF t, a
    <3> QED
      BY <1>2, <1>3, <1>6, <3>1, <3>2
  <2> HIDE DEF t
  <2>2. t \in WebRtcSession
    BY <1>2, <2>1 DEF WebRtcSession
  <2>3. /\ t.channel = d /\ t.state = s.state
        /\ t.local_set = s.local_set /\ t.remote_set = s.remote_set
        /\ t.life = s.life /\ t.certificate = s.certificate /\ t.requests = s.requests
        /\ t.local = s.local /\ t.remote = s.remote /\ t.used = s.used /\ t.accepted = s.accepted
        /\ t.rejected = TRUE
    BY <2>1 DEF WebRtcSession
  <2>4. t.rejected = (s.rejected \/ outcome # "ok")
    BY <1>2, <1>6, <2>3
  <2>5. s.channel => t.channel
    BY <2>1, <2>3
  <2> QED
    BY <1>6, <2>2, <2>3, <2>4, <2>5 DEF Updates, t
<1> QED
  BY <1>4, <1>5, <1>6


\* UseCandidates gives candidates C to the transport if it can, and changes nothing else.
Uses(t, u, C) ==
  /\ u \in WebRtcSession
  /\ u.life = t.life /\ u.certificate = t.certificate /\ u.requests = t.requests
  /\ u.state = t.state /\ u.local = t.local /\ u.remote = t.remote
  /\ u.channel = t.channel /\ u.local_set = t.local_set /\ u.remote_set = t.remote_set
  /\ u.accepted = t.accepted /\ u.rejected = t.rejected
  /\ t.used \subseteq u.used
  /\ t.channel /\ t.local_set /\ t.remote_set => C \subseteq u.used

LEMMA UseLemma ==
  ASSUME NEW t \in WebRtcSession, NEW C \in SUBSET Candidate
  PROVE  Uses(t, UseCandidates(t, C), C)
<1> DEFINE u == [t EXCEPT !.used = t.used \cup C]
<1>1. t.used \in SUBSET Candidate
  BY DEF WebRtcSession
<1>2. t.used \cup C \in SUBSET Candidate
  BY <1>1
<1>3. u \in WebRtcSession
  BY <1>2 DEF WebRtcSession
<1>4. /\ u.life = t.life /\ u.certificate = t.certificate /\ u.requests = t.requests
      /\ u.state = t.state /\ u.local = t.local /\ u.remote = t.remote
      /\ u.channel = t.channel /\ u.local_set = t.local_set /\ u.remote_set = t.remote_set
      /\ u.accepted = t.accepted /\ u.rejected = t.rejected /\ u.used = t.used \cup C
  BY DEF WebRtcSession
<1>5. UseCandidates(t, C) = IF t.channel /\ t.local_set /\ t.remote_set THEN u ELSE t
  BY DEF UseCandidates
<1> HIDE DEF u
<1> QED
  BY <1>3, <1>4, <1>5 DEF Uses

\* What a step on s leaves alone for the factory, and the invariant of a session.
Keeps(s, u) ==
  /\ u \in WebRtcSession /\ SessionOK(u)
  /\ u.life = s.life /\ u.certificate = s.certificate /\ u.requests = s.requests

LEMMA LocalStored ==
  ASSUME NEW s \in WebRtcSession, NEW d \in LocalDesc
  PROVE  LET t == [s EXCEPT !.local = d] IN
         /\ t \in WebRtcSession /\ t.local = d
         /\ t.life = s.life /\ t.certificate = s.certificate /\ t.requests = s.requests
         /\ t.state = s.state /\ t.remote = s.remote
         /\ t.channel = s.channel /\ t.local_set = s.local_set /\ t.remote_set = s.remote_set
         /\ t.accepted = s.accepted /\ t.rejected = s.rejected /\ t.used = s.used
  BY DEF WebRtcSession

LEMMA RemoteStored ==
  ASSUME NEW s \in WebRtcSession, NEW d \in RemoteDesc
  PROVE  LET t == [s EXCEPT !.remote = d] IN
         /\ t \in WebRtcSession /\ t.remote = d
         /\ t.life = s.life /\ t.certificate = s.certificate /\ t.requests = s.requests
         /\ t.state = s.state /\ t.local = s.local
         /\ t.channel = s.channel /\ t.local_set = s.local_set /\ t.remote_set = s.remote_set
         /\ t.accepted = s.accepted /\ t.rejected = s.rejected /\ t.used = s.used
  BY DEF WebRtcSession

LEMMA Kinds ==
  ASSUME NEW s \in WebRtcSession
  PROVE  /\ s.local # NoDesc => s.local \in LocalDesc
         /\ s.remote # NoDesc => s.remote \in RemoteDesc
         /\ NoDesc.type = "none" /\ \A d \in LocalDesc \cup RemoteDesc : d # NoDesc /\ d.type \in Types
         /\ s.channel \in BOOLEAN /\ s.local_set \in BOOLEAN /\ s.remote_set \in BOOLEAN
         /\ s.rejected \in BOOLEAN /\ s.accepted \in SUBSET Candidate /\ s.used \in SUBSET Candidate
<1>1. \A d \in LocalDesc \cup RemoteDesc : d.type \in Types
  BY DEF LocalDesc, RemoteDesc
<1>2. NoDesc.type = "none" /\ "none" \notin Types
  BY DEF NoDesc, Types
<1>3. \A d \in LocalDesc \cup RemoteDesc : d # NoDesc
  BY <1>1, <1>2
<1> QED
  BY <1>1, <1>2, <1>3 DEF WebRtcSession

LEMMA SetLocalLemma ==
  ASSUME NEW s \in WebRtcSession, SessionOK(s), NEW d \in LocalDesc,
         NEW outcome \in {"ok", "transport", "content", "channels"},
         ExpectSetLocalDescription(s, d.type)
  PROVE  Keeps(s, SetLocal(s, d, outcome))
<1> DEFINE r == [s EXCEPT !.local = d]
           t == UpdateSessionState(r, d.type, "LOCAL", outcome)
           u == SetLocal(s, d, outcome)
<1>1. d.type \in Types /\ d # NoDesc
  BY Kinds
<1>2. /\ r \in WebRtcSession /\ r.local = d
      /\ r.life = s.life /\ r.certificate = s.certificate /\ r.requests = s.requests
      /\ r.state = s.state /\ r.remote = s.remote
      /\ r.channel = s.channel /\ r.local_set = s.local_set /\ r.remote_set = s.remote_set
      /\ r.accepted = s.accepted /\ r.rejected = s.rejected /\ r.used = s.used
  BY LocalStored
<1> HIDE DEF r
<1>3. Updates(r, t, d.type, "LOCAL", outcome)
  BY <1>1, <1>2, UpdateLemma
<1>4. u = IF outcome = "ok" /\ s.remote # NoDesc THEN UseCandidates(t, s.remote.candidates) ELSE t
  BY DEF SetLocal, r
<1> HIDE DEF t, u
<1>5. t \in WebRtcSession
  BY <1>3 DEF Updates
<1>6. \/ u = t /\ (outcome = "ok" => s.remote = NoDesc)
      \/ outcome = "ok" /\ s.remote # NoDesc /\ Uses(t, u, s.remote.candidates)
  <2>1. s.remote # NoDesc => s.remote.candidates \in SUBSET Candidate
    BY Kinds DEF RemoteDesc
  <2> QED
    BY <1>4, <1>5, <2>1, UseLemma
<1>7. /\ u \in WebRtcSession
      /\ u.life = t.life /\ u.certificate = t.certificate /\ u.requests = t.requests
      /\ u.state = t.state /\ u.local = t.local /\ u.remote = t.remote
      /\ u.channel = t.channel /\ u.local_set = t.local_set /\ u.remote_set = t.remote_set
      /\ u.accepted = t.accepted /\ u.rejected = t.rejected /\ t.used \subseteq u.used
  BY <1>5, <1>6 DEF Uses
<1>8. /\ t.life = s.life /\ t.certificate = s.certificate /\ t.requests = s.requests
      /\ t.local = d /\ t.remote = s.remote /\ t.used = s.used /\ t.accepted = s.accepted
  BY <1>2, <1>3 DEF Updates
<1>9. d.type = "offer" \/ s.state \in {"RECEIVEDOFFER", "SENTPRANSWER"}
  BY DEF ExpectSetLocalDescription
<1>10. s.state # "CLOSED" /\ (d.type # "offer" => s.channel /\ s.remote.type = "offer")
  BY <1>9 DEF ExpectSetLocalDescription, SessionOK, HasDescriptions, HasChannel
<1>11. HasDescriptions(u)
  <2>1. s.state \in {"SENTOFFER", "RECEIVEDPRANSWER"} => d.type = "offer"
    BY DEF ExpectSetLocalDescription
  <2>2. d.type # "offer" => s.remote # NoDesc
    BY <1>10, Kinds
  <2>3. t.state \in {s.state, NextState(d.type, "LOCAL")}
    BY <1>2, <1>3 DEF Updates
  <2>4. CASE u.state = s.state
    BY <1>1, <1>7, <1>8, <2>1, <2>4 DEF SessionOK, HasDescriptions
  <2>5. CASE u.state = NextState(d.type, "LOCAL")
    <3>1. CASE d.type = "offer"
      BY <1>7, <1>8, <2>5, <3>1 DEF NextState, HasDescriptions
    <3>2. CASE d.type # "offer"
      <4>1. u.state \in {"SENTPRANSWER", "INPROGRESS"}
        BY <1>1, <2>5, <3>2 DEF NextState, Types
      <4> QED
        BY <1>1, <1>7, <1>8, <1>10, <2>2, <3>2, <4>1 DEF HasDescriptions
    <3> QED
      BY <3>1, <3>2
  <2> QED
    BY <1>7, <2>3, <2>4, <2>5
<1>12. HasChannel(u)
  <2>1. CASE outcome \in {"ok", "content"}
    <3>1. t.channel = (s.channel \/ d.type = "offer")
      BY <1>2, <1>3, <2>1 DEF Updates
    <3>2. t.channel
      BY <1>10, <3>1
    <3> QED
      BY <1>7, <3>2 DEF HasChannel
  <2>2. CASE outcome \notin {"ok", "content"}
    <3>1. t.state = s.state /\ (s.channel => t.channel) /\ t.local_set = s.local_set /\ t.remote_set = s.remote_set
      BY <1>2, <1>3, <2>2 DEF Updates
    <3> QED
      BY <1>7, <3>1 DEF HasChannel, SessionOK
  <2> QED
    BY <2>1, <2>2
<1>13. ASSUME ~u.rejected PROVE Negotiated(u)
  <2>1. t.rejected = (s.rejected \/ outcome # "ok")
    BY <1>2, <1>3 DEF Updates
  <2>2. outcome = "ok" /\ ~s.rejected
    BY <1>7, <1>13, <2>1
  <2>3. t.channel = (s.channel \/ d.type = "offer") /\ t.local_set = (s.local_set \/ "LOCAL" = "LOCAL") /\ t.remote_set = (s.remote_set \/ "LOCAL" = "REMOTE")
    BY <1>2, <1>3, <2>2 DEF Updates
  <2>4. t.channel /\ t.local_set /\ t.remote_set = s.remote_set
    BY <1>10, <2>3, Kinds
  <2>5. Negotiated(s)
    BY <2>2 DEF SessionOK
  <2>6. CASE s.remote = NoDesc
    BY <1>7, <1>8, <2>4, <2>5, <2>6 DEF Negotiated
  <2>7. CASE s.remote # NoDesc
    <3>1. s.remote_set /\ s.accepted \subseteq s.remote.candidates
      BY <1>10, <2>5, <2>7 DEF Negotiated
    <3>2. s.remote.candidates \subseteq u.used
      BY <1>6, <2>2, <2>4, <2>7, <3>1 DEF Uses
    <3> QED
      BY <1>7, <1>8, <2>4, <2>7, <3>1, <3>2 DEF Negotiated
  <2> QED
    BY <2>6, <2>7
<1> QED
  BY <1>7, <1>8, <1>11, <1>12, <1>13 DEF Keeps, SessionOK, u


\* What SetRemote does after the description was taken.
MoreCandidates(u, C) == [u EXCEPT !.remote.candidates = @ \cup C]

LEMMA RemoteRestarted ==
  ASSUME NEW u \in WebRtcSession
  PROVE  LET v == [u EXCEPT !.latch = TRUE, !.accepted = {}] IN
         /\ v \in WebRtcSession /\ v.accepted = {} /\ v.remote = u.remote /\ v.used = u.used
         /\ v.life = u.life /\ v.certificate = u.certificate /\ v.requests = u.requests
         /\ v.state = u.state /\ v.local = u.local /\ v.rejected = u.rejected
         /\ v.channel = u.channel /\ v.local_set = u.local_set /\ v.remote_set = u.remote_set
  BY DEF WebRtcSession

LEMMA RemoteKept ==
  ASSUME NEW u \in WebRtcSession, u.remote \in RemoteDesc, NEW C \in SUBSET Candidate,
         NEW w, w = MoreCandidates(u, C)
  PROVE  /\ w \in WebRtcSession /\ w.accepted = u.accepted /\ w.used = u.used
         /\ w.remote \in RemoteDesc /\ w.remote.candidates = u.remote.candidates \cup C
         /\ w.remote.type = u.remote.type
         /\ w.life = u.life /\ w.certificate = u.certificate /\ w.requests = u.requests
         /\ w.state = u.state /\ w.local = u.local /\ w.rejected = u.rejected
         /\ w.channel = u.channel /\ w.local_set = u.local_set /\ w.remote_set = u.remote_set
<1> DEFINE d == [u.remote EXCEPT !.candidates = @ \cup C]
           x == [u EXCEPT !.remote = d]
<1>1. d \in RemoteDesc /\ d.candidates = u.remote.candidates \cup C /\ d.type = u.remote.type
  BY DEF RemoteDesc
<1>2. w = x
  BY DEF WebRtcSession, MoreCandidates
<1> HIDE DEF d
<1>3. /\ x \in WebRtcSession /\ x.accepted = u.accepted /\ x.used = u.used /\ x.remote = d
      /\ x.life = u.life /\ x.certificate = u.certificate /\ x.requests = u.requests
      /\ x.state = u.state /\ x.local = u.local /\ x.rejected = u.rejected
      /\ x.channel = u.channel /\ x.local_set = u.local_set /\ x.remote_set = u.remote_set
  BY <1>1, RemoteStored
<1> HIDE DEF x
<1> QED
  BY <1>1, <1>2, <1>3

LEMMA SetRemoteLemma ==
  ASSUME NEW s \in WebRtcSession, SessionOK(s), NEW d \in RemoteDesc, d.candidates = {},
         NEW outcome \in {"ok", "transport", "content", "channels"},
         ExpectSetRemoteDescription(s, d.type)
  PROVE  Keeps(s, SetRemote(s, d, outcome))
<1> DEFINE r == [s EXCEPT !.remote = d]
           t == UpdateSessionState(r, d.type, "REMOTE", outcome)
           u == IF s.local # NoDesc THEN UseCandidates(t, d.candidates) ELSE t
           restart == s.remote # NoDesc /\ d.type = "offer" /\ d.ufrag # s.remote.ufrag
           x == SetRemote(s, d, outcome)
<1>1. d.type \in Types /\ d # NoDesc
  BY Kinds
<1>2. /\ r \in WebRtcSession /\ r.remote = d
      /\ r.life = s.life /\ r.certificate = s.certificate /\ r.requests = s.requests
      /\ r.state = s.state /\ r.local = s.local
      /\ r.channel = s.channel /\ r.local_set = s.local_set /\ r.remote_set = s.remote_set
      /\ r.accepted = s.accepted /\ r.rejected = s.rejected /\ r.used = s.used
  BY RemoteStored
<1> HIDE DEF r
<1>3. Updates(r, t, d.type, "REMOTE", outcome)
  BY <1>1, <1>2, UpdateLemma
<1>4. x = IF outcome # "ok" THEN t
          ELSE IF restart THEN [u EXCEPT !.latch = TRUE, !.accepted = {}]
          ELSE IF s.remote = NoDesc THEN u
          ELSE [u EXCEPT !.remote.candidates = @ \cup s.remote.candidates]
  BY DEF SetRemote, r
<1> HIDE DEF t, x, restart
<1>5. t \in WebRtcSession
  BY <1>3 DEF Updates
<1>6. u = t \/ Uses(t, u, {})
  BY <1>5, UseLemma
<1> HIDE DEF u
<1>7. /\ u \in WebRtcSession
      /\ u.life = t.life /\ u.certificate = t.certificate /\ u.requests = t.requests
      /\ u.state = t.state /\ u.local = t.local /\ u.remote = t.remote
      /\ u.channel = t.channel /\ u.local_set = t.local_set /\ u.remote_set = t.remote_set
      /\ u.accepted = t.accepted /\ u.rejected = t.rejected /\ t.used \subseteq u.used
  BY <1>5, <1>6 DEF Uses
<1>8. /\ t.life = s.life /\ t.certificate = s.certificate /\ t.requests = s.requests
      /\ t.local = s.local /\ t.remote = d /\ t.used = s.used /\ t.accepted = s.accepted
  BY <1>2, <1>3 DEF Updates
\* The last step keeps the old candidates or forgets them.
<1>9. /\ x \in WebRtcSession
      /\ x.life = t.life /\ x.certificate = t.certificate /\ x.requests = t.requests
      /\ x.state = t.state /\ x.local = t.local /\ x.remote.type = d.type /\ x.remote \in RemoteDesc
      /\ x.channel = t.channel /\ x.local_set = t.local_set /\ x.remote_set = t.remote_set
      /\ x.rejected = t.rejected /\ t.used \subseteq x.used
      /\ outcome = "ok" => \/ x.accepted = {}
                           \/ x.accepted = s.accepted /\ s.remote = NoDesc
                           \/ x.accepted = s.accepted /\ s.remote # NoDesc
                                /\ s.remote.candidates \subseteq x.remote.candidates
  <2>1. CASE outcome # "ok"
    BY <1>4, <1>5, <1>8, <2>1
  <2>2. CASE outcome = "ok" /\ restart
    <3>1. x = [u EXCEPT !.latch = TRUE, !.accepted = {}]
      BY <1>4, <2>2
    <3>2. u.remote = d
      BY <1>7, <1>8
    <3>3. /\ x \in WebRtcSession /\ x.accepted = {} /\ x.remote = u.remote /\ x.used = u.used
          /\ x.life = u.life /\ x.certificate = u.certificate /\ x.requests = u.requests
          /\ x.state = u.state /\ x.local = u.local /\ x.rejected = u.rejected
          /\ x.channel = u.channel /\ x.local_set = u.local_set /\ x.remote_set = u.remote_set
      BY <1>7, <3>1, RemoteRestarted
    <3> QED
      BY <1>7, <3>2, <3>3
  <2>3. CASE outcome = "ok" /\ ~restart /\ s.remote = NoDesc
    <3>1. x = u
      BY <1>4, <2>3
    <3> QED
      BY <1>7, <1>8, <2>3, <3>1
  <2>4. CASE outcome = "ok" /\ ~restart /\ s.remote # NoDesc
    <3> DEFINE C == s.remote.candidates
    <3>1. x = [u EXCEPT !.remote.candidates = @ \cup C]
      BY <1>4, <2>4
    <3>2. u.remote = d /\ C \in SUBSET Candidate
      BY <1>7, <1>8, <2>4, Kinds DEF RemoteDesc
    <3> HIDE DEF C
    <3>3. x = MoreCandidates(u, C)
      BY <3>1 DEF MoreCandidates
    <3>4. /\ x \in WebRtcSession /\ x.accepted = u.accepted /\ x.used = u.used
          /\ x.remote \in RemoteDesc /\ x.remote.candidates = u.remote.candidates \cup C
          /\ x.remote.type = u.remote.type
          /\ x.life = u.life /\ x.certificate = u.certificate /\ x.requests = u.requests
          /\ x.state = u.state /\ x.local = u.local /\ x.rejected = u.rejected
          /\ x.channel = u.channel /\ x.local_set = u.local_set /\ x.remote_set = u.remote_set
      BY <1>7, <3>2, <3>3, RemoteKept
    <3> QED
      BY <1>7, <1>8, <2>4, <3>2, <3>4 DEF C
  <2> QED
    BY <2>1, <2>2, <2>3, <2>4
<1>10. s.state # "CLOSED" /\ (d.type # "offer" => s.channel /\ s.local.type = "offer")
  BY DEF ExpectSetRemoteDescription, SessionOK, HasDescriptions, HasChannel
<1>11. x.remote # NoDesc
  BY <1>9, Kinds
<1>12. HasDescriptions(x)
  <2>1. s.state \in {"RECEIVEDOFFER", "SENTPRANSWER"} => d.type = "offer"
    BY DEF ExpectSetRemoteDescription
  <2>2. d.type # "offer" => s.local # NoDesc
    BY <1>10, Kinds
  <2>3. t.state \in {s.state, NextState(d.type, "REMOTE")}
    BY <1>2, <1>3 DEF Updates
  <2>4. CASE x.state = s.state
    BY <1>8, <1>9, <1>11, <2>1, <2>4 DEF SessionOK, HasDescriptions
  <2>5. CASE x.state = NextState(d.type, "REMOTE")
    <3>1. CASE d.type = "offer"
      BY <1>8, <1>9, <2>5, <3>1 DEF NextState, HasDescriptions
    <3>2. CASE d.type # "offer"
      <4>1. x.state \in {"RECEIVEDPRANSWER", "INPROGRESS"}
        BY <1>1, <2>5, <3>2 DEF NextState, Types
      <4> QED
        BY <1>8, <1>9, <1>10, <1>11, <2>2, <3>2, <4>1 DEF HasDescriptions
    <3> QED
      BY <3>1, <3>2
  <2> QED
    BY <1>9, <2>3, <2>4, <2>5
<1>13. HasChannel(x)
  <2>1. CASE outcome \in {"ok", "content"}
    <3>1. t.channel = (s.channel \/ d.type = "offer")
      BY <1>2, <1>3, <2>1 DEF Updates
    <3>2. t.channel
      BY <1>10, <3>1
    <3> QED
      BY <1>9, <3>2 DEF HasChannel
  <2>2. CASE outcome \notin {"ok", "content"}
    <3>1. t.state = s.state /\ (s.channel => t.channel) /\ t.local_set = s.local_set /\ t.remote_set = s.remote_set
      BY <1>2, <1>3, <2>2 DEF Updates
    <3> QED
      BY <1>9, <3>1 DEF HasChannel, SessionOK
  <2> QED
    BY <2>1, <2>2
<1>14. ASSUME ~x.rejected PROVE Negotiated(x)
  <2>1. t.rejected = (s.rejected \/ outcome # "ok")
    BY <1>2, <1>3 DEF Updates
  <2>2. outcome = "ok" /\ ~s.rejected
    BY <1>9, <1>14, <2>1
  <2>3. t.local_set = (s.local_set \/ "REMOTE" = "LOCAL") /\ t.remote_set = (s.remote_set \/ "REMOTE" = "REMOTE")
    BY <1>2, <1>3, <2>2 DEF Updates
  <2>4. t.remote_set /\ t.local_set = s.local_set
    BY <2>3, Kinds
  <2>5. Negotiated(s)
    BY <2>2 DEF SessionOK
  <2>6. x.state # "CLOSED" => (x.local # NoDesc => x.local_set) /\ x.remote_set
    BY <1>8, <1>9, <1>10, <2>4, <2>5 DEF Negotiated
  <2>7. x.accepted \subseteq x.remote.candidates
    BY <1>9, <2>2, <2>5 DEF Negotiated
  <2>8. x.local_set /\ x.remote_set => x.accepted \subseteq x.used
    BY <1>8, <1>9, <1>10, <2>2, <2>4, <2>5 DEF Negotiated
  <2> QED
    BY <1>11, <2>6, <2>7, <2>8 DEF Negotiated
<1> QED
  BY <1>8, <1>9, <1>12, <1>13, <1>14 DEF Keeps, SessionOK, x


LEMMA ProcessIceLemma ==
  ASSUME NEW s \in WebRtcSession, SessionOK(s), s.remote # NoDesc, NEW c \in Candidates
  PROVE  Keeps(s, ProcessIceMessage(s, c))
<1> DEFINE k == <<c, s.remote.ufrag>>
           w == MoreCandidates(s, {k})
           r == [w EXCEPT !.accepted = w.accepted \cup {k}]
           u == ProcessIceMessage(s, c)
<1>1. s.remote \in RemoteDesc /\ k \in Candidate
  BY Kinds DEF RemoteDesc, Candidate
<1>2. {k} \in SUBSET Candidate
  BY <1>1
<1>3. u = UseCandidates([s EXCEPT !.remote.candidates = @ \cup {k}, !.accepted = @ \cup {k}], {k})
  BY DEF ProcessIceMessage
<1>4. [s EXCEPT !.remote.candidates = @ \cup {k}, !.accepted = @ \cup {k}] = r
  BY DEF WebRtcSession, MoreCandidates
<1> HIDE DEF k, w, u
<1>5. /\ w \in WebRtcSession /\ w.accepted = s.accepted /\ w.used = s.used
      /\ w.remote \in RemoteDesc /\ w.remote.candidates = s.remote.candidates \cup {k}
      /\ w.remote.type = s.remote.type
      /\ w.life = s.life /\ w.certificate = s.certificate /\ w.requests = s.requests
      /\ w.state = s.state /\ w.local = s.local /\ w.rejected = s.rejected
      /\ w.channel = s.channel /\ w.local_set = s.local_set /\ w.remote_set = s.remote_set
  BY <1>1, <1>2, RemoteKept DEF w
<1>6. w.accepted \cup {k} \in SUBSET Candidate
  BY <1>2, <1>5 DEF WebRtcSession
<1>7. /\ r \in WebRtcSession /\ r.accepted = w.accepted \cup {k} /\ r.used = w.used
      /\ r.remote = w.remote /\ r.local = w.local /\ r.state = w.state /\ r.rejected = w.rejected
      /\ r.life = w.life /\ r.certificate = w.certificate /\ r.requests = w.requests
      /\ r.channel = w.channel /\ r.local_set = w.local_set /\ r.remote_set = w.remote_set
  BY <1>5, <1>6 DEF WebRtcSession
<1> HIDE DEF r
<1>8. Uses(r, u, {k})
  BY <1>2, <1>3, <1>4, <1>7, UseLemma
<1>9. /\ u \in WebRtcSession
      /\ u.life = s.life /\ u.certificate = s.certificate /\ u.requests = s.requests
      /\ u.state = s.state /\ u.local = s.local /\ u.remote = w.remote /\ u.rejected = s.rejected
      /\ u.channel = s.channel /\ u.local_set = s.local_set /\ u.remote_set = s.remote_set
      /\ u.accepted = s.accepted \cup {k} /\ s.used \subseteq u.used
      /\ s.channel /\ s.local_set /\ s.remote_set => {k} \subseteq u.used
  BY <1>5, <1>7, <1>8 DEF Uses
<1>10. u.remote # NoDesc
  BY <1>5, <1>9, Kinds
<1>11. HasDescriptions(u)
  BY <1>5, <1>9, <1>10 DEF SessionOK, HasDescriptions
<1>12. HasChannel(u)
  BY <1>9 DEF SessionOK, HasChannel
<1>13. ASSUME ~u.rejected PROVE Negotiated(u)
  <2>1. Negotiated(s)
    BY <1>9, <1>13 DEF SessionOK
  <2>2. u.accepted \subseteq u.remote.candidates
    BY <1>5, <1>9, <2>1 DEF Negotiated
  <2>3. u.local_set /\ u.remote_set => u.accepted \subseteq u.used
    <3>1. s.local_set /\ s.remote_set => s.channel /\ s.accepted \subseteq s.used
      BY <2>1 DEF Negotiated, SessionOK, HasChannel
    <3> QED
      BY <1>9, <3>1
  <2>4. u.state # "CLOSED" => (u.local # NoDesc => u.local_set) /\ (u.remote # NoDesc => u.remote_set)
    BY <1>9, <2>1 DEF Negotiated
  <2> QED
    BY <1>10, <2>2, <2>3, <2>4 DEF Negotiated
<1> QED
  BY <1>9, <1>11, <1>12, <1>13 DEF Keeps, SessionOK, u

LEMMA CloseLemma ==
  ASSUME NEW s \in WebRtcSession, SessionOK(s)
  PROVE  Keeps(s, [s EXCEPT !.state = "CLOSED", !.channel = FALSE, !.local_set = FALSE,
                            !.remote_set = FALSE, !.used = {}])
<1> DEFINE u == [s EXCEPT !.state = "CLOSED", !.channel = FALSE, !.local_set = FALSE,
                          !.remote_set = FALSE, !.used = {}]
<1>1. /\ u \in WebRtcSession
      /\ u.life = s.life /\ u.certificate = s.certificate /\ u.requests = s.requests
      /\ u.state = "CLOSED" /\ u.local = s.local /\ u.remote = s.remote /\ u.rejected = s.rejected
      /\ u.local_set = FALSE /\ u.remote_set = FALSE /\ u.accepted = s.accepted
  BY DEF WebRtcSession, States
<1> HIDE DEF u
<1>2. HasDescriptions(u) /\ HasChannel(u)
  BY <1>1 DEF HasDescriptions, HasChannel
<1>3. ~u.rejected => Negotiated(u)
  BY <1>1 DEF SessionOK, Negotiated
<1> QED
  BY <1>1, <1>2, <1>3 DEF Keeps, SessionOK, u

\* A session that was just created, or not yet.
LEMMA NewSessionLemma ==
  ASSUME NEW c \in CertificateStates
  PROVE  /\ NewSession(c) \in WebRtcSession /\ SessionOK(NewSession(c))
         /\ [NewSession(c) EXCEPT !.life = "none"] \in WebRtcSession
         /\ SessionOK([NewSession(c) EXCEPT !.life = "none"])
<1> DEFINE s == NewSession(c)
           t == [s EXCEPT !.life = "none"]
<1>1. s \in WebRtcSession
  BY DEF NewSession, WebRtcSession, States
<1>2. /\ s.state = "INIT" /\ s.local_set = FALSE /\ s.remote_set = FALSE /\ s.accepted = {}
      /\ s.local = NoDesc /\ s.remote = NoDesc
  BY DEF NewSession
<1> HIDE DEF s
<1>3. /\ t \in WebRtcSession
      /\ t.state = "INIT" /\ t.local_set = FALSE /\ t.remote_set = FALSE /\ t.accepted = {}
      /\ t.local = NoDesc /\ t.remote = NoDesc
  BY <1>1, <1>2 DEF WebRtcSession
<1>4. SessionOK(s)
  BY <1>2 DEF SessionOK, HasDescriptions, HasChannel, Negotiated
<1> HIDE DEF t
<1>5. SessionOK(t)
  BY <1>3 DEF SessionOK, HasDescriptions, HasChannel, Negotiated
<1> QED
  BY <1>1, <1>3, <1>4, <1>5 DEF s, t


-----------------------------------------------------------------------------
(* Requests and their answers *)

\* The requests that messages q answer, each once; and those that wait in rs.
AnswerIds(q) == {q[i].id : i \in {j \in DOMAIN q : q[j].kind = "CREATED"}}
AnswersOnce(q) ==
  \A i, j \in DOMAIN q :
    q[i].kind = "CREATED" /\ q[j].kind = "CREATED" /\ q[i].id = q[j].id => i = j
RequestIds(rs) == {rs[i].id : i \in DOMAIN rs}
RequestsOnce(rs) == \A i, j \in DOMAIN rs : rs[i].id = rs[j].id => i = j
Once(c) == \A i, j \in DOMAIN c : c[i] = c[j] => i = j

LEMMA Members ==
  /\ \A q, n : n \in AnswerIds(q) <=> \E i \in DOMAIN q : q[i].kind = "CREATED" /\ q[i].id = n
  /\ \A rs, n : n \in RequestIds(rs) <=> \E i \in DOMAIN rs : rs[i].id = n
  /\ \A c, n : n \in Range(c) <=> \E i \in DOMAIN c : c[i] = n
  BY DEF AnswerIds, RequestIds, Range

LEMMA ConcatFacts ==
  ASSUME NEW A, NEW q \in Seq(A), NEW m \in Seq(A)
  PROVE  /\ q \o m \in Seq(A) /\ Len(q \o m) = Len(q) + Len(m) /\ Len(q) \in Nat /\ Len(m) \in Nat
         /\ DOMAIN (q \o m) = 1 .. Len(q) + Len(m) /\ DOMAIN q = 1 .. Len(q) /\ DOMAIN m = 1 .. Len(m)
         /\ \A i \in 1 .. Len(q) : i \in 1 .. Len(q) + Len(m) /\ (q \o m)[i] = q[i]
         /\ \A i \in 1 .. Len(m) : Len(q) + i \in 1 .. Len(q) + Len(m) /\ (q \o m)[Len(q) + i] = m[i]
         /\ \A i \in 1 .. Len(q) + Len(m) :
              i \in 1 .. Len(q) \/ (i - Len(q) \in 1 .. Len(m) /\ (q \o m)[i] = m[i - Len(q)])
<1>1. /\ q \o m \in Seq(A) /\ Len(q \o m) = Len(q) + Len(m) /\ Len(q) \in Nat /\ Len(m) \in Nat
      /\ DOMAIN (q \o m) = 1 .. Len(q) + Len(m) /\ DOMAIN q = 1 .. Len(q) /\ DOMAIN m = 1 .. Len(m)
  OBVIOUS
<1>2. \A i \in 1 .. Len(q) + Len(m) : (q \o m)[i] = IF i <= Len(q) THEN q[i] ELSE m[i - Len(q)]
  OBVIOUS
<1> QED
  BY <1>1, <1>2

LEMMA ConcatAnswers ==
  ASSUME NEW q \in Seq(Message), NEW m \in Seq(Message)
  PROVE  /\ q \o m \in Seq(Message)
         /\ AnswerIds(q \o m) = AnswerIds(q) \cup AnswerIds(m)
         /\ AnswersOnce(q) /\ AnswersOnce(m) /\ AnswerIds(q) \cap AnswerIds(m) = {} => AnswersOnce(q \o m)
         /\ Range(q \o m) = Range(q) \cup Range(m)
<1> DEFINE k == q \o m
           a == Len(q)
           b == Len(m)
<1>1. /\ k \in Seq(Message) /\ a \in Nat /\ b \in Nat
      /\ DOMAIN k = 1 .. a + b /\ DOMAIN q = 1 .. a /\ DOMAIN m = 1 .. b
      /\ \A i \in 1 .. a : i \in 1 .. a + b /\ k[i] = q[i]
      /\ \A i \in 1 .. b : a + i \in 1 .. a + b /\ k[a + i] = m[i]
      /\ \A i \in 1 .. a + b : i \in 1 .. a \/ (i - a \in 1 .. b /\ k[i] = m[i - a])
  BY ConcatFacts
<1> HIDE DEF k, a, b
<1>2. AnswerIds(k) = AnswerIds(q) \cup AnswerIds(m)
  <2>1. ASSUME NEW n, n \in AnswerIds(k) PROVE n \in AnswerIds(q) \cup AnswerIds(m)
    BY <1>1, <2>1, Members
  <2>2. ASSUME NEW n, n \in AnswerIds(q) PROVE n \in AnswerIds(k)
    BY <1>1, <2>2, Members
  <2>3. ASSUME NEW n, n \in AnswerIds(m) PROVE n \in AnswerIds(k)
    <3>1. PICK i \in 1 .. b : m[i].kind = "CREATED" /\ m[i].id = n
      BY <1>1, <2>3, Members
    <3>2. a + i \in DOMAIN k /\ k[a + i] = m[i]
      BY <1>1
    <3> QED
      BY <3>1, <3>2, Members
  <2> QED
    BY <2>1, <2>2, <2>3
<1>3. Range(k) = Range(q) \cup Range(m)
  <2>1. ASSUME NEW n, n \in Range(k) PROVE n \in Range(q) \cup Range(m)
    BY <1>1, <2>1, Members
  <2>2. ASSUME NEW n, n \in Range(q) PROVE n \in Range(k)
    BY <1>1, <2>2, Members
  <2>3. ASSUME NEW n, n \in Range(m) PROVE n \in Range(k)
    BY <1>1, <2>3, Members
  <2> QED
    BY <2>1, <2>2, <2>3
<1>4. ASSUME AnswersOnce(q), AnswersOnce(m), AnswerIds(q) \cap AnswerIds(m) = {} PROVE AnswersOnce(k)
  <2> SUFFICES ASSUME NEW i \in 1 .. a + b, NEW j \in 1 .. a + b, k[i].kind = "CREATED",
                      k[j].kind = "CREATED", k[i].id = k[j].id
               PROVE  i = j
    BY <1>1 DEF AnswersOnce
  <2>1. CASE i \in 1 .. a /\ j \in 1 .. a
    BY <1>1, <1>4, <2>1 DEF AnswersOnce
  <2>2. CASE i \in 1 .. a /\ j \notin 1 .. a
    <3>1. k[i].id \in AnswerIds(q) /\ k[i].id \in AnswerIds(m)
      BY <1>1, <2>2, Members
    <3> QED
      BY <1>4, <3>1
  <2>3. CASE i \notin 1 .. a /\ j \in 1 .. a
    <3>1. k[i].id \in AnswerIds(q) /\ k[i].id \in AnswerIds(m)
      BY <1>1, <2>3, Members
    <3> QED
      BY <1>4, <3>1
  <2>4. CASE i \notin 1 .. a /\ j \notin 1 .. a
    <3>1. i - a \in 1 .. b /\ k[i] = m[i - a] /\ j - a \in 1 .. b /\ k[j] = m[j - a]
      BY <1>1, <2>4
    <3>2. i - a = j - a
      BY <1>1, <1>4, <3>1 DEF AnswersOnce
    <3> QED
      BY <1>1, <3>2
  <2> QED
    BY <2>1, <2>2, <2>3, <2>4
<1> QED
  BY <1>1, <1>2, <1>3, <1>4 DEF k

LEMMA ConcatOnce ==
  ASSUME NEW q \in Seq(Nat), NEW m \in Seq(Nat)
  PROVE  /\ q \o m \in Seq(Nat) /\ Range(q \o m) = Range(q) \cup Range(m)
         /\ Once(q) /\ Once(m) /\ Range(q) \cap Range(m) = {} => Once(q \o m)
<1> DEFINE k == q \o m
           a == Len(q)
           b == Len(m)
<1>1. /\ k \in Seq(Nat) /\ a \in Nat /\ b \in Nat
      /\ DOMAIN k = 1 .. a + b /\ DOMAIN q = 1 .. a /\ DOMAIN m = 1 .. b
      /\ \A i \in 1 .. a : i \in 1 .. a + b /\ k[i] = q[i]
      /\ \A i \in 1 .. b : a + i \in 1 .. a + b /\ k[a + i] = m[i]
      /\ \A i \in 1 .. a + b : i \in 1 .. a \/ (i - a \in 1 .. b /\ k[i] = m[i - a])
  BY ConcatFacts
<1> HIDE DEF k, a, b
<1>2. Range(k) = Range(q) \cup Range(m)
  <2>1. ASSUME NEW n, n \in Range(k) PROVE n \in Range(q) \cup Range(m)
    BY <1>1, <2>1, Members
  <2>2. ASSUME NEW n, n \in Range(q) PROVE n \in Range(k)
    BY <1>1, <2>2, Members
  <2>3. ASSUME NEW n, n \in Range(m) PROVE n \in Range(k)
    BY <1>1, <2>3, Members
  <2> QED
    BY <2>1, <2>2, <2>3
<1>3. ASSUME Once(q), Once(m), Range(q) \cap Range(m) = {} PROVE Once(k)
  <2> SUFFICES ASSUME NEW i \in 1 .. a + b, NEW j \in 1 .. a + b, k[i] = k[j] PROVE i = j
    BY <1>1 DEF Once
  <2>1. CASE i \in 1 .. a /\ j \in 1 .. a
    BY <1>1, <1>3, <2>1 DEF Once
  <2>2. CASE i \in 1 .. a /\ j \notin 1 .. a
    BY <1>1, <1>3, <2>2 DEF Range
  <2>3. CASE i \notin 1 .. a /\ j \in 1 .. a
    BY <1>1, <1>3, <2>3 DEF Range
  <2>4. CASE i \notin 1 .. a /\ j \notin 1 .. a
    <3>1. i - a \in 1 .. b /\ k[i] = m[i - a] /\ j - a \in 1 .. b /\ k[j] = m[j - a]
      BY <1>1, <2>4
    <3>2. i - a = j - a
      BY <1>1, <1>3, <3>1 DEF Once
    <3> QED
      BY <1>1, <3>2
  <2> QED
    BY <2>1, <2>2, <2>3, <2>4
<1> QED
  BY <1>1, <1>2, <1>3 DEF k


LEMMA TailAnswers ==
  ASSUME NEW q \in Seq(Message), q # << >>
  PROVE  /\ Tail(q) \in Seq(Message) /\ Head(q) \in Message
         /\ Range(q) = Range(Tail(q)) \cup {Head(q)}
         /\ AnswersOnce(q) => AnswersOnce(Tail(q))
         /\ Head(q).kind # "CREATED" => AnswerIds(q) = AnswerIds(Tail(q))
         /\ Head(q).kind = "CREATED" =>
              /\ AnswerIds(q) = AnswerIds(Tail(q)) \cup {Head(q).id}
              /\ AnswersOnce(q) => Head(q).id \notin AnswerIds(Tail(q))
<1> DEFINE t == Tail(q)
           h == Head(q)
           a == Len(q)
<1>1. /\ t \in Seq(Message) /\ h \in Message /\ a \in Nat /\ a > 0
      /\ DOMAIN q = 1 .. a /\ DOMAIN t = 1 .. a - 1
      /\ h = q[1] /\ \A i \in 1 .. a - 1 : t[i] = q[i + 1]
  BY TailFacts
<1> HIDE DEF t, h, a
<1>2. /\ 1 \in DOMAIN q
      /\ \A i \in DOMAIN t : i + 1 \in DOMAIN q /\ i + 1 # 1 /\ q[i + 1] = t[i]
      /\ \A i \in DOMAIN q : i = 1 \/ (i - 1 \in DOMAIN t /\ t[i - 1] = q[i])
  BY <1>1
<1>3. Range(q) = Range(t) \cup {h}
  <2>1. ASSUME NEW n, n \in Range(q) PROVE n \in Range(t) \cup {h}
    BY <1>1, <1>2, <2>1, Members
  <2>2. ASSUME NEW n, n \in Range(t) PROVE n \in Range(q)
    BY <1>2, <2>2, Members
  <2>3. h \in Range(q)
    BY <1>1, <1>2, Members
  <2> QED
    BY <2>1, <2>2, <2>3
<1>4. ASSUME AnswersOnce(q) PROVE AnswersOnce(t)
  <2> SUFFICES ASSUME NEW i \in DOMAIN t, NEW j \in DOMAIN t, t[i].kind = "CREATED",
                      t[j].kind = "CREATED", t[i].id = t[j].id
               PROVE  i = j
    BY DEF AnswersOnce
  <2>1. i + 1 = j + 1
    BY <1>2, <1>4 DEF AnswersOnce
  <2> QED
    BY <1>1, <2>1
<1>5. \A n : n \in AnswerIds(t) => n \in AnswerIds(q)
  BY <1>2, Members
<1>6. \A n : n \in AnswerIds(q) => n \in AnswerIds(t) \/ (h.kind = "CREATED" /\ n = h.id)
  BY <1>1, <1>2, Members
<1>7. h.kind = "CREATED" => h.id \in AnswerIds(q)
  BY <1>1, <1>2, Members
<1>8. ASSUME h.kind = "CREATED", AnswersOnce(q), h.id \in AnswerIds(t) PROVE FALSE
  <2>1. PICK i \in DOMAIN t : t[i].kind = "CREATED" /\ t[i].id = h.id
    BY <1>8, Members
  <2>2. i + 1 \in DOMAIN q /\ i + 1 # 1 /\ q[i + 1] = t[i]
    BY <1>2
  <2>3. 1 \in DOMAIN q /\ q[1] = h
    BY <1>1, <1>2
  <2> QED
    BY <1>8, <2>1, <2>2, <2>3 DEF AnswersOnce
<1>9. h.kind # "CREATED" => AnswerIds(q) = AnswerIds(t)
  BY <1>5, <1>6
<1>10. h.kind = "CREATED" => AnswerIds(q) = AnswerIds(t) \cup {h.id}
  BY <1>5, <1>6, <1>7
<1> QED
  BY <1>1, <1>3, <1>4, <1>8, <1>9, <1>10 DEF t, h

LEMMA KeptAnswers ==
  ASSUME NEW q \in Seq(Message), NEW S
  PROVE  /\ Kept(q, S) \in Seq(Message)
         /\ Range(Kept(q, S)) = Range(q) \cap S
         /\ AnswersOnce(q) => AnswersOnce(Kept(q, S))
<1> DEFINE k == Kept(q, S)
<1>1. k \in Seq(Message)
  BY KeptLemma
<1>2. PICK e : Selects(q, S, Len(q), k, e)
  BY KeptLemma
<1> HIDE DEF k
<1>3. DOMAIN q = 1 .. Len(q) /\ DOMAIN k = 1 .. Len(k) /\ Len(k) \in Nat /\ Len(q) \in Nat
  BY <1>1
<1>4. /\ \A i \in DOMAIN k : e[i] \in DOMAIN q /\ k[i] = q[e[i]] /\ q[e[i]] \in S
      /\ \A i \in DOMAIN q : q[i] \in S => \E j \in DOMAIN k : e[j] = i
  BY <1>2, <1>3 DEF Selects
<1>5. \A i, j \in DOMAIN k : e[i] = e[j] => i = j
  <2> SUFFICES ASSUME NEW i \in DOMAIN k, NEW j \in DOMAIN k, e[i] = e[j] PROVE i = j
    OBVIOUS
  <2>1. (i < j => e[i] < e[j]) /\ (j < i => e[j] < e[i])
    BY <1>2, <1>3 DEF Selects
  <2>2. e[i] \in Nat /\ i \in Nat /\ j \in Nat
    BY <1>3, <1>4
  <2> QED
    BY <2>1, <2>2
<1>6. Range(k) = Range(q) \cap S
  <2>1. ASSUME NEW n, n \in Range(k) PROVE n \in Range(q) \cap S
    BY <1>4, <2>1, Members
  <2>2. ASSUME NEW n, n \in Range(q), n \in S PROVE n \in Range(k)
    BY <1>4, <2>2, Members
  <2> QED
    BY <2>1, <2>2
<1>7. ASSUME AnswersOnce(q) PROVE AnswersOnce(k)
  BY <1>4, <1>5, <1>7 DEF AnswersOnce
<1> QED
  BY <1>1, <1>6, <1>7 DEF k

\* The answers are a matter of the messages alone.
LEMMA RangeAnswers ==
  ASSUME NEW q
  PROVE  \A n : n \in AnswerIds(q) <=> \E m \in Range(q) : m.kind = "CREATED" /\ m.id = n
<1> SUFFICES ASSUME NEW n
             PROVE  n \in AnswerIds(q) <=> \E m \in Range(q) : m.kind = "CREATED" /\ m.id = n
  OBVIOUS
<1>1. ASSUME n \in AnswerIds(q) PROVE \E m \in Range(q) : m.kind = "CREATED" /\ m.id = n
  <2>1. PICK i \in DOMAIN q : q[i].kind = "CREATED" /\ q[i].id = n
    BY <1>1, Members
  <2>2. q[i] \in Range(q)
    BY Members
  <2> QED
    BY <2>1, <2>2
<1>2. ASSUME NEW m \in Range(q), m.kind = "CREATED", m.id = n PROVE n \in AnswerIds(q)
  <2>1. PICK i \in DOMAIN q : q[i] = m
    BY <1>2, Members
  <2> QED
    BY <1>2, <2>1, Members
<1> QED
  BY <1>1, <1>2


LEMMA OneMessage ==
  ASSUME NEW q, AnswersOnce(q), NEW m \in Range(q), NEW n \in Range(q),
         m.kind = "CREATED", n.kind = "CREATED", m.id = n.id
  PROVE  m = n
<1>1. PICK i \in DOMAIN q : q[i] = m
  BY Members
<1>2. PICK j \in DOMAIN q : q[j] = n
  BY Members
<1>3. i = j
  BY <1>1, <1>2 DEF AnswersOnce
<1> QED
  BY <1>1, <1>2, <1>3

\* The answers to requests rs, ...
LEMMA AnswersFacts ==
  ASSUME NEW p \in Observers, NEW rs \in Seq(Request), NEW msgs, Answers(p, rs, msgs)
  PROVE  /\ msgs \in Seq(Message) /\ \A m \in Range(msgs) : m \in Answer(p)
         /\ AnswerIds(msgs) = RequestIds(rs)
         /\ RequestsOnce(rs) => AnswersOnce(msgs)
         /\ rs = << >> => msgs = << >>
<1>1. /\ msgs \in Seq(Answer(p)) /\ DOMAIN msgs = DOMAIN rs
      /\ \A i \in DOMAIN rs : msgs[i].id = rs[i].id
  BY DEF Answers
<1>2. \A m \in Answer(p) : m \in Message /\ m.kind = "CREATED"
  BY DEF Answer, Message
<1>3. msgs \in Seq(Message)
  BY <1>1, <1>2
<1>4. \A i \in DOMAIN msgs : msgs[i] \in Answer(p) /\ msgs[i].kind = "CREATED"
  BY <1>1, <1>2
<1>5. \A m \in Range(msgs) : m \in Answer(p)
  BY <1>4, Members
<1>6. \A n : n \in AnswerIds(msgs) <=> n \in RequestIds(rs)
  BY <1>1, <1>4, Members
<1>7. RequestsOnce(rs) => AnswersOnce(msgs)
  BY <1>1 DEF RequestsOnce, AnswersOnce
<1>8. rs = << >> => msgs = << >>
  BY DEF Answers
<1> QED
  BY <1>3, <1>5, <1>6, <1>7, <1>8

\* ... and the calls to their observers.
LEMMA IdsFacts ==
  ASSUME NEW q \in Seq(Message), \A m \in Range(q) : m.kind = "CREATED"
  PROVE  /\ Ids(q) \in Seq(Nat) /\ Range(Ids(q)) = AnswerIds(q)
         /\ AnswersOnce(q) => Once(Ids(q))
<1>1. DOMAIN Ids(q) = DOMAIN q /\ \A i \in DOMAIN q : Ids(q)[i] = q[i].id
  BY DEF Ids
<1>2. \A i \in DOMAIN q : q[i].kind = "CREATED" /\ q[i] \in Message
  BY Members
<1>3. \A m \in Message : m.kind = "CREATED" => m.id \in Nat
  BY DEF Message
<1>4. Ids(q) \in Seq(Nat)
  <2>1. DOMAIN q = 1 .. Len(q) /\ Len(q) \in Nat
    OBVIOUS
  <2>2. Ids(q) = [i \in 1 .. Len(q) |-> q[i].id]
    BY <2>1 DEF Ids
  <2>3. \A i \in 1 .. Len(q) : q[i].id \in Nat
    BY <1>2, <1>3, <2>1
  <2> QED
    BY <2>1, <2>2, <2>3
<1>5. \A n : n \in Range(Ids(q)) <=> n \in AnswerIds(q)
  BY <1>1, <1>2, Members
<1>6. AnswersOnce(q) => Once(Ids(q))
  BY <1>1, <1>2 DEF AnswersOnce, Once
<1> QED
  BY <1>4, <1>5, <1>6

LEMMA AppendRequest ==
  ASSUME NEW rs \in Seq(Request), NEW r \in Request
  PROVE  /\ Append(rs, r) \in Seq(Request)
         /\ RequestIds(Append(rs, r)) = RequestIds(rs) \cup {r.id}
         /\ RequestsOnce(rs) /\ r.id \notin RequestIds(rs) => RequestsOnce(Append(rs, r))
<1> DEFINE t == Append(rs, r)
           a == Len(rs)
<1>1. /\ t \in Seq(Request) /\ a \in Nat /\ DOMAIN t = 1 .. a + 1 /\ DOMAIN rs = 1 .. a
      /\ t[a + 1] = r /\ \A i \in 1 .. a : t[i] = rs[i]
  BY AppendFacts
<1> HIDE DEF t, a
<1>2. /\ a + 1 \in DOMAIN t /\ t[a + 1] = r
      /\ \A i \in DOMAIN rs : i \in DOMAIN t /\ t[i] = rs[i]
      /\ \A i \in DOMAIN t : i = a + 1 \/ (i \in DOMAIN rs /\ t[i] = rs[i])
  BY <1>1
<1>3. \A n : n \in RequestIds(t) <=> n \in RequestIds(rs) \/ n = r.id
  <2>1. ASSUME NEW n, n \in RequestIds(t) PROVE n \in RequestIds(rs) \/ n = r.id
    BY <1>2, <2>1, Members
  <2>2. ASSUME NEW n, n \in RequestIds(rs) PROVE n \in RequestIds(t)
    BY <1>2, <2>2, Members
  <2>3. r.id \in RequestIds(t)
    BY <1>2, Members
  <2> QED
    BY <2>1, <2>2, <2>3
<1>4. ASSUME RequestsOnce(rs), r.id \notin RequestIds(rs) PROVE RequestsOnce(t)
  <2>1. \A i \in DOMAIN rs : rs[i].id # r.id
    BY <1>4, Members
  <2> QED
    BY <1>2, <1>4, <2>1 DEF RequestsOnce
<1> QED
  BY <1>1, <1>3, <1>4 DEF t


\* Requests 1 .. n are in one place each: calls C, messages Q or the waiting requests R.
Accounts(C, Q, R, n) ==
  /\ Once(C) /\ AnswersOnce(Q) /\ \A p \in Observers : RequestsOnce(R[p])
  /\ Range(C) \cap AnswerIds(Q) = {}
  /\ \A p \in Observers : RequestIds(R[p]) \cap (Range(C) \cup AnswerIds(Q)) = {}
  /\ \A p, r \in Observers : p # r => RequestIds(R[p]) \cap RequestIds(R[r]) = {}
  /\ \A i : i \in 1 .. n <=> \/ i \in Range(C) \/ i \in AnswerIds(Q)
                             \/ \E p \in Observers : i \in RequestIds(R[p])

LEMMA EmptyRequests == RequestIds(<< >>) = {} /\ RequestsOnce(<< >>) /\ AnswerIds(<< >>) = {} /\ AnswersOnce(<< >>)
                       /\ Range(<< >>) = {} /\ Once(<< >>)
  BY DEF RequestIds, RequestsOnce, AnswerIds, AnswersOnce, Range, Once

\* Messages that answer nothing come and go.
LEMMA SameAnswers ==
  ASSUME NEW C, NEW Q, NEW R, NEW n, Accounts(C, Q, R, n), NEW P, AnswersOnce(P),
         AnswerIds(P) = AnswerIds(Q)
  PROVE  Accounts(C, P, R, n)
  BY DEF Accounts

\* The requests of p are answered by messages, ...
LEMMA AnswersPosted ==
  ASSUME NEW C, NEW Q, NEW R, DOMAIN R = Observers, NEW n, Accounts(C, Q, R, n), NEW p \in Observers,
         NEW P, AnswersOnce(P), AnswerIds(P) = AnswerIds(Q) \cup RequestIds(R[p])
  PROVE  Accounts(C, P, [R EXCEPT ![p] = << >>], n)
<1> DEFINE T == [R EXCEPT ![p] = << >>]
<1>1. RequestIds(T[p]) = {} /\ RequestsOnce(T[p])
  BY EmptyRequests
<1>2. \A r \in Observers : r # p => T[r] = R[r]
  OBVIOUS
<1> HIDE DEF T
<1>3. \A r \in Observers : RequestsOnce(T[r])
  BY <1>1, <1>2 DEF Accounts
<1>4. Range(C) \cap AnswerIds(P) = {}
  BY DEF Accounts
<1>5. \A r \in Observers : RequestIds(T[r]) \cap (Range(C) \cup AnswerIds(P)) = {}
  BY <1>1, <1>2 DEF Accounts
<1>6. \A u, r \in Observers : u # r => RequestIds(T[u]) \cap RequestIds(T[r]) = {}
  BY <1>1, <1>2 DEF Accounts
<1>7. \A i : (\E r \in Observers : i \in RequestIds(R[r]))
               <=> i \in RequestIds(R[p]) \/ \E r \in Observers : i \in RequestIds(T[r])
  BY <1>1, <1>2
<1>8. \A i : i \in 1 .. n <=> \/ i \in Range(C) \/ i \in AnswerIds(P)
                              \/ \E r \in Observers : i \in RequestIds(T[r])
  BY <1>7 DEF Accounts
<1> QED
  BY <1>3, <1>4, <1>5, <1>6, <1>8 DEF Accounts, T

\* ... or their observers are called at once.
LEMMA RequestsCalled ==
  ASSUME NEW C, NEW Q, NEW R, DOMAIN R = Observers, NEW n, Accounts(C, Q, R, n), NEW p \in Observers,
         NEW D, Once(D), Range(D) = Range(C) \cup RequestIds(R[p])
  PROVE  Accounts(D, Q, [R EXCEPT ![p] = << >>], n)
<1> DEFINE T == [R EXCEPT ![p] = << >>]
<1>1. RequestIds(T[p]) = {} /\ RequestsOnce(T[p])
  BY EmptyRequests
<1>2. \A r \in Observers : r # p => T[r] = R[r]
  OBVIOUS
<1> HIDE DEF T
<1>3. \A r \in Observers : RequestsOnce(T[r])
  BY <1>1, <1>2 DEF Accounts
<1>4. Range(D) \cap AnswerIds(Q) = {}
  BY DEF Accounts
<1>5. \A r \in Observers : RequestIds(T[r]) \cap (Range(D) \cup AnswerIds(Q)) = {}
  BY <1>1, <1>2 DEF Accounts
<1>6. \A u, r \in Observers : u # r => RequestIds(T[u]) \cap RequestIds(T[r]) = {}
  BY <1>1, <1>2 DEF Accounts
<1>7. \A i : (\E r \in Observers : i \in RequestIds(R[r]))
               <=> i \in RequestIds(R[p]) \/ \E r \in Observers : i \in RequestIds(T[r])
  BY <1>1, <1>2
<1>8. \A i : i \in 1 .. n <=> \/ i \in Range(D) \/ i \in AnswerIds(Q)
                              \/ \E r \in Observers : i \in RequestIds(T[r])
  BY <1>7 DEF Accounts
<1> QED
  BY <1>3, <1>4, <1>5, <1>6, <1>8 DEF Accounts, T

\* Messages are handled: the observers of the requests they answer are called.
LEMMA AnswersCalled ==
  ASSUME NEW C, NEW Q, NEW R, NEW n, Accounts(C, Q, R, n), NEW D, NEW P, Once(D), AnswersOnce(P),
         NEW I, Range(D) = Range(C) \cup I, AnswerIds(Q) = AnswerIds(P) \cup I, AnswerIds(P) \cap I = {}
  PROVE  Accounts(D, P, R, n)
<1>1. Range(D) \cap AnswerIds(P) = {}
  BY DEF Accounts
<1>2. \A p \in Observers : RequestIds(R[p]) \cap (Range(D) \cup AnswerIds(P)) = {}
  BY DEF Accounts
<1>3. \A i : i \in Range(C) \/ i \in AnswerIds(Q) <=> i \in Range(D) \/ i \in AnswerIds(P)
  OBVIOUS
<1> QED
  BY <1>1, <1>2, <1>3 DEF Accounts

\* Request n + 1 is answered at once, ...
LEMMA NewAnswer ==
  ASSUME NEW C, NEW Q, NEW R, NEW n \in Nat, Accounts(C, Q, R, n), NEW P, AnswersOnce(P),
         AnswerIds(P) = AnswerIds(Q) \cup {n + 1}
  PROVE  Accounts(C, P, R, n + 1)
<1>1. n + 1 \notin 1 .. n /\ 1 .. n + 1 = 1 .. n \cup {n + 1}
  OBVIOUS
<1>2. /\ n + 1 \notin Range(C) /\ n + 1 \notin AnswerIds(Q)
      /\ \A p \in Observers : n + 1 \notin RequestIds(R[p])
  BY <1>1 DEF Accounts
<1>3. Range(C) \cap AnswerIds(P) = {}
  BY <1>2 DEF Accounts
<1>4. \A p \in Observers : RequestIds(R[p]) \cap (Range(C) \cup AnswerIds(P)) = {}
  <2> SUFFICES ASSUME NEW p \in Observers
               PROVE  RequestIds(R[p]) \cap (Range(C) \cup AnswerIds(P)) = {}
    OBVIOUS
  <2>1. RequestIds(R[p]) \cap (Range(C) \cup AnswerIds(Q)) = {} /\ n + 1 \notin RequestIds(R[p])
    BY <1>2 DEF Accounts
  <2> QED
    BY <2>1
<1>5. \A i : i \in 1 .. n + 1 <=> i \in 1 .. n \/ i = n + 1
  BY <1>1
<1>6. \A i : i \in 1 .. n + 1 <=> \/ i \in Range(C) \/ i \in AnswerIds(P)
                                  \/ \E p \in Observers : i \in RequestIds(R[p])
  BY <1>5 DEF Accounts
<1> QED
  BY <1>3, <1>4, <1>6 DEF Accounts

\* ... or waits.
LEMMA NewRequest ==
  ASSUME NEW C, NEW Q, NEW R, DOMAIN R = Observers, NEW n \in Nat, Accounts(C, Q, R, n),
         NEW p \in Observers, NEW rs, RequestsOnce(rs), RequestIds(rs) = RequestIds(R[p]) \cup {n + 1}
  PROVE  Accounts(C, Q, [R EXCEPT ![p] = rs], n + 1)
<1> DEFINE T == [R EXCEPT ![p] = rs]
<1>1. n + 1 \notin 1 .. n /\ 1 .. n + 1 = 1 .. n \cup {n + 1}
  OBVIOUS
<1>2. /\ n + 1 \notin Range(C) /\ n + 1 \notin AnswerIds(Q)
      /\ \A r \in Observers : n + 1 \notin RequestIds(R[r])
  BY <1>1 DEF Accounts
<1>3. T[p] = rs /\ \A r \in Observers : r # p => T[r] = R[r]
  OBVIOUS
<1> HIDE DEF T
<1>4. \A r \in Observers : RequestsOnce(T[r])
  BY <1>3 DEF Accounts
<1>5. \A r \in Observers : RequestIds(T[r]) \cap (Range(C) \cup AnswerIds(Q)) = {}
  <2> SUFFICES ASSUME NEW r \in Observers
               PROVE  RequestIds(T[r]) \cap (Range(C) \cup AnswerIds(Q)) = {}
    OBVIOUS
  <2>1. RequestIds(R[r]) \cap (Range(C) \cup AnswerIds(Q)) = {}
    BY DEF Accounts
  <2> QED
    BY <1>2, <1>3, <2>1
<1>6. \A u, r \in Observers : u # r => RequestIds(T[u]) \cap RequestIds(T[r]) = {}
  BY <1>2, <1>3 DEF Accounts
<1>7. \A i : (\E r \in Observers : i \in RequestIds(T[r]))
               <=> i = n + 1 \/ \E r \in Observers : i \in RequestIds(R[r])
  BY <1>3
<1>8. \A i : i \in 1 .. n + 1 <=> i \in 1 .. n \/ i = n + 1
  BY <1>1
<1>9. \A i : i \in 1 .. n + 1 <=> \/ i \in Range(C) \/ i \in AnswerIds(Q)
                                  \/ \E r \in Observers : i \in RequestIds(T[r])
  BY <1>7, <1>8 DEF Accounts
<1> QED
  BY <1>4, <1>5, <1>6, <1>9 DEF Accounts, T


-----------------------------------------------------------------------------
(* The steps *)

Waiting == [p \in Observers |-> session[p].requests]

\* What tells p's factory about its certificate is on its way.
Notified(p) ==
  \/ p \in Range(request_observers)
  \/ \E m \in Range(queue) : m.kind = "CERTIFICATE" /\ m.peer = p

WaitInv ==
  \A p \in Observers :
    /\ session[p].requests # << >> => session[p].life = "alive" /\ session[p].certificate = "WAITING"
    /\ session[p].life = "alive" /\ session[p].certificate = "WAITING" => Notified(p)

RequestInv == SessionInv /\ Accounts(called, queue, Waiting, asked) /\ WaitInv

\* A step that changes the session of p to u.
LEMMA ChangeFacts ==
  ASSUME SessionInv, NEW p \in Observers, NEW u \in WebRtcSession, SessionOK(u),
         session' = [session EXCEPT ![p] = u], scenario' = scenario, queue' \in Seq(Message),
         asked' \in Nat, called' \in Seq(Nat), created' \in [Observers -> SUBSET LocalDesc],
         request_observers' \in Seq(Observers)
  PROVE  /\ SessionInv'
         /\ Waiting' = [Waiting EXCEPT ![p] = u.requests] /\ DOMAIN Waiting = Observers
<1>1. session \in [Observers -> WebRtcSession] /\ \A r \in Observers : SessionOK(session[r])
  BY DEF SessionInv, TypeInv
<1>2. session'[p] = u /\ (\A r \in Observers : r # p => session'[r] = session[r])
      /\ session' \in [Observers -> WebRtcSession]
  BY <1>1
<1>3. \A r \in Observers : SessionOK(session'[r])
  BY <1>1, <1>2
<1>4. TypeInv'
  BY <1>2 DEF TypeInv, SessionInv
<1>5. Waiting' = [r \in Observers |-> session'[r].requests]
  BY DEF Waiting
<1>6. Waiting' = [Waiting EXCEPT ![p] = u.requests]
  BY <1>2, <1>5 DEF Waiting
<1> QED
  BY <1>3, <1>4, <1>6 DEF SessionInv, Waiting

LEMMA ChangeWaits ==
  ASSUME WaitInv, session \in [Observers -> WebRtcSession], NEW p \in Observers, NEW u,
         session' = [session EXCEPT ![p] = u],
         u.requests # << >> => u.life = "alive" /\ u.certificate = "WAITING",
         u.life = "alive" /\ u.certificate = "WAITING" => Notified(p)',
         \A r \in Observers : r # p /\ Notified(r) => Notified(r)'
  PROVE  WaitInv'
<1>1. session'[p] = u /\ \A r \in Observers : r # p => session'[r] = session[r]
  OBVIOUS
<1> QED
  BY <1>1 DEF WaitInv

\* A step that concerns neither requests nor messages.
LEMMA KeepsStep ==
  ASSUME RequestInv, NEW p \in Observers, NEW u, Keeps(session[p], u),
         session' = [session EXCEPT ![p] = u],
         UNCHANGED <<scenario, queue, asked, called, created, storeVars>>
  PROVE  RequestInv'
<1>1. /\ SessionInv /\ WaitInv /\ Accounts(called, queue, Waiting, asked)
      /\ session \in [Observers -> WebRtcSession]
  BY DEF RequestInv, SessionInv, TypeInv
<1>2. u \in WebRtcSession /\ SessionOK(u) /\ u.life = session[p].life
      /\ u.certificate = session[p].certificate /\ u.requests = session[p].requests
  BY DEF Keeps
<1>3. /\ scenario' = scenario /\ queue' \in Seq(Message) /\ asked' \in Nat /\ called' \in Seq(Nat)
      /\ created' \in [Observers -> SUBSET LocalDesc] /\ request_observers' \in Seq(Observers)
      /\ queue' = queue /\ called' = called /\ asked' = asked /\ request_observers' = request_observers
  BY <1>1 DEF SessionInv, TypeInv, storeVars
<1>4. SessionInv' /\ Waiting' = [Waiting EXCEPT ![p] = u.requests]
  BY <1>1, <1>2, <1>3, ChangeFacts
<1>5. Waiting' = Waiting
  BY <1>2, <1>4 DEF Waiting
<1>6. \A r \in Observers : Notified(r)' <=> Notified(r)
  BY <1>3 DEF Notified
<1>7. WaitInv'
  BY <1>1, <1>2, <1>6, ChangeWaits DEF WaitInv
<1> QED
  BY <1>1, <1>3, <1>4, <1>5, <1>7 DEF RequestInv

LEMMA OutcomeKinds == \A type : Outcomes(type) \subseteq {"ok", "transport", "content", "channels"}
  BY DEF Outcomes

LEMMA DescriptionStep ==
  ASSUME RequestInv, NEW p \in Observers,
         SetLocalDescription(p) \/ SetRemoteDescription(p) \/ AddIceCandidate(p) \/ Close(p)
  PROVE  RequestInv'
<1> DEFINE s == session[p]
<1>1. s \in WebRtcSession /\ SessionOK(s) /\ created[p] \subseteq LocalDesc /\ scenario \in Scenario
  BY DEF RequestInv, SessionInv, TypeInv
<1>2. UNCHANGED <<scenario, queue, asked, called, created, storeVars>>
  BY DEF SetLocalDescription, SetRemoteDescription, AddIceCandidate, Close, Call
<1>3. CASE SetLocalDescription(p)
  <2>1. PICK d \in created[p], type \in Types : \E outcome \in Outcomes(type) :
          /\ Accepts(s, ExpectSetLocalDescription(s, type))
          /\ session' = [session EXCEPT ![p] = SetLocal(s, [d EXCEPT !.type = type], outcome)]
    BY <1>3 DEF SetLocalDescription
  <2>2. PICK outcome \in Outcomes(type) :
          /\ Accepts(s, ExpectSetLocalDescription(s, type))
          /\ session' = [session EXCEPT ![p] = SetLocal(s, [d EXCEPT !.type = type], outcome)]
    BY <2>1
  <2> DEFINE e == [d EXCEPT !.type = type]
  <2>3. e \in LocalDesc /\ e.type = type
    BY <1>1, <2>1 DEF LocalDesc
  <2>4. ExpectSetLocalDescription(s, type)
    BY <2>2 DEF Accepts
  <2>5. outcome \in {"ok", "transport", "content", "channels"}
    BY <2>2, OutcomeKinds
  <2> HIDE DEF e, s
  <2>6. Keeps(s, SetLocal(s, e, outcome))
    BY <1>1, <2>3, <2>4, <2>5, SetLocalLemma
  <2> QED
    BY <1>2, <2>2, <2>6, KeepsStep DEF e, s
<1>4. CASE SetRemoteDescription(p)
  <2>1. PICK type \in Types, ufrag \in scenario.remote_ufrags : \E outcome \in Outcomes(type) :
          /\ Accepts(s, ExpectSetRemoteDescription(s, type))
          /\ session' = [session EXCEPT ![p] =
               SetRemote(s, [type |-> type, ufrag |-> ufrag, candidates |-> {}], outcome)]
    BY <1>4 DEF SetRemoteDescription
  <2>2. PICK outcome \in Outcomes(type) :
          /\ Accepts(s, ExpectSetRemoteDescription(s, type))
          /\ session' = [session EXCEPT ![p] =
               SetRemote(s, [type |-> type, ufrag |-> ufrag, candidates |-> {}], outcome)]
    BY <2>1
  <2> DEFINE e == [type |-> type, ufrag |-> ufrag, candidates |-> {}]
  <2>3. ufrag \in Nat
    BY <1>1, <2>1 DEF Scenario
  <2>4. e \in RemoteDesc /\ e.type = type /\ e.candidates = {}
    BY <2>1, <2>3 DEF RemoteDesc
  <2>5. ExpectSetRemoteDescription(s, type)
    BY <2>2 DEF Accepts
  <2>6. outcome \in {"ok", "transport", "content", "channels"}
    BY <2>2, OutcomeKinds
  <2> HIDE DEF e, s
  <2>7. Keeps(s, SetRemote(s, e, outcome))
    BY <1>1, <2>4, <2>5, <2>6, SetRemoteLemma
  <2> QED
    BY <1>2, <2>2, <2>7, KeepsStep DEF e, s
<1>5. CASE AddIceCandidate(p)
  <2>1. PICK c \in Candidates : session' = [session EXCEPT ![p] = ProcessIceMessage(s, c)]
    BY <1>5 DEF AddIceCandidate
  <2>2. s.remote # NoDesc
    BY <1>5 DEF AddIceCandidate
  <2> HIDE DEF s
  <2>3. Keeps(s, ProcessIceMessage(s, c))
    BY <1>1, <2>2, ProcessIceLemma
  <2> QED
    BY <1>2, <2>1, <2>3, KeepsStep DEF s
<1>6. CASE Close(p)
  <2> DEFINE u == [s EXCEPT !.state = "CLOSED", !.channel = FALSE, !.local_set = FALSE,
                            !.remote_set = FALSE, !.used = {}]
  <2>1. session' = [session EXCEPT ![p] = u]
    BY <1>6 DEF Close
  <2>2. Keeps(s, u)
    BY <1>1, CloseLemma
  <2> HIDE DEF u
  <2> QED
    BY <1>2, <2>1, <2>2, KeepsStep
<1> QED
  BY <1>3, <1>4, <1>5, <1>6


LEMMA CreateDescriptionLemma ==
  ASSUME NEW p, NEW s \in WebRtcSession, NEW r \in Request, NEW valid \in BOOLEAN, NEW ok \in BOOLEAN
  PROVE  LET x == CreateDescription(p, s, r, valid, ok) IN
         \/ Creates(p, s, r, x)
         \/ /\ s.certificate = "WAITING"
            /\ x = Posting(Served(s, s.certificate, Append(s.requests, r), s.version, s.latch), << >>)
<1> DEFINE x == CreateDescription(p, s, r, valid, ok)
<1>1. CASE s.certificate = "FAILED" \/ ~valid
  <2> DEFINE m == Created(p, r, NoDesc)
  <2>1. x = Posting(s, <<m>>)
    BY <1>1 DEF CreateDescription
  <2>2. m \in Answer(p) /\ m.id = r.id
    BY DEF Created, Answer, Request
  <2>3. s = Served(s, s.certificate, s.requests, s.version, s.latch)
        /\ s.version \in Nat /\ s.latch \in BOOLEAN
    BY DEF Served, WebRtcSession
  <2> HIDE DEF m, x
  <2>4. Creates(p, s, r, x)
    BY <2>1, <2>2, <2>3 DEF Creates
  <2> QED
    BY <2>4 DEF x
<1>2. CASE ~(s.certificate = "FAILED" \/ ~valid) /\ s.certificate = "WAITING"
  <2>1. x = Posting([s EXCEPT !.requests = Append(@, r)], << >>)
    BY <1>2 DEF CreateDescription
  <2>2. [s EXCEPT !.requests = Append(@, r)]
          = Served(s, s.certificate, Append(s.requests, r), s.version, s.latch)
    BY DEF Served, WebRtcSession
  <2> QED
    BY <1>2, <2>1, <2>2
<1>3. CASE ~(s.certificate = "FAILED" \/ ~valid) /\ s.certificate # "WAITING"
  <2>1. x = InternalCreate(p, s, r, ok)
    BY <1>3 DEF CreateDescription
  <2>2. Creates(p, s, r, InternalCreate(p, s, r, ok))
    BY InternalCreateLemma
  <2> QED
    BY <2>1, <2>2
<1> QED
  BY <1>1, <1>2, <1>3

\* A message in the queue is still there when others are added.
LEMMA NotifiedGrows ==
  ASSUME queue \in Seq(Message), NEW msgs \in Seq(Message), queue' = queue \o msgs,
         request_observers' = request_observers
  PROVE  \A r \in Observers : Notified(r) => Notified(r)'
<1>1. Range(queue') = Range(queue) \cup Range(msgs)
  BY ConcatAnswers
<1> QED
  BY <1>1 DEF Notified

LEMMA SingleAnswer ==
  ASSUME NEW p \in Observers, NEW m \in Answer(p)
  PROVE  /\ <<m>> \in Seq(Message) /\ AnswerIds(<<m>>) = {m.id} /\ AnswersOnce(<<m>>)
         /\ m \in Message /\ m.kind = "CREATED"
<1>1. m \in Message /\ m.kind = "CREATED"
  BY DEF Answer, Message
<1>2. DOMAIN <<m>> = {1} /\ <<m>>[1] = m
  OBVIOUS
<1> DEFINE q == <<m>>
<1>3. q \in Seq(Message)
  BY <1>1
<1>4. DOMAIN q = {1} /\ q[1] = m
  BY <1>2
<1> HIDE DEF q
<1>5. AnswersOnce(q)
  BY <1>4 DEF AnswersOnce
<1>6. AnswerIds(q) = {m.id}
  BY <1>1, <1>4, Members
<1> QED
  BY <1>1, <1>3, <1>5, <1>6 DEF q

LEMMA AskStep ==
  ASSUME RequestInv, NEW p \in Observers, NEW r \in Request, r.id = asked + 1,
         NEW valid \in BOOLEAN, NEW ok \in BOOLEAN,
         Becomes(p, CreateDescription(p, session[p], r, valid, ok)), session[p].life = "alive",
         asked' = asked + 1, UNCHANGED <<scenario, called, created, storeVars>>
  PROVE  RequestInv'
<1> DEFINE s == session[p]
           x == CreateDescription(p, s, r, valid, ok)
<1>1. /\ SessionInv /\ WaitInv /\ Accounts(called, queue, Waiting, asked)
      /\ session \in [Observers -> WebRtcSession] /\ s \in WebRtcSession /\ SessionOK(s)
      /\ queue \in Seq(Message) /\ asked \in Nat
  BY DEF RequestInv, SessionInv, TypeInv
<1>2. /\ scenario' = scenario /\ asked' \in Nat /\ called' \in Seq(Nat)
      /\ created' \in [Observers -> SUBSET LocalDesc] /\ request_observers' \in Seq(Observers)
      /\ called' = called /\ request_observers' = request_observers
  BY <1>1 DEF SessionInv, TypeInv, storeVars
<1>3. session' = [session EXCEPT ![p] = x.session] /\ queue' = queue \o x.msgs
  BY DEF Becomes
<1>4. \/ Creates(p, s, r, x)
      \/ /\ s.certificate = "WAITING"
         /\ x = Posting(Served(s, s.certificate, Append(s.requests, r), s.version, s.latch), << >>)
  BY <1>1, CreateDescriptionLemma
<1>5. /\ s.certificate \in CertificateStates /\ s.requests \in Seq(Request)
      /\ s.version \in Nat /\ s.latch \in BOOLEAN
  BY <1>1 DEF WebRtcSession
<1>6. Waiting[p] = s.requests /\ s.life = "alive" /\ DOMAIN Waiting = Observers
  BY DEF Waiting
<1> HIDE DEF x, s
<1>7. CASE Creates(p, s, r, x)
  <2>1. PICK v \in Nat, l \in BOOLEAN, m \in Answer(p) :
          x = Posting(Served(s, s.certificate, s.requests, v, l), <<m>>) /\ m.id = r.id
    BY <1>7 DEF Creates
  <2> DEFINE u == Served(s, s.certificate, s.requests, v, l)
  <2>2. x.session = u /\ x.msgs = <<m>>
    BY <2>1 DEF Posting
  <2>3. /\ u \in WebRtcSession /\ u.certificate = s.certificate /\ u.requests = s.requests
        /\ u.life = s.life /\ SessionOK(u)
    <3> DEFINE c == s.certificate
               q == s.requests
    <3>1. c \in CertificateStates /\ q \in Seq(Request) /\ v \in Nat /\ l \in BOOLEAN
      BY <1>5
    <3> HIDE DEF c, q
    <3>2. Served(s, c, q, v, l) \in WebRtcSession
      BY <1>1, <3>1, ServedFacts
    <3>3. Served(s, c, q, v, l).certificate = c /\ Served(s, c, q, v, l).requests = q
      BY <1>1, <3>1, ServedFacts
    <3>4. Served(s, c, q, v, l).life = s.life
      BY <1>1, <3>1, ServedFacts
    <3>5. SessionOK(Served(s, c, q, v, l))
      BY <1>1, <3>1, ServedFacts
    <3> QED
      BY <3>2, <3>3, <3>4, <3>5 DEF c, q
  <2> HIDE DEF u
  <2>4. <<m>> \in Seq(Message) /\ AnswerIds(<<m>>) = {asked + 1} /\ AnswersOnce(<<m>>)
    BY <2>1, SingleAnswer
  <2>5. asked + 1 \notin AnswerIds(queue)
    BY <1>1 DEF Accounts
  <2>6. queue' \in Seq(Message) /\ AnswersOnce(queue') /\ AnswerIds(queue') = AnswerIds(queue) \cup {asked + 1}
    <3>1. AnswersOnce(queue)
      BY <1>1 DEF Accounts
    <3>2. queue' = queue \o <<m>>
      BY <1>3, <2>2
    <3> QED
      BY <1>1, <2>4, <2>5, <3>1, <3>2, ConcatAnswers
  <2>7. Accounts(called, queue', Waiting, asked + 1)
    BY <1>1, <2>6, NewAnswer
  <2>8. SessionInv' /\ Waiting' = [Waiting EXCEPT ![p] = u.requests]
    BY <1>1, <1>2, <1>3, <2>2, <2>3, <2>6, ChangeFacts
  <2>9. Waiting' = Waiting
    BY <2>3, <2>8 DEF Waiting, s
  <2>10. \A o \in Observers : Notified(o) => Notified(o)'
    BY <1>1, <1>2, <1>3, <2>2, <2>4, NotifiedGrows
  <2>11. WaitInv'
    BY <1>1, <1>3, <2>2, <2>3, <2>10, ChangeWaits DEF WaitInv, s
  <2> QED
    BY <1>2, <2>7, <2>8, <2>9, <2>11 DEF RequestInv
<1>8. CASE /\ s.certificate = "WAITING"
           /\ x = Posting(Served(s, s.certificate, Append(s.requests, r), s.version, s.latch), << >>)
  <2> DEFINE rs == Append(s.requests, r)
             u == Served(s, s.certificate, rs, s.version, s.latch)
  <2>1. x.session = u /\ x.msgs = << >>
    BY <1>8 DEF Posting
  <2>2. asked + 1 \notin RequestIds(s.requests) /\ RequestsOnce(s.requests)
    BY <1>1, <1>6 DEF Accounts
  <2>3. rs \in Seq(Request) /\ RequestIds(rs) = RequestIds(s.requests) \cup {asked + 1} /\ RequestsOnce(rs)
    BY <1>5, <2>2, AppendRequest
  <2> HIDE DEF rs
  <2>4. /\ u \in WebRtcSession /\ u.certificate = s.certificate /\ u.requests = rs
        /\ u.life = s.life /\ SessionOK(u)
    BY <1>1, <1>5, <2>3, ServedFacts
  <2> HIDE DEF u
  <2>5. queue' = queue /\ queue' \in Seq(Message)
    BY <1>1, <1>3, <2>1
  <2>6. SessionInv' /\ Waiting' = [Waiting EXCEPT ![p] = u.requests]
    BY <1>1, <1>2, <1>3, <2>1, <2>4, <2>5, ChangeFacts
  <2>7. Accounts(called, queue, [Waiting EXCEPT ![p] = rs], asked + 1)
    BY <1>1, <1>6, <2>3, NewRequest
  <2>8. \A o \in Observers : Notified(o) <=> Notified(o)'
    BY <1>2, <2>5 DEF Notified
  <2>9. Notified(p)
    BY <1>1, <1>6, <1>8 DEF WaitInv, s
  <2>10. WaitInv'
    BY <1>1, <1>3, <1>6, <1>8, <2>1, <2>4, <2>8, <2>9, ChangeWaits
  <2> QED
    BY <1>2, <2>4, <2>5, <2>6, <2>7, <2>10 DEF RequestInv
<1> QED
  BY <1>4, <1>7, <1>8


LEMMA CreateStep ==
  ASSUME RequestInv, NEW p \in Observers, CreateOffer(p) \/ CreateAnswer(p)
  PROVE  RequestInv'
<1>1. asked \in Nat /\ Fine \subseteq BOOLEAN
  BY DEF RequestInv, SessionInv, TypeInv, Fine
<1>2. /\ session[p].life = "alive" /\ asked' = asked + 1
      /\ UNCHANGED <<scenario, called, created, storeVars>>
  BY DEF CreateOffer, CreateAnswer, Call
<1>3. CASE CreateOffer(p)
  <2>1. PICK restart \in BOOLEAN, valid \in Fine, ok \in Fine :
          Becomes(p, CreateDescription(p, session[p],
            [type |-> "offer", id |-> asked + 1, restart |-> restart], valid, ok))
    BY <1>3 DEF CreateOffer
  <2> DEFINE r == [type |-> "offer", id |-> asked + 1, restart |-> restart]
  <2>2. r \in Request /\ r.id = asked + 1
    BY <1>1, <2>1 DEF Request
  <2>3. valid \in BOOLEAN /\ ok \in BOOLEAN
    BY <1>1, <2>1
  <2>4. Becomes(p, CreateDescription(p, session[p], r, valid, ok))
    BY <2>1
  <2> HIDE DEF r
  <2> QED
    BY <1>2, <2>2, <2>3, <2>4, AskStep
<1>4. CASE CreateAnswer(p)
  <2>1. PICK valid \in Fine, ok \in Fine :
          Becomes(p, CreateDescription(p, session[p],
            [type |-> "answer", id |-> asked + 1, restart |-> FALSE],
            valid /\ session[p].remote.type = "offer", ok))
    BY <1>4 DEF CreateAnswer
  <2> DEFINE r == [type |-> "answer", id |-> asked + 1, restart |-> FALSE]
             v == valid /\ session[p].remote.type = "offer"
  <2>2. r \in Request /\ r.id = asked + 1
    BY <1>1 DEF Request
  <2>3. v \in BOOLEAN /\ ok \in BOOLEAN
    BY <1>1, <2>1
  <2>4. Becomes(p, CreateDescription(p, session[p], r, v, ok))
    BY <2>1
  <2> HIDE DEF r, v
  <2> QED
    BY <1>2, <2>2, <2>3, <2>4, AskStep
<1> QED
  BY <1>3, <1>4

\* The factory of p is told about the certificate: x is what its requests leave.
Decides(p, s, x) ==
  \E c \in CertificateStates, v \in Nat, l \in BOOLEAN, msgs \in Seq(Answer(p)) :
    /\ x = Posting(Served(s, c, << >>, v, l), msgs)
    /\ Answers(p, s.requests, msgs)
    /\ s.life = "alive" => c # "WAITING"

LEMMA SetCertificateDecides ==
  ASSUME NEW p, NEW s \in WebRtcSession, NEW bad
  PROVE  Decides(p, s, SetCertificate(p, s, bad))
<1>1. PICK v \in Nat, l \in BOOLEAN, msgs \in Seq(Answer(p)) :
        /\ SetCertificate(p, s, bad) = Posting(Served(s, "SUCCEEDED", << >>, v, l), msgs)
        /\ Answers(p, s.requests, msgs)
  BY SetCertificateLemma
<1>2. "SUCCEEDED" \in CertificateStates /\ "SUCCEEDED" # "WAITING"
  BY DEF CertificateStates
<1> QED
  BY <1>1, <1>2 DEF Decides

LEMMA OnIdentityDecides ==
  ASSUME RequestInv, NEW p \in Observers, NEW identity, NEW bad
  PROVE  Decides(p, session[p], OnIdentity(p, identity, bad))
<1> DEFINE s == session[p]
           x == OnIdentity(p, identity, bad)
<1>1. /\ s \in WebRtcSession /\ s.certificate \in CertificateStates /\ s.version \in Nat
      /\ s.latch \in BOOLEAN
  BY DEF RequestInv, SessionInv, TypeInv, WebRtcSession
<1>2. CASE s.life # "alive"
  <2>1. s.requests = << >>
    BY <1>2 DEF RequestInv, WaitInv
  <2>2. x = Posting(s, << >>)
    BY <1>2 DEF OnIdentity
  <2>3. s = Served(s, s.certificate, << >>, s.version, s.latch)
    BY <1>1, <2>1 DEF Served, WebRtcSession
  <2>4. Answers(p, s.requests, << >>) /\ << >> \in Seq(Answer(p))
    BY <2>1 DEF Answers
  <2> HIDE DEF s, x
  <2>5. Decides(p, s, x)
    BY <1>1, <1>2, <2>2, <2>3, <2>4 DEF Decides
  <2> QED
    BY <2>5 DEF s, x
<1>3. CASE s.life = "alive" /\ identity = None
  <2> DEFINE t == [s EXCEPT !.certificate = "FAILED"]
  <2>1. x = FailPendingRequests(p, t)
    BY <1>3 DEF OnIdentity, OnIdentityRequestFailed
  <2>2. /\ t \in WebRtcSession /\ t.certificate = "FAILED" /\ t.requests = s.requests
        /\ t.version = s.version /\ t.latch = s.latch
    BY <1>1 DEF WebRtcSession, CertificateStates
  <2>3. Served(t, "FAILED", << >>, s.version, s.latch) = Served(s, "FAILED", << >>, s.version, s.latch)
    BY <1>1 DEF Served, WebRtcSession
  <2> HIDE DEF t, s, x
  <2>4. PICK msgs : /\ x = Posting(Served(t, t.certificate, << >>, t.version, t.latch), msgs)
                    /\ Answers(p, t.requests, msgs)
    BY <2>1, <2>2, FailPendingLemma
  <2>5. x = Posting(Served(s, "FAILED", << >>, s.version, s.latch), msgs) /\ Answers(p, s.requests, msgs)
    BY <2>2, <2>3, <2>4
  <2>6. "FAILED" \in CertificateStates /\ "FAILED" # "WAITING" /\ msgs \in Seq(Answer(p))
    BY <2>5 DEF CertificateStates, Answers
  <2>7. Decides(p, s, x)
    BY <1>1, <2>5, <2>6 DEF Decides
  <2> QED
    BY <2>7 DEF s, x
<1>4. CASE s.life = "alive" /\ identity # None
  <2>1. x = SetCertificate(p, s, bad)
    BY <1>4 DEF OnIdentity
  <2> QED
    BY <1>1, <2>1, SetCertificateDecides
<1> QED
  BY <1>2, <1>3, <1>4

\* A message that answers nothing is taken from the queue, and tells p's factory.
LEMMA DecideStep ==
  ASSUME RequestInv, NEW p \in Observers, NEW x, Decides(p, session[p], x), queue # << >>,
         Head(queue).kind # "CREATED", Head(queue).kind = "CERTIFICATE" => Head(queue).peer = p,
         session' = [session EXCEPT ![p] = x.session], queue' = Tail(queue) \o x.msgs,
         request_observers' \in Seq(Observers),
         \A r \in Observers : r # p /\ r \in Range(request_observers) => r \in Range(request_observers'),
         UNCHANGED <<scenario, asked, called, created>>
  PROVE  RequestInv'
<1> DEFINE s == session[p]
<1>1. /\ SessionInv /\ WaitInv /\ Accounts(called, queue, Waiting, asked)
      /\ session \in [Observers -> WebRtcSession] /\ s \in WebRtcSession /\ SessionOK(s)
      /\ queue \in Seq(Message) /\ s.requests \in Seq(Request)
  BY DEF RequestInv, SessionInv, TypeInv, WebRtcSession
<1>2. /\ scenario' = scenario /\ asked' \in Nat /\ called' \in Seq(Nat)
      /\ created' \in [Observers -> SUBSET LocalDesc] /\ called' = called /\ asked' = asked
  BY <1>1 DEF SessionInv, TypeInv
<1>3. Waiting[p] = s.requests /\ DOMAIN Waiting = Observers
  BY DEF Waiting
<1>4. PICK c \in CertificateStates, v \in Nat, l \in BOOLEAN, msgs \in Seq(Answer(p)) :
        /\ x = Posting(Served(s, c, << >>, v, l), msgs)
        /\ Answers(p, s.requests, msgs)
        /\ s.life = "alive" => c # "WAITING"
  BY DEF Decides
<1> DEFINE e == << >>
           u == Served(s, c, e, v, l)
           t == Tail(queue)
<1>5. x.session = u /\ x.msgs = msgs
  BY <1>4 DEF Posting
<1> HIDE DEF s
<1>6. e \in Seq(Request) /\ e = << >>
  OBVIOUS
<1> HIDE DEF e
<1>7. u \in WebRtcSession /\ u.certificate = c /\ u.requests = << >> /\ u.life = s.life /\ SessionOK(u)
  <2>0. e \in Seq(Request) /\ s \in WebRtcSession /\ SessionOK(s)
    BY <1>1, <1>6
  <2>1. Served(s, c, e, v, l) \in WebRtcSession
    BY <2>0, ServedFacts
  <2>2. Served(s, c, e, v, l).certificate = c /\ Served(s, c, e, v, l).requests = e
    BY <2>0, ServedFacts
  <2>3. Served(s, c, e, v, l).life = s.life
    BY <2>0, ServedFacts
  <2>4. SessionOK(Served(s, c, e, v, l))
    BY <2>0, ServedFacts
  <2> QED
    BY <1>6, <2>1, <2>2, <2>3, <2>4
<1> HIDE DEF u
<1>8. /\ t \in Seq(Message) /\ AnswerIds(t) = AnswerIds(queue) /\ AnswersOnce(t)
      /\ Range(queue) = Range(t) \cup {Head(queue)}
  BY <1>1, TailAnswers DEF Accounts
<1>9. msgs \in Seq(Message) /\ AnswerIds(msgs) = RequestIds(s.requests) /\ AnswersOnce(msgs)
  <2>1. RequestsOnce(s.requests)
    BY <1>1, <1>3 DEF Accounts
  <2> QED
    BY <1>1, <1>4, <2>1, AnswersFacts
<1> HIDE DEF t
<1>10. AnswerIds(t) \cap AnswerIds(msgs) = {}
  BY <1>1, <1>3, <1>8, <1>9 DEF Accounts
<1>11. queue' = t \o msgs
  BY <1>5 DEF t
<1>12. /\ queue' \in Seq(Message) /\ AnswersOnce(queue')
       /\ AnswerIds(queue') = AnswerIds(queue) \cup RequestIds(Waiting[p])
       /\ Range(queue') = Range(t) \cup Range(msgs)
  BY <1>3, <1>8, <1>9, <1>10, <1>11, ConcatAnswers
<1>13. SessionInv' /\ Waiting' = [Waiting EXCEPT ![p] = u.requests]
  BY <1>1, <1>2, <1>5, <1>7, <1>12, ChangeFacts
<1>14. Accounts(called, queue', [Waiting EXCEPT ![p] = << >>], asked)
  BY <1>1, <1>3, <1>12, AnswersPosted
<1>15. \A r \in Observers : r # p /\ Notified(r) => Notified(r)'
  BY <1>8, <1>12 DEF Notified
<1>16. WaitInv'
  BY <1>1, <1>4, <1>5, <1>7, <1>15, ChangeWaits
<1> QED
  BY <1>2, <1>7, <1>13, <1>14, <1>16 DEF RequestInv


\* A step that changes no session.
LEMMA SameSessions ==
  ASSUME RequestInv, UNCHANGED <<scenario, session, asked>>, queue' \in Seq(Message),
         called' \in Seq(Nat), created' \in [Observers -> SUBSET LocalDesc],
         request_observers' \in Seq(Observers), Accounts(called', queue', Waiting, asked),
         \A r \in Observers : session[r].life = "alive" /\ Notified(r) => Notified(r)'
  PROVE  RequestInv'
<1>1. SessionInv'
  BY DEF RequestInv, SessionInv, TypeInv
<1>2. Waiting' = Waiting
  BY DEF Waiting
<1>3. WaitInv'
  BY DEF RequestInv, WaitInv
<1> QED
  BY <1>1, <1>2, <1>3 DEF RequestInv

LEMMA TailObservers ==
  ASSUME NEW q \in Seq(Observers), q # << >>
  PROVE  Head(q) \in Observers /\ \A r : r \in Range(q) /\ r # Head(q) => r \in Range(Tail(q))
<1>1. /\ Len(q) \in Nat /\ DOMAIN q = 1 .. Len(q) /\ DOMAIN Tail(q) = 1 .. Len(q) - 1
      /\ Head(q) = q[1] /\ Head(q) \in Observers /\ \A i \in 1 .. Len(q) - 1 : Tail(q)[i] = q[i + 1]
  BY TailFacts
<1>2. ASSUME NEW r, r \in Range(q), r # Head(q) PROVE r \in Range(Tail(q))
  <2>1. PICK i \in DOMAIN q : q[i] = r
    BY <1>2, Members
  <2>2. i - 1 \in DOMAIN Tail(q) /\ Tail(q)[i - 1] = r
    BY <1>1, <1>2, <2>1
  <2> QED
    BY <2>2, Members
<1> QED
  BY <1>1, <1>2

LEMMA HandleIdentityStep ==
  ASSUME RequestInv, CountInv', HandleIdentity
  PROVE  RequestInv'
<1>1. /\ queue # << >> /\ Head(queue).kind = "IDENTITY" /\ OnIdentityGenerated
      /\ UNCHANGED <<scenario, calls, asked, called, created>>
  BY DEF HandleIdentity
<1>2. /\ queue \in Seq(Message) /\ request_observers \in Seq(Observers) /\ called \in Seq(Nat)
      /\ created \in [Observers -> SUBSET LocalDesc] /\ request_observers' \in Seq(Observers)
  BY DEF RequestInv, SessionInv, TypeInv, CountInv, TypeOK
<1>3. CASE request_observers = << >>
  <2>1. queue' = Tail(queue) /\ session' = session /\ request_observers' = request_observers
    BY <1>1, <1>3 DEF HandleIdentity, OnIdentityGenerated
  <2>2. /\ queue' \in Seq(Message) /\ AnswerIds(queue') = AnswerIds(queue) /\ AnswersOnce(queue')
        /\ Range(queue) = Range(queue') \cup {Head(queue)}
    BY <1>1, <1>2, <2>1, TailAnswers DEF RequestInv, Accounts
  <2>3. Accounts(called, queue', Waiting, asked)
    BY <2>2, SameAnswers DEF RequestInv
  <2>4. \A r \in Observers : Notified(r) => Notified(r)'
    BY <1>1, <2>1, <2>2 DEF Notified
  <2>5. called' = called /\ created' = created /\ UNCHANGED <<scenario, session, asked>>
    BY <1>1, <2>1
  <2> QED
    BY <1>2, <2>2, <2>3, <2>4, <2>5, SameSessions
<1>4. CASE request_observers # << >>
  <2> DEFINE p == Head(request_observers)
  <2>1. PICK bad \in Bad(p) :
          /\ session' = [session EXCEPT ![p] = OnIdentity(p, Head(results), bad).session]
          /\ queue' = Tail(queue) \o OnIdentity(p, Head(results), bad).msgs
    BY <1>4 DEF HandleIdentity
  <2>2. request_observers' = Tail(request_observers)
    BY <1>1, <1>4 DEF OnIdentityGenerated
  <2>3. p \in Observers /\ \A r : r \in Range(request_observers) /\ r # p => r \in Range(request_observers')
    BY <1>2, <1>4, <2>2, TailObservers
  <2> DEFINE x == OnIdentity(p, Head(results), bad)
  <2>4. session' = [session EXCEPT ![p] = x.session] /\ queue' = Tail(queue) \o x.msgs
    BY <2>1
  <2> HIDE DEF p
  <2>5. Decides(p, session[p], x)
    BY <2>3, OnIdentityDecides
  <2> HIDE DEF x
  <2>6. /\ Head(queue).kind # "CREATED" /\ Head(queue).kind # "CERTIFICATE"
        /\ UNCHANGED <<scenario, asked, called, created>>
    BY <1>1
  <2> QED
    BY <1>1, <1>2, <2>3, <2>4, <2>5, <2>6, DecideStep
<1> QED
  BY <1>3, <1>4

LEMMA HandleCertificateStep ==
  ASSUME RequestInv, HandleCertificate
  PROVE  RequestInv'
<1> DEFINE p == Head(queue).peer
<1>1. /\ queue # << >> /\ Head(queue).kind = "CERTIFICATE"
      /\ UNCHANGED <<scenario, asked, called, created, storeVars>>
  BY DEF HandleCertificate
<1>2. queue \in Seq(Message) /\ request_observers \in Seq(Observers)
  BY DEF RequestInv, SessionInv, TypeInv
<1>3. p \in Observers
  <2>1. Head(queue) \in Message
    BY <1>1, <1>2, TailAnswers
  <2> QED
    BY <1>1, <2>1 DEF Message
<1>4. PICK bad \in Bad(p) :
        /\ session' = [session EXCEPT ![p] = SetCertificate(p, session[p], bad).session]
        /\ queue' = Tail(queue) \o SetCertificate(p, session[p], bad).msgs
  BY DEF HandleCertificate
<1> DEFINE x == SetCertificate(p, session[p], bad)
<1>5. session' = [session EXCEPT ![p] = x.session] /\ queue' = Tail(queue) \o x.msgs
  BY <1>4
<1>6. session[p] \in WebRtcSession
  BY <1>3 DEF RequestInv, SessionInv, TypeInv
<1>7. Head(queue).kind # "CREATED" /\ Head(queue).peer = p
  BY <1>1
<1> HIDE DEF p
<1>8. Decides(p, session[p], x)
  BY <1>6, SetCertificateDecides
<1> HIDE DEF x
<1>9. request_observers' = request_observers /\ UNCHANGED <<scenario, asked, called, created>>
  BY <1>1 DEF storeVars
<1> QED
  BY <1>1, <1>2, <1>3, <1>5, <1>7, <1>8, <1>9, DecideStep

LEMMA HandleCreatedStep ==
  ASSUME RequestInv, HandleCreated
  PROVE  RequestInv'
<1> DEFINE h == Head(queue)
<1>1. /\ queue # << >> /\ h.kind = "CREATED" /\ queue' = Tail(queue) /\ called' = Append(called, h.id)
      /\ created' = [created EXCEPT ![h.peer] = @ \cup ({h.desc} \ {NoDesc})]
      /\ UNCHANGED <<scenario, session, asked>> /\ request_observers' = request_observers
  BY DEF HandleCreated, storeVars
<1>2. /\ queue \in Seq(Message) /\ request_observers \in Seq(Observers) /\ called \in Seq(Nat)
      /\ created \in [Observers -> SUBSET LocalDesc]
  BY DEF RequestInv, SessionInv, TypeInv
<1>3. Accounts(called, queue, Waiting, asked)
  BY DEF RequestInv
<1>4. /\ queue' \in Seq(Message) /\ AnswersOnce(queue') /\ AnswerIds(queue) = AnswerIds(queue') \cup {h.id}
      /\ h.id \notin AnswerIds(queue') /\ h \in Message /\ Range(queue) = Range(queue') \cup {h}
  BY <1>1, <1>2, <1>3, TailAnswers DEF Accounts
<1> HIDE DEF h
<1>5. h.peer \in Observers /\ h.id \in Nat /\ h.desc \in LocalDesc \cup {NoDesc}
  BY <1>1, <1>4 DEF Message
<1>6. created' \in [Observers -> SUBSET LocalDesc]
  BY <1>1, <1>2, <1>5
<1>7. called' = called \o <<h.id>> /\ <<h.id>> \in Seq(Nat) /\ Range(<<h.id>>) = {h.id} /\ Once(<<h.id>>)
  <2>1. called' = called \o <<h.id>> /\ <<h.id>> \in Seq(Nat)
    BY <1>1, <1>2, <1>5
  <2> DEFINE q == <<h.id>>
  <2>2. DOMAIN q = {1} /\ q[1] = h.id
    OBVIOUS
  <2> HIDE DEF q
  <2>3. Range(q) = {h.id} /\ Once(q)
    BY <2>2, Members DEF Once
  <2> QED
    BY <2>1, <2>3 DEF q
<1>8. Range(called) \cap {h.id} = {} /\ Once(called)
  BY <1>3, <1>4 DEF Accounts
<1>9. called' \in Seq(Nat) /\ Range(called') = Range(called) \cup {h.id} /\ Once(called')
  BY <1>2, <1>7, <1>8, ConcatOnce
<1>10. Accounts(called', queue', Waiting, asked)
  <2> DEFINE I == {h.id}
  <2>1. /\ Range(called') = Range(called) \cup I /\ AnswerIds(queue) = AnswerIds(queue') \cup I
        /\ AnswerIds(queue') \cap I = {}
    BY <1>4, <1>9
  <2> HIDE DEF I
  <2> QED
    BY <1>3, <1>4, <1>9, <2>1, AnswersCalled
<1>11. \A r \in Observers : Notified(r) => Notified(r)'
  BY <1>1, <1>4 DEF Notified
<1> QED
  BY <1>1, <1>2, <1>4, <1>6, <1>9, <1>10, <1>11, SameSessions


LEMMA DestroyStep ==
  ASSUME RequestInv, NEW p \in Observers, DestroyPeerConnection(p)
  PROVE  RequestInv'
<1> DEFINE s == session[p]
           K == Kept(queue, AnswersOf(p))
           P == Kept(queue, Range(queue) \ OfFactory(p))
<1>1. /\ SessionInv /\ WaitInv /\ Accounts(called, queue, Waiting, asked)
      /\ session \in [Observers -> WebRtcSession] /\ s \in WebRtcSession /\ SessionOK(s)
      /\ queue \in Seq(Message) /\ s.requests \in Seq(Request) /\ called \in Seq(Nat)
  BY DEF RequestInv, SessionInv, TypeInv, WebRtcSession
<1>2. PICK F : /\ FailPendingRequests(p, s) = Posting(Served(s, s.certificate, << >>, s.version, s.latch), F)
               /\ Answers(p, s.requests, F)
  BY <1>1, FailPendingLemma
<1> DEFINE u == [Served(s, s.certificate, << >>, s.version, s.latch) EXCEPT !.life = "deleted"]
           M == K \o F
<1>3. /\ session' = [session EXCEPT ![p] = u] /\ queue' = P /\ called' = called \o Ids(M)
      /\ scenario' = scenario /\ asked' = asked /\ created' = created
      /\ request_observers' = request_observers
  BY <1>2 DEF DestroyPeerConnection, Call, Posting, storeVars
<1>4. /\ u \in WebRtcSession /\ u.requests = << >> /\ u.life = "deleted" /\ SessionOK(u)
  <2>1. u = [s EXCEPT !.requests = << >>, !.life = "deleted"]
    BY <1>1 DEF Served, WebRtcSession
  <2> HIDE DEF u
  <2>2. u \in WebRtcSession /\ u.requests = << >> /\ u.life = "deleted"
    <3> DEFINE e == << >>
               l == "deleted"
    <3>1. e \in Seq(Request) /\ l \in {"none", "alive", "deleted"}
      OBVIOUS
    <3>2. u = [s EXCEPT !.requests = e, !.life = l]
      BY <2>1
    <3> HIDE DEF e, l
    <3>3. u \in WebRtcSession
      BY <1>1, <3>1, <3>2 DEF WebRtcSession
    <3>4. u.requests = e /\ u.life = l
      BY <1>1, <3>2 DEF WebRtcSession
    <3> QED
      BY <3>3, <3>4 DEF e, l
  <2>3. /\ u.state = s.state /\ u.local = s.local /\ u.remote = s.remote
        /\ u.channel = s.channel /\ u.local_set = s.local_set /\ u.remote_set = s.remote_set
        /\ u.used = s.used /\ u.accepted = s.accepted /\ u.rejected = s.rejected
    BY <1>1, <2>1 DEF WebRtcSession
  <2>4. SessionOK(u)
    BY <1>1, <2>3 DEF SessionOK, HasDescriptions, HasChannel, Negotiated
  <2> QED
    BY <2>2, <2>4
<1>5. Waiting[p] = s.requests /\ DOMAIN Waiting = Observers
  BY DEF Waiting
<1> HIDE DEF u, s
<1>6. AnswersOnce(queue) /\ RequestsOnce(s.requests) /\ Once(called)
  BY <1>1, <1>5 DEF Accounts
<1>7. K \in Seq(Message) /\ Range(K) = Range(queue) \cap AnswersOf(p) /\ AnswersOnce(K)
  BY <1>1, <1>6, KeptAnswers
<1>8. P \in Seq(Message) /\ Range(P) = Range(queue) \ OfFactory(p) /\ AnswersOnce(P)
  BY <1>1, <1>6, KeptAnswers
<1> HIDE DEF K, P
<1>9. \A m \in Range(K) : m.kind = "CREATED" /\ m \in OfFactory(p) /\ m \in Range(queue)
  BY <1>7 DEF AnswersOf
<1>10. \A m \in Range(queue) : m.kind = "CREATED" => m \in Range(K) \/ m \in Range(P)
  BY <1>7, <1>8 DEF AnswersOf
<1>11. \A n : n \in AnswerIds(queue) <=> n \in AnswerIds(P) \/ n \in AnswerIds(K)
  <2>1. ASSUME NEW n, n \in AnswerIds(queue) PROVE n \in AnswerIds(P) \/ n \in AnswerIds(K)
    BY <1>10, <2>1, RangeAnswers
  <2>2. ASSUME NEW n, n \in AnswerIds(P) PROVE n \in AnswerIds(queue)
    BY <1>8, <2>2, RangeAnswers
  <2>3. ASSUME NEW n, n \in AnswerIds(K) PROVE n \in AnswerIds(queue)
    BY <1>9, <2>3, RangeAnswers
  <2> QED
    BY <2>1, <2>2, <2>3
<1>12. ASSUME NEW n, n \in AnswerIds(P), n \in AnswerIds(K) PROVE FALSE
  <2>1. PICK m \in Range(P) : m.kind = "CREATED" /\ m.id = n
    BY <1>12, RangeAnswers
  <2>2. PICK k \in Range(K) : k.kind = "CREATED" /\ k.id = n
    BY <1>12, RangeAnswers
  <2>3. m \in Range(queue) /\ k \in Range(queue) /\ m \notin OfFactory(p) /\ k \in OfFactory(p)
    BY <1>8, <1>9
  <2>4. m = k
    BY <1>6, <2>1, <2>2, <2>3, OneMessage
  <2> QED
    BY <2>3, <2>4
<1>13. /\ F \in Seq(Message) /\ AnswerIds(F) = RequestIds(s.requests) /\ AnswersOnce(F)
       /\ \A m \in Range(F) : m.kind = "CREATED"
  <2>1. /\ F \in Seq(Message) /\ AnswerIds(F) = RequestIds(s.requests) /\ AnswersOnce(F)
        /\ \A m \in Range(F) : m \in Answer(p)
    BY <1>1, <1>2, <1>6, AnswersFacts
  <2>2. \A m \in Answer(p) : m.kind = "CREATED"
    BY DEF Answer
  <2> QED
    BY <2>1, <2>2
<1>14. RequestIds(s.requests) \cap (Range(called) \cup AnswerIds(queue)) = {} /\ Range(called) \cap AnswerIds(queue) = {}
  BY <1>1, <1>5 DEF Accounts
<1>15. AnswerIds(K) \cap AnswerIds(F) = {}
  BY <1>11, <1>13, <1>14
<1>16. /\ M \in Seq(Message) /\ AnswerIds(M) = AnswerIds(K) \cup RequestIds(s.requests) /\ AnswersOnce(M)
       /\ \A m \in Range(M) : m.kind = "CREATED"
  <2>1. /\ M \in Seq(Message) /\ AnswerIds(M) = AnswerIds(K) \cup AnswerIds(F) /\ AnswersOnce(M)
        /\ Range(M) = Range(K) \cup Range(F)
    BY <1>7, <1>13, <1>15, ConcatAnswers
  <2> HIDE DEF M
  <2> QED
    BY <1>9, <1>13, <2>1
<1> HIDE DEF M
\* The calls, first as if only the messages had been handled.
<1> DEFINE C == called \o Ids(K)
           D == called \o Ids(M)
<1>17. Ids(K) \in Seq(Nat) /\ Range(Ids(K)) = AnswerIds(K) /\ Once(Ids(K))
  BY <1>7, <1>9, IdsFacts
<1>18. Ids(M) \in Seq(Nat) /\ Range(Ids(M)) = AnswerIds(K) \cup RequestIds(s.requests) /\ Once(Ids(M))
  BY <1>16, IdsFacts
<1>19. Range(called) \cap AnswerIds(K) = {}
  BY <1>11, <1>14
<1>20. Range(C) = Range(called) \cup AnswerIds(K) /\ Once(C)
  BY <1>1, <1>6, <1>17, <1>19, ConcatOnce
<1>21. Range(called) \cap Range(Ids(M)) = {}
  BY <1>14, <1>18, <1>19
<1>22. D \in Seq(Nat) /\ Range(D) = Range(called) \cup Range(Ids(M)) /\ Once(D)
  BY <1>1, <1>6, <1>18, <1>21, ConcatOnce
<1> HIDE DEF C, D
<1>23. Range(D) = Range(C) \cup RequestIds(Waiting[p])
  BY <1>5, <1>18, <1>20, <1>22
<1>24. Accounts(C, P, Waiting, asked)
  <2> DEFINE I == AnswerIds(K)
  <2>1. /\ Range(C) = Range(called) \cup I /\ AnswerIds(queue) = AnswerIds(P) \cup I
        /\ AnswerIds(P) \cap I = {}
    BY <1>11, <1>12, <1>20
  <2> HIDE DEF I
  <2> QED
    BY <1>1, <1>8, <1>20, <2>1, AnswersCalled
<1>25. Accounts(D, P, [Waiting EXCEPT ![p] = << >>], asked)
  BY <1>5, <1>22, <1>23, <1>24, RequestsCalled
<1>26. /\ queue' \in Seq(Message) /\ asked' \in Nat /\ called' \in Seq(Nat)
       /\ created' \in [Observers -> SUBSET LocalDesc] /\ request_observers' \in Seq(Observers)
  BY <1>1, <1>3, <1>8, <1>22 DEF D, SessionInv, TypeInv
<1>27. SessionInv' /\ Waiting' = [Waiting EXCEPT ![p] = u.requests]
  BY <1>1, <1>3, <1>4, <1>26, ChangeFacts
<1>28. \A r \in Observers : r # p /\ Notified(r) => Notified(r)'
  BY <1>3, <1>8 DEF Notified, OfFactory
<1>29. WaitInv'
  BY <1>1, <1>3, <1>4, <1>28, ChangeWaits
<1> QED
  BY <1>3, <1>4, <1>25, <1>27, <1>29 DEF RequestInv, D

LEMMA DestroyStoreStep ==
  ASSUME RequestInv, DestroyStore
  PROVE  RequestInv'
<1>1. /\ queue' = Kept(queue, Range(queue) \ OfStore) /\ request_observers' = request_observers
      /\ UNCHANGED <<scenario, session, calls, asked, called, created>>
  BY DEF DestroyStore, Destroy
<1>2. /\ queue \in Seq(Message) /\ request_observers \in Seq(Observers) /\ called \in Seq(Nat)
      /\ created \in [Observers -> SUBSET LocalDesc] /\ Accounts(called, queue, Waiting, asked)
  BY DEF RequestInv, SessionInv, TypeInv
<1>3. /\ queue' \in Seq(Message) /\ Range(queue') = Range(queue) \ OfStore /\ AnswersOnce(queue')
  BY <1>1, <1>2, KeptAnswers DEF Accounts
<1>4. \A m \in Range(queue) : m.kind # "IDENTITY" => m \in Range(queue')
  BY <1>3 DEF OfStore
<1>5. \A n : n \in AnswerIds(queue') <=> n \in AnswerIds(queue)
  <2>1. ASSUME NEW n, n \in AnswerIds(queue) PROVE n \in AnswerIds(queue')
    BY <1>4, <2>1, RangeAnswers
  <2>2. ASSUME NEW n, n \in AnswerIds(queue') PROVE n \in AnswerIds(queue)
    BY <1>3, <2>2, RangeAnswers
  <2> QED
    BY <2>1, <2>2
<1>6. Accounts(called', queue', Waiting, asked)
  <2> DEFINE q == queue'
  <2>1. AnswersOnce(q) /\ AnswerIds(q) = AnswerIds(queue)
    BY <1>3, <1>5
  <2> HIDE DEF q
  <2>2. Accounts(called, q, Waiting, asked)
    BY <1>2, <2>1, SameAnswers
  <2> QED
    BY <1>1, <2>2 DEF q
<1>7. \A r \in Observers : Notified(r) => Notified(r)'
  BY <1>1, <1>4 DEF Notified
<1> QED
  BY <1>1, <1>2, <1>3, <1>6, <1>7, SameSessions

\* The messages of the store are no answers.
LEMMA NoAnswers ==
  ASSUME NEW q \in Seq(Message), NEW m \in Seq(Message), \A x \in Range(m) : x.kind # "CREATED"
  PROVE  /\ q \o m \in Seq(Message) /\ AnswerIds(q \o m) = AnswerIds(q)
         /\ AnswersOnce(q) => AnswersOnce(q \o m)
         /\ Range(q \o m) = Range(q) \cup Range(m)
<1>1. AnswerIds(m) = {}
  BY RangeAnswers
<1>2. AnswersOnce(m)
  BY Members DEF AnswersOnce
<1> QED
  BY <1>1, <1>2, ConcatAnswers

LEMMA ResultsFacts ==
  ASSUME Len(results') - Len(results) \in Nat
  PROVE  Results \in Seq(Message) /\ \A x \in Range(Results) : x.kind # "CREATED"
<1> DEFINE n == Len(results') - Len(results)
           m == [kind |-> "IDENTITY"]
<1>1. m \in Message /\ m.kind # "CREATED"
  BY DEF Message
<1>2. Results = [i \in 1 .. n |-> m]
  BY DEF Results
<1> HIDE DEF n, m
<1>3. n \in Nat
  BY DEF n
<1>4. Results \in Seq(Message)
  BY <1>1, <1>2, <1>3
<1>5. ASSUME NEW x \in Range(Results) PROVE x = m
  <2> DEFINE R == Results
  <2>1. R = [i \in 1 .. n |-> m] /\ x \in Range(R)
    BY <1>2
  <2> HIDE DEF R
  <2>2. \E i \in DOMAIN R : R[i] = x
    BY <2>1 DEF Range
  <2> QED
    BY <2>1, <2>2
<1> QED
  BY <1>1, <1>4, <1>5

LEMMA GenerateIdentityStep ==
  ASSUME RequestInv, CountInv, GenerateIdentity
  PROVE  RequestInv'
<1>1. /\ queue' = queue \o Results /\ request_observers' = request_observers
      /\ UNCHANGED <<scenario, session, calls, asked, called, created>>
  BY DEF GenerateIdentity, GenerateIdentity_w
<1>2. Len(results') = Len(results) + 1 /\ Len(results) \in Nat
  <2>1. results \in Seq(Int) /\ generated + 1 \in Int /\ None \in Int
    BY DEF CountInv, TypeOK, None
  <2>2. results' = Append(results, generated + 1) \/ results' = Append(results, None)
    BY DEF GenerateIdentity, GenerateIdentity_w
  <2> QED
    BY <2>1, <2>2, AppendFacts
<1>3. Results \in Seq(Message) /\ \A x \in Range(Results) : x.kind # "CREATED"
  BY <1>2, ResultsFacts
<1>4. /\ queue \in Seq(Message) /\ request_observers \in Seq(Observers) /\ called \in Seq(Nat)
      /\ created \in [Observers -> SUBSET LocalDesc] /\ Accounts(called, queue, Waiting, asked)
  BY DEF RequestInv, SessionInv, TypeInv
<1> DEFINE q == queue \o Results
<1>5. q \in Seq(Message) /\ AnswerIds(q) = AnswerIds(queue) /\ AnswersOnce(q)
  BY <1>3, <1>4, NoAnswers DEF Accounts
<1> HIDE DEF q
<1>6. Accounts(called, q, Waiting, asked)
  BY <1>4, <1>5, SameAnswers
<1>7. queue' = q /\ called' = called /\ created' = created
  BY <1>1 DEF q
<1>8. \A r \in Observers : Notified(r) => Notified(r)'
  BY <1>1, <1>3, <1>4, NotifiedGrows
<1> QED
  BY <1>1, <1>4, <1>5, <1>6, <1>7, <1>8, SameSessions

\* A session that waits for nobody's answer is replaced by a new one.
LEMMA ReplaceStep ==
  ASSUME RequestInv, NEW p \in Observers, session[p].life = "none", NEW c \in CertificateStates,
         NEW msgs \in Seq(Message), \A x \in Range(msgs) : x.kind # "CREATED",
         Becomes(p, Posting(NewSession(c), msgs)), request_observers' \in Seq(Observers),
         Range(request_observers) \subseteq Range(request_observers'),
         c = "WAITING" => Notified(p)',
         UNCHANGED <<scenario, asked, called, created>>
  PROVE  RequestInv'
<1> DEFINE u == NewSession(c)
           q == queue \o msgs
<1>1. /\ SessionInv /\ WaitInv /\ Accounts(called, queue, Waiting, asked)
      /\ session \in [Observers -> WebRtcSession] /\ session[p] \in WebRtcSession
      /\ queue \in Seq(Message) /\ called \in Seq(Nat) /\ asked \in Nat
      /\ created \in [Observers -> SUBSET LocalDesc]
  BY DEF RequestInv, SessionInv, TypeInv
<1>2. u \in WebRtcSession /\ SessionOK(u)
  BY NewSessionLemma
<1>3. u.requests = << >> /\ u.certificate = c
  BY DEF NewSession
<1>4. session' = [session EXCEPT ![p] = u] /\ queue' = q
  BY DEF Becomes, Posting
<1> HIDE DEF u
<1>5. session[p].requests = << >>
  BY <1>1 DEF WaitInv
<1>6. /\ q \in Seq(Message) /\ AnswerIds(q) = AnswerIds(queue) /\ AnswersOnce(q)
      /\ Range(q) = Range(queue) \cup Range(msgs)
  BY <1>1, NoAnswers DEF Accounts
<1> HIDE DEF q
<1>7. Accounts(called, q, Waiting, asked)
  BY <1>1, <1>6, SameAnswers
<1>8. /\ queue' \in Seq(Message) /\ asked' \in Nat /\ called' \in Seq(Nat) /\ scenario' = scenario
      /\ created' \in [Observers -> SUBSET LocalDesc] /\ request_observers' \in Seq(Observers)
  BY <1>1, <1>4, <1>6
<1>9. SessionInv' /\ Waiting' = [Waiting EXCEPT ![p] = << >>]
  BY <1>1, <1>2, <1>3, <1>4, <1>8, ChangeFacts
<1>10. [Waiting EXCEPT ![p] = << >>] = Waiting
  BY <1>5 DEF Waiting
<1>11. Accounts(called', queue', Waiting', asked')
  BY <1>4, <1>7, <1>9, <1>10
<1>12. \A r \in Observers : r # p /\ Notified(r) => Notified(r)'
  BY <1>4, <1>6 DEF Notified
<1>13. WaitInv'
  BY <1>1, <1>3, <1>4, <1>12, ChangeWaits
<1> QED
  BY <1>9, <1>11, <1>13 DEF RequestInv

LEMMA CreatePeerConnectionStep ==
  ASSUME RequestInv, CountInv, CountInv', NEW p \in Observers, CreatePeerConnection(p)
  PROVE  RequestInv'
<1>1. /\ session[p].life = "none" /\ UNCHANGED <<scenario, asked, called, created>>
      /\ request_observers \in Seq(Observers) /\ request_observers' \in Seq(Observers)
      /\ queue \in Seq(Message)
  BY DEF CreatePeerConnection, CountInv, TypeOK, RequestInv, SessionInv, TypeInv
<1>2. CASE RequestIdentity(p) /\ Becomes(p, Posting(NewSession("WAITING"), Results))
  <2>1. request_observers' = Append(request_observers, p)
    BY <1>2 DEF RequestIdentity
  <2>2. /\ Len(request_observers') = Len(request_observers) + 1 /\ Len(request_observers) \in Nat
        /\ \A i \in 1 .. Len(request_observers) : request_observers'[i] = request_observers[i]
        /\ request_observers'[Len(request_observers) + 1] = p
    BY <1>1, <2>1, AppendFacts
  <2>3. Range(request_observers) \subseteq Range(request_observers') /\ p \in Range(request_observers')
    <3>1. /\ DOMAIN request_observers = 1 .. Len(request_observers)
          /\ DOMAIN request_observers' = 1 .. Len(request_observers) + 1
      BY <1>1, <2>2
    <3>2. \A i \in 1 .. Len(request_observers) : i \in 1 .. Len(request_observers) + 1
      BY <2>2
    <3>3. Len(request_observers) + 1 \in 1 .. Len(request_observers) + 1
      BY <2>2
    <3>4. p \in Range(request_observers')
      BY <2>2, <3>1, <3>3, Members
    <3>5. ASSUME NEW x \in Range(request_observers) PROVE x \in Range(request_observers')
      BY <2>2, <3>1, <3>2, Members
    <3> QED
      BY <3>4, <3>5
  <2>4. Len(results') - Len(results) \in Nat
    <3>1. results \in Seq(0 .. generated) /\ free_identity \in 0 .. generated
      BY DEF CountInv, TypeOK
    <3>2. results' = results \/ results' = Append(results, free_identity)
      BY <1>2 DEF RequestIdentity, UseFreeIdentity
    <3> QED
      BY <3>1, <3>2, AppendFacts
  <2>5. Results \in Seq(Message) /\ \A x \in Range(Results) : x.kind # "CREATED"
    BY <2>4, ResultsFacts
  <2>6. Notified(p)'
    BY <2>3 DEF Notified
  <2>7. "WAITING" \in CertificateStates
    BY DEF CertificateStates
  <2> QED
    BY <1>1, <1>2, <2>3, <2>5, <2>6, <2>7, ReplaceStep
<1>3. CASE /\ Becomes(p, Posting(NewSession("WAITING"), << [kind |-> "CERTIFICATE", peer |-> p] >>))
           /\ UNCHANGED storeVars
  <2> DEFINE m == [kind |-> "CERTIFICATE", peer |-> p]
             q == <<m>>
  <2>1. m \in Message /\ m.kind = "CERTIFICATE" /\ m.peer = p
    BY DEF Message
  <2>2. DOMAIN q = {1} /\ q[1] = m
    OBVIOUS
  <2>3. q \in Seq(Message)
    BY <2>1
  <2>4. queue' = queue \o q /\ Becomes(p, Posting(NewSession("WAITING"), q))
    BY <1>3 DEF Becomes, Posting
  <2> HIDE DEF m, q
  <2>5. Range(q) = {m}
    BY <2>2, Members
  <2>6. Range(queue \o q) = Range(queue) \cup {m}
    BY <1>1, <2>3, <2>5, ConcatAnswers
  <2>7. m \in Range(queue')
    BY <2>4, <2>6
  <2>8. Notified(p)'
    BY <2>1, <2>7 DEF Notified
  <2>9. request_observers' = request_observers
    BY <1>3 DEF storeVars
  <2>10. "WAITING" \in CertificateStates /\ \A x \in Range(q) : x.kind # "CREATED"
    BY <2>1, <2>5 DEF CertificateStates
  <2> QED
    BY <1>1, <2>3, <2>4, <2>8, <2>9, <2>10, ReplaceStep
<1>4. CASE Becomes(p, Posting(NewSession("NOT_NEEDED"), << >>)) /\ UNCHANGED storeVars
  <2> DEFINE q == << >>
             c == "NOT_NEEDED"
  <2>1. q \in Seq(Message) /\ Range(q) = {} /\ c \in CertificateStates /\ c # "WAITING"
    BY EmptyRequests DEF CertificateStates
  <2>2. request_observers' = request_observers /\ Becomes(p, Posting(NewSession(c), q))
    BY <1>4 DEF storeVars
  <2> HIDE DEF q, c
  <2> QED
    BY <1>1, <2>1, <2>2, ReplaceStep
<1> QED
  BY <1>2, <1>3, <1>4 DEF CreatePeerConnection

LEMMA UnchangedRequestInv ==
  ASSUME RequestInv, UNCHANGED sessionVars
  PROVE  RequestInv'
<1>1. /\ UNCHANGED <<scenario, session, queue, asked, called, created>>
      /\ request_observers' = request_observers
  BY DEF sessionVars, storeVars
<1>2. /\ queue \in Seq(Message) /\ request_observers \in Seq(Observers) /\ called \in Seq(Nat)
      /\ created \in [Observers -> SUBSET LocalDesc] /\ Accounts(called, queue, Waiting, asked)
  BY DEF RequestInv, SessionInv, TypeInv
<1>3. \A r \in Observers : Notified(r) => Notified(r)'
  BY <1>1 DEF Notified
<1> QED
  BY <1>1, <1>2, <1>3, SameSessions

LEMMA NextRequestInv == RequestInv /\ CountInv /\ CountInv' /\ [SessionNext]_sessionVars => RequestInv'
<1> SUFFICES ASSUME RequestInv, CountInv, CountInv', [SessionNext]_sessionVars PROVE RequestInv'
  OBVIOUS
<1>1. CASE UNCHANGED sessionVars
  BY <1>1, UnchangedRequestInv
<1>2. ASSUME NEW p \in Observers, CreatePeerConnection(p) PROVE RequestInv'
  BY <1>2, CreatePeerConnectionStep
<1>3. ASSUME NEW p \in Observers, CreateOffer(p) \/ CreateAnswer(p) PROVE RequestInv'
  BY <1>3, CreateStep
<1>4. ASSUME NEW p \in Observers,
             SetLocalDescription(p) \/ SetRemoteDescription(p) \/ AddIceCandidate(p) \/ Close(p)
      PROVE  RequestInv'
  BY <1>4, DescriptionStep
<1>5. ASSUME NEW p \in Observers, DestroyPeerConnection(p) PROVE RequestInv'
  BY <1>5, DestroyStep
<1>6. CASE DestroyStore
  BY <1>6, DestroyStoreStep
<1>7. CASE GenerateIdentity
  BY <1>7, GenerateIdentityStep
<1>8. CASE HandleMessage
  BY <1>8, HandleIdentityStep, HandleCertificateStep, HandleCreatedStep DEF HandleMessage
<1> QED
  BY <1>1, <1>2, <1>3, <1>4, <1>5, <1>6, <1>7, <1>8 DEF SessionNext

LEMMA InitRequestInv == SessionInit => RequestInv
<1> SUFFICES ASSUME SessionInit PROVE RequestInv
  OBVIOUS
<1> DEFINE u == [NewSession("NOT_NEEDED") EXCEPT !.life = "none"]
<1>1. u \in WebRtcSession /\ SessionOK(u)
  <2> DEFINE c == "NOT_NEEDED"
  <2>1. c \in CertificateStates
    BY DEF CertificateStates
  <2> HIDE DEF c
  <2>2. [NewSession(c) EXCEPT !.life = "none"] \in WebRtcSession
        /\ SessionOK([NewSession(c) EXCEPT !.life = "none"])
    BY <2>1, NewSessionLemma
  <2> QED
    BY <2>2 DEF c
<1>2. u.requests = << >> /\ u.life = "none"
  BY DEF NewSession
<1>3. /\ scenario \in Scenario /\ session = [p \in Observers |-> u] /\ queue = << >> /\ asked = 0
      /\ called = << >> /\ created = [p \in Observers |-> {}] /\ request_observers = << >>
  BY ScenariosAssumption DEF SessionInit, Init
<1> HIDE DEF u
<1>4. SessionInv
  <2>1. queue \in Seq(Message) /\ called \in Seq(Nat) /\ request_observers \in Seq(Observers)
    BY <1>3
  <2>2. session \in [Observers -> WebRtcSession] /\ \A p \in Observers : SessionOK(session[p])
    BY <1>1, <1>3
  <2> QED
    BY <1>3, <2>1, <2>2 DEF SessionInv, TypeInv
<1>5. WaitInv
  <2>1. ASSUME NEW p \in Observers PROVE session[p].requests = << >> /\ session[p].life # "alive"
    BY <1>2, <1>3
  <2> QED
    BY <2>1, Zenon DEF WaitInv
<1>6. Accounts(called, queue, Waiting, asked)
  <2>1. ASSUME NEW p \in Observers PROVE Waiting[p] = << >>
    BY <1>2, <1>3 DEF Waiting
  <2>2. \A i : i \notin 1 .. asked
    BY <1>3
  <2>3. ASSUME NEW p \in Observers PROVE RequestIds(Waiting[p]) = {} /\ RequestsOnce(Waiting[p])
    BY <2>1, EmptyRequests
  <2>4. Range(called) = {} /\ Once(called) /\ AnswerIds(queue) = {} /\ AnswersOnce(queue)
    BY <1>3, EmptyRequests
  <2> QED
    BY <2>2, <2>3, <2>4 DEF Accounts
<1> QED
  BY <1>4, <1>5, <1>6 DEF RequestInv

\* The counters of the store are right in every state of the sessions.
LEMMA SessionCounts == SessionSpec => []CountInv
<1>1. SessionInit => CountInv
  BY InitCount DEF SessionInit
<1>2. CountInv /\ [SessionNext]_sessionVars => CountInv'
  BY CountStep, StoreStep
<1> QED
  BY <1>1, <1>2, PTL DEF SessionSpec

-----------------------------------------------------------------------------
(* What follows for the properties *)

LEMMA PlaceMembers ==
  ASSUME NEW n, NEW x
  PROVE  x \in Places(n) <=>
           \/ \E i \in DOMAIN called : called[i] = n /\ x = <<"called", i>>
           \/ \E i \in DOMAIN queue : queue[i].kind = "CREATED" /\ queue[i].id = n /\ x = <<"queued", i>>
           \/ \E p \in Observers : \E i \in DOMAIN session[p].requests :
                session[p].requests[i].id = n /\ x = <<"waits", p, i>>
<1> DEFINE A == {<<"called", i>> : i \in {j \in DOMAIN called : called[j] = n}}
           B == {<<"queued", i>> : i \in {j \in DOMAIN queue : queue[j].kind = "CREATED" /\ queue[j].id = n}}
           W(p) == {<<"waits", p, i>> : i \in {j \in DOMAIN session[p].requests :
                                                  session[p].requests[j].id = n}}
<1>1. x \in A <=> \E i \in DOMAIN called : called[i] = n /\ x = <<"called", i>>
  BY Zenon
<1>2. x \in B <=> \E i \in DOMAIN queue : queue[i].kind = "CREATED" /\ queue[i].id = n /\ x = <<"queued", i>>
  BY Zenon
<1>3. ASSUME NEW p \in Observers
      PROVE  x \in W(p) <=> \E i \in DOMAIN session[p].requests :
                              session[p].requests[i].id = n /\ x = <<"waits", p, i>>
  BY Zenon
<1>4. Places(n) = A \cup B \cup UNION {W(p) : p \in Observers}
  BY DEF Places
<1> HIDE DEF A, B, W
<1>5. x \in Places(n) <=> x \in A \/ x \in B \/ \E p \in Observers : x \in W(p)
  BY <1>4
<1> QED
  BY <1>1, <1>2, <1>3, <1>5

LEMMA OnePlace ==
  ASSUME RequestInv, NEW n \in 1 .. asked
  PROVE  \E place \in Places(n) : Places(n) = {place}
<1> DEFINE InCalled(x) == \E i \in DOMAIN called : called[i] = n /\ x = <<"called", i>>
           InQueue(x) == \E i \in DOMAIN queue :
                           queue[i].kind = "CREATED" /\ queue[i].id = n /\ x = <<"queued", i>>
           InSession(p, x) == \E i \in DOMAIN session[p].requests :
                           session[p].requests[i].id = n /\ x = <<"waits", p, i>>
<1>1. \A x : x \in Places(n) <=> InCalled(x) \/ InQueue(x) \/ \E p \in Observers : InSession(p, x)
  BY PlaceMembers
<1>2. Accounts(called, queue, Waiting, asked) /\ \A p \in Observers : Waiting[p] = session[p].requests
  BY DEF RequestInv, Waiting
<1>3. /\ n \in Range(called) => n \notin AnswerIds(queue)
      /\ \A p \in Observers : n \in RequestIds(Waiting[p]) =>
           /\ n \notin Range(called) /\ n \notin AnswerIds(queue)
           /\ \A r \in Observers : n \in RequestIds(Waiting[r]) => r = p
      /\ n \in Range(called) \/ n \in AnswerIds(queue) \/ \E p \in Observers : n \in RequestIds(Waiting[p])
  BY <1>2 DEF Accounts
<1>4. Once(called) /\ AnswersOnce(queue) /\ \A p \in Observers : RequestsOnce(session[p].requests)
  BY <1>2 DEF Accounts
<1>5. /\ \A x : InCalled(x) => n \in Range(called)
      /\ \A x : InQueue(x) => n \in AnswerIds(queue)
      /\ \A x : \A p \in Observers : InSession(p, x) => n \in RequestIds(Waiting[p])
  <2>1. \A x : InCalled(x) => n \in Range(called)
    BY Members
  <2>2. \A x : InQueue(x) => n \in AnswerIds(queue)
    BY Members
  <2>3. \A p \in Observers : \A x : InSession(p, x) => n \in RequestIds(session[p].requests)
    BY Members
  <2> QED
    BY <1>2, <2>1, <2>2, <2>3
<1>6. CASE n \in Range(called)
  <2>1. PICK i \in DOMAIN called : called[i] = n
    BY <1>6, Members
  <2>2. \A j \in DOMAIN called : called[j] = n => j = i
    BY <1>4, <2>1 DEF Once
  <2>3. \A x : InCalled(x) <=> x = <<"called", i>>
    BY <2>1, <2>2
  <2>4. \A x : ~InQueue(x) /\ \A p \in Observers : ~InSession(p, x)
    BY <1>3, <1>5, <1>6
  <2> HIDE DEF InCalled, InQueue, InSession
  <2>5. \A x : x \in Places(n) <=> x = <<"called", i>>
    BY <1>1, <2>3, <2>4
  <2>6. Places(n) = {<<"called", i>>}
    BY <2>5
  <2> QED
    BY <2>6
<1>7. CASE n \in AnswerIds(queue)
  <2>1. PICK i \in DOMAIN queue : queue[i].kind = "CREATED" /\ queue[i].id = n
    BY <1>7, Members
  <2>2. \A j \in DOMAIN queue : queue[j].kind = "CREATED" /\ queue[j].id = n => j = i
    BY <1>4, <2>1 DEF AnswersOnce
  <2>3. \A x : InQueue(x) <=> x = <<"queued", i>>
    BY <2>1, <2>2
  <2>4. \A x : ~InCalled(x) /\ \A p \in Observers : ~InSession(p, x)
    BY <1>3, <1>5, <1>7
  <2> HIDE DEF InCalled, InQueue, InSession
  <2>5. \A x : x \in Places(n) <=> x = <<"queued", i>>
    BY <1>1, <2>3, <2>4
  <2>6. Places(n) = {<<"queued", i>>}
    BY <2>5
  <2> QED
    BY <2>6
<1>8. ASSUME NEW p \in Observers, n \in RequestIds(Waiting[p])
      PROVE  \E place \in Places(n) : Places(n) = {place}
  <2> DEFINE rs == session[p].requests
  <2>1. PICK i \in DOMAIN rs : rs[i].id = n
    <3>1. n \in RequestIds(rs)
      BY <1>2, <1>8
    <3> HIDE DEF rs
    <3> QED
      BY <3>1, Members
  <2>2. \A j \in DOMAIN rs : rs[j].id = n => j = i
    BY <1>4, <2>1 DEF RequestsOnce
  <2>3. \A x : InSession(p, x) <=> x = <<"waits", p, i>>
    BY <2>1, <2>2
  <2>4. \A x : ~InCalled(x) /\ ~InQueue(x) /\ \A r \in Observers : r # p => ~InSession(r, x)
    BY <1>3, <1>5, <1>8
  <2> HIDE DEF InCalled, InQueue, InSession
  <2>5. \A x : x \in Places(n) <=> x = <<"waits", p, i>>
    BY <1>1, <2>3, <2>4
  <2>6. Places(n) = {<<"waits", p, i>>}
    BY <2>5
  <2> QED
    BY <2>6
<1> QED
  BY <1>3, <1>6, <1>7, <1>8

LEMMA RequestInvImplies == RequestInv => DescriptionsPresent /\ CandidatesUsed /\ RequestsAccounted
<1> SUFFICES ASSUME RequestInv PROVE DescriptionsPresent /\ CandidatesUsed /\ RequestsAccounted
  OBVIOUS
<1>1. /\ \A p \in Observers : SessionOK(session[p])
      /\ session \in [Observers -> WebRtcSession] /\ WaitInv
  BY DEF RequestInv, SessionInv, TypeInv
<1>2. DescriptionsPresent
  BY <1>1 DEF DescriptionsPresent, SessionOK, HasDescriptions
<1>3. CandidatesUsed
  BY <1>1 DEF CandidatesUsed, SessionOK, Negotiated
<1>4. RequestsAccounted
  <2>1. \A n \in 1 .. asked : \E place \in Places(n) : Places(n) = {place}
    BY OnePlace
  <2>2. ASSUME NEW p \in Observers, session[p].requests # << >>
        PROVE  /\ session[p].life = "alive" /\ session[p].certificate = "WAITING"
               /\ \/ p \in Range(request_observers)
                  \/ \E m \in Range(queue) : m.kind = "CERTIFICATE" /\ m.peer = p
    <3>1. session[p].life = "alive" /\ session[p].certificate = "WAITING"
      BY <1>1, <2>2, Zenon DEF WaitInv
    <3>2. Notified(p)
      BY <1>1, <3>1, Zenon DEF WaitInv
    <3> QED
      BY <3>1, <3>2, Zenon DEF Notified
  <2> QED
    BY <2>1, <2>2, Zenon DEF RequestsAccounted
<1> QED
  BY <1>2, <1>3, <1>4

\* The inductive invariant holds in every state of the sessions, together with the one
\* of the store they share.
THEOREM SessionInvariance == SessionSpec => []RequestInv
<1>1. SessionSpec => []CountInv
  BY SessionCounts
<1> QED
  BY <1>1, InitRequestInv, NextRequestInv, PTL DEF SessionSpec

\* For any number of peer connections and any calls, in any order and with any of them
\* failing, an answer is only taken when the offer it answers is there: what
\* WebRtcSession dereferences without a test.
THEOREM SessionDescriptionsPresent == SessionSpec => []DescriptionsPresent
  BY SessionInvariance, RequestInvImplies, PTL

\* WebRtcSession gives every candidate it accepted to a transport that has both
\* descriptions, however early the candidate came, unless the remote side restarted ICE
\* or a description failed half way.
THEOREM SessionCandidatesUsed == SessionSpec => []CandidatesUsed
  BY SessionInvariance, RequestInvImplies, PTL

\* The factory loses no request and answers none twice: each is in exactly one place
\* until its observer was called back, and while requests wait for the certificate
\* their session is alive and what ends the wait is on its way.  It holds however the
\* store, its worker, the messages and the destructors are interleaved.
THEOREM SessionRequestsAccounted == SessionSpec => []RequestsAccounted
  BY SessionInvariance, RequestInvImplies, PTL
=============================================================================
