------------------------ MODULE IdentityStoreProofs ------------------------
(* Proofs about IdentityStore, for any number of observers.                *)
EXTENDS IdentityStore, TLAPS

\* A store that was destroyed has nothing left to do.
AfterDestroy == ~alive => tasks = 0 /\ results = << >>

\* Promised is inductive together with AfterDestroy; without the latter a result could
\* reach a store whose counter says that none is on its way.
CountInv == TypeOK /\ Promised /\ AfterDestroy

\* What Append and Tail do to a sequence, position by position.
LEMMA AppendFacts ==
  ASSUME NEW S, NEW s \in Seq(S), NEW e \in S
  PROVE  /\ Append(s, e) \in Seq(S)
         /\ Len(Append(s, e)) = Len(s) + 1
         /\ \A i \in 1 .. Len(s) : Append(s, e)[i] = s[i]
         /\ Append(s, e)[Len(s) + 1] = e
  OBVIOUS

LEMMA TailFacts ==
  ASSUME NEW S, NEW s \in Seq(S), s # << >>
  PROVE  /\ Tail(s) \in Seq(S)
         /\ Len(s) \in Nat /\ Len(s) > 0
         /\ Len(Tail(s)) = Len(s) - 1
         /\ \A i \in 1 .. Len(s) - 1 : Tail(s)[i] = s[i + 1]
         /\ Head(s) = s[1] /\ Head(s) \in S
  OBVIOUS

\* A sequence stays one when its set of elements grows.
LEMMA SeqGrows ==
  ASSUME NEW n \in Nat, NEW s \in Seq(0 .. n)
  PROVE  s \in Seq(0 .. n + 1)
  OBVIOUS

LEMMA InitCount == Init => CountInv
  BY KeyTypesAssumption DEF Init, CountInv, TypeOK, Promised, AfterDestroy, None, Preemptive

LEMMA RequestCount ==
  ASSUME CountInv, NEW o \in Observers, RequestIdentity(o)
  PROVE  CountInv'
<1>1. /\ request_observers' \in Seq(Observers)
      /\ Len(request_observers') = Len(request_observers) + 1
  BY AppendFacts DEF CountInv, TypeOK, RequestIdentity
<1>2. Len(request_observers) \in Nat /\ Len(results) \in Nat
  BY DEF CountInv, TypeOK
<1>3. alive /\ alive' = alive /\ generated' = generated /\ answers' = answers /\ key_type' = key_type
  BY DEF RequestIdentity
<1>4. requested' \in SUBSET Observers
  BY DEF CountInv, TypeOK, RequestIdentity
<1>5. CASE free_identity # None /\ UseFreeIdentity
  <2>1. results' \in Seq(0 .. generated) /\ Len(results') = Len(results) + 1
    BY <1>5, AppendFacts DEF CountInv, TypeOK, UseFreeIdentity
  <2>2. gen_in_progress_counts' = gen_in_progress_counts + 1 /\ tasks' = tasks /\ free_identity' = 0
    BY <1>5 DEF UseFreeIdentity, None
  <2> QED BY <1>1, <1>2, <1>3, <1>4, <2>1, <2>2 DEF CountInv, TypeOK, Promised, AfterDestroy
<1>6. CASE BeingGenerated /\ UNCHANGED <<gen_in_progress_counts, tasks, free_identity, results>>
  BY <1>1, <1>2, <1>3, <1>4, <1>6 DEF CountInv, TypeOK, Promised, AfterDestroy, BeingGenerated
<1>7. CASE PostTask /\ UNCHANGED <<free_identity, results>>
  BY <1>1, <1>2, <1>3, <1>4, <1>7 DEF CountInv, TypeOK, Promised, AfterDestroy, PostTask
<1> QED BY <1>5, <1>6, <1>7 DEF RequestIdentity

LEMMA GenerateCount ==
  ASSUME CountInv, GenerateIdentity_w
  PROVE  CountInv'
<1>1. Len(results) \in Nat /\ tasks \in Nat /\ tasks > 0 /\ tasks' = tasks - 1 /\ alive' = alive /\ alive
  BY DEF CountInv, TypeOK, GenerateIdentity_w, AfterDestroy
<1>2. generated' \in Nat /\ generated' >= generated /\ generated \in Nat
      /\ (generated' = generated \/ generated' = generated + 1)
  BY DEF CountInv, TypeOK, GenerateIdentity_w
<1>3. results \in Seq(0 .. generated')
  BY <1>2, SeqGrows DEF CountInv, TypeOK
<1>4. \A o \in Observers : answers[o] \in Seq(0 .. generated')
  BY <1>2, SeqGrows DEF CountInv, TypeOK
<1>5. answers' \in [Observers -> Seq(0 .. generated')]
  BY <1>4 DEF CountInv, TypeOK, GenerateIdentity_w
<1>6. results' \in Seq(0 .. generated') /\ Len(results') = Len(results) + 1
  <2>1. CASE generated' = generated + 1 /\ results' = Append(results, generated + 1)
    <3>1. generated + 1 \in 0 .. generated' BY <1>2, <2>1
    <3> QED BY <1>3, <2>1, <3>1, AppendFacts
  <2>2. CASE generated' = generated /\ results' = Append(results, None)
    <3>1. None \in 0 .. generated' BY <1>2 DEF None
    <3> QED BY <1>3, <2>2, <3>1, AppendFacts
  <2> QED BY <2>1, <2>2 DEF GenerateIdentity_w
<1>7. free_identity' \in 0 .. generated'
  BY <1>2 DEF CountInv, TypeOK, GenerateIdentity_w
<1>8. TypeOK'
  BY <1>1, <1>2, <1>5, <1>6, <1>7 DEF CountInv, TypeOK, GenerateIdentity_w
<1>9. Promised' /\ AfterDestroy'
  BY <1>1, <1>6 DEF CountInv, TypeOK, Promised, AfterDestroy, GenerateIdentity_w
<1> QED BY <1>8, <1>9 DEF CountInv

LEMMA OnGeneratedCount ==
  ASSUME CountInv, OnIdentityGenerated
  PROVE  CountInv'
<1>1. /\ results' \in Seq(0 .. generated) /\ Len(results') = Len(results) - 1
      /\ Len(results) \in Nat /\ Len(results) > 0 /\ Head(results) \in 0 .. generated
  BY TailFacts DEF CountInv, TypeOK, OnIdentityGenerated
<1>2. alive /\ alive' = alive /\ generated' = generated /\ requested' = requested /\ key_type' = key_type
  BY DEF CountInv, AfterDestroy, OnIdentityGenerated
<1>3. CASE request_observers = << >>
  <2>1. /\ free_identity' = Head(results) /\ gen_in_progress_counts' = gen_in_progress_counts - 1
        /\ UNCHANGED <<request_observers, tasks, answers>>
    BY <1>3 DEF OnIdentityGenerated
  <2>2. Len(request_observers) = 0 BY <1>3
  <2> QED BY <1>1, <1>2, <2>1, <2>2 DEF CountInv, TypeOK, Promised, AfterDestroy
<1>4. CASE request_observers # << >>
  <2>1. /\ request_observers' \in Seq(Observers) /\ Len(request_observers) \in Nat
        /\ Len(request_observers) > 0 /\ Len(request_observers') = Len(request_observers) - 1
        /\ Head(request_observers) \in Observers
    BY <1>4, TailFacts DEF CountInv, TypeOK, OnIdentityGenerated
  <2>2. answers' = [answers EXCEPT ![Head(request_observers)] = Append(@, Head(results))]
        /\ free_identity' = free_identity
    BY <1>4 DEF OnIdentityGenerated
  <2>3. Append(answers[Head(request_observers)], Head(results)) \in Seq(0 .. generated)
    BY <1>1, <2>1, AppendFacts DEF CountInv, TypeOK
  <2>4. answers' \in [Observers -> Seq(0 .. generated)]
    BY <2>2, <2>3 DEF CountInv, TypeOK
  <2>5. \/ tasks' = tasks + 1 /\ gen_in_progress_counts' = gen_in_progress_counts
        \/ tasks' = tasks /\ gen_in_progress_counts' = gen_in_progress_counts - 1
    BY <1>4 DEF OnIdentityGenerated
  <2>6. gen_in_progress_counts = tasks + Len(results) /\ Len(request_observers) <= gen_in_progress_counts
    BY <1>2 DEF CountInv, Promised
  <2>7. tasks \in Nat /\ gen_in_progress_counts \in Nat
    BY DEF CountInv, TypeOK
  <2>8. tasks' \in Nat /\ gen_in_progress_counts' \in Nat
        /\ gen_in_progress_counts' = tasks' + Len(results') /\ Len(request_observers') <= gen_in_progress_counts'
    BY <1>1, <2>1, <2>5, <2>6, <2>7
  <2> QED BY <1>1, <1>2, <2>1, <2>2, <2>4, <2>8 DEF CountInv, TypeOK, Promised, AfterDestroy
<1> QED BY <1>3, <1>4

LEMMA DestroyCount ==
  ASSUME CountInv, Destroy
  PROVE  CountInv'
<1>1. tasks' = 0 /\ results' = << >> /\ ~alive' /\ alive' = FALSE
  BY DEF Destroy
<1>2. results' \in Seq(0 .. generated)
  BY <1>1
<1>3. TypeOK'
  <2>1. alive' \in BOOLEAN BY <1>1
  <2>2. UNCHANGED <<key_type, request_observers, gen_in_progress_counts, free_identity, generated,
                    requested, answers>>
    BY DEF Destroy
  <2> QED BY <1>1, <1>2, <2>1, <2>2 DEF CountInv, TypeOK
<1>4. Promised' /\ AfterDestroy'
  BY <1>1 DEF Promised, AfterDestroy
<1> QED BY <1>3, <1>4 DEF CountInv

\* TypeOK, Promised and AfterDestroy are preserved by every step of the store.
LEMMA CountStep == CountInv /\ [Next]_storeVars => CountInv'
<1> SUFFICES ASSUME CountInv, [Next]_storeVars PROVE CountInv'
  OBVIOUS
<1>1. CASE \E o \in Observers : RequestIdentity(o)
  BY <1>1, RequestCount
<1>2. CASE GenerateIdentity_w \/ OnIdentityGenerated \/ Destroy
  BY <1>2, GenerateCount, OnGeneratedCount, DestroyCount
<1>3. CASE UNCHANGED storeVars
  BY <1>3 DEF CountInv, TypeOK, Promised, AfterDestroy, storeVars
<1> QED BY <1>1, <1>2, <1>3 DEF Next

\* The counter of identities on their way is right, and covers whoever waits: for any
\* number of observers, in every state of the store.
THEOREM StorePromised == Spec => []Promised
<1>1. CountInv => Promised BY DEF CountInv
<1> QED BY <1>1, InitCount, CountStep, PTL DEF Spec

-----------------------------------------------------------------------------
(* Private keys *)

\* The identities in result messages are distinct, and none of them is the free one.
ResultsDistinct ==
  /\ \A i, j \in DOMAIN results : results[i] = results[j] /\ results[i] # None => i = j
  /\ \A i \in DOMAIN results : results[i] # None => results[i] # free_identity

\* Whoever waits does so once, has made a request and was not answered; whoever has
\* made none was not answered either.
WaitingUnanswered ==
  /\ \A i, j \in DOMAIN request_observers : request_observers[i] = request_observers[j] => i = j
  /\ \A i \in DOMAIN request_observers :
       request_observers[i] \in requested /\ answers[request_observers[i]] = << >>
  /\ \A o \in Observers \ requested : answers[o] = << >>

\* KeysDistinct says nothing of where an identity comes from before it is answered, nor
\* of the observers that will be: the two conjuncts above do.
KeyInv == KeysDistinct /\ ResultsDistinct /\ WaitingUnanswered

LEMMA InitKeys == Init => KeyInv
<1> SUFFICES ASSUME Init PROVE KeyInv
  OBVIOUS
<1>1. results = << >> /\ request_observers = << >> /\ \A o \in Observers : answers[o] = << >>
  BY DEF Init
<1> QED BY <1>1 DEF KeyInv, KeysDistinct, ResultsDistinct, WaitingUnanswered

LEMMA RequestKeys ==
  ASSUME CountInv, KeyInv, NEW o \in Observers, RequestIdentity(o)
  PROVE  KeyInv'
<1>1. /\ \A i \in 1 .. Len(request_observers) : request_observers'[i] = request_observers[i]
      /\ request_observers'[Len(request_observers) + 1] = o
      /\ Len(request_observers) \in Nat
      /\ DOMAIN request_observers' = 1 .. Len(request_observers) + 1
      /\ DOMAIN request_observers = 1 .. Len(request_observers)
  BY AppendFacts DEF CountInv, TypeOK, RequestIdentity
<1>2. answers' = answers /\ requested' = requested \cup {o} /\ o \notin requested
  BY DEF RequestIdentity
<1>3. WaitingUnanswered'
  BY <1>1, <1>2 DEF KeyInv, WaitingUnanswered
<1>4. CASE free_identity # None /\ UseFreeIdentity
  <2>1. /\ \A i \in 1 .. Len(results) : results'[i] = results[i]
        /\ results'[Len(results) + 1] = free_identity
        /\ Len(results) \in Nat
        /\ DOMAIN results' = 1 .. Len(results) + 1
        /\ DOMAIN results = 1 .. Len(results)
    BY <1>4, AppendFacts DEF CountInv, TypeOK, UseFreeIdentity
  <2>2. free_identity' = None
    BY <1>4 DEF UseFreeIdentity
  <2>3. ResultsDistinct'
    BY <2>1, <2>2 DEF KeyInv, ResultsDistinct
  <2>4. KeysDistinct'
    BY <1>2, <2>1, <2>2 DEF KeyInv, KeysDistinct
  <2> QED BY <1>3, <2>3, <2>4 DEF KeyInv
<1>5. CASE UNCHANGED <<free_identity, results>>
  BY <1>2, <1>3, <1>5 DEF KeyInv, KeysDistinct, ResultsDistinct
<1> QED BY <1>4, <1>5 DEF RequestIdentity

LEMMA GenerateKeys ==
  ASSUME CountInv, KeyInv, GenerateIdentity_w
  PROVE  KeyInv'
<1>1. /\ \A i \in 1 .. Len(results) : results[i] \in 0 .. generated
      /\ DOMAIN results = 1 .. Len(results) /\ Len(results) \in Nat /\ generated \in Nat
      /\ free_identity \in 0 .. generated
  BY DEF CountInv, TypeOK
<1>2. \A o \in Observers : \A i \in DOMAIN answers[o] : answers[o][i] \in 0 .. generated
  BY DEF CountInv, TypeOK
<1>3. PICK e : results' = Append(results, e) /\ e \in {None, generated + 1}
  BY DEF GenerateIdentity_w
<1>4. e # None => e \notin 0 .. generated
  BY <1>1, <1>3
<1>5. /\ \A i \in 1 .. Len(results) : results'[i] = results[i]
      /\ results'[Len(results) + 1] = e
      /\ DOMAIN results' = 1 .. Len(results) + 1
  BY <1>1, <1>3, AppendFacts DEF CountInv, TypeOK, None
<1>6. UNCHANGED <<request_observers, free_identity, requested, answers>>
  BY DEF GenerateIdentity_w
<1>7. ResultsDistinct'
  BY <1>1, <1>4, <1>5, <1>6 DEF KeyInv, ResultsDistinct
<1>8. KeysDistinct'
  BY <1>1, <1>2, <1>4, <1>5, <1>6 DEF KeyInv, KeysDistinct
<1>9. WaitingUnanswered'
  BY <1>6 DEF KeyInv, WaitingUnanswered
<1> QED BY <1>7, <1>8, <1>9 DEF KeyInv

LEMMA OnGeneratedKeys ==
  ASSUME CountInv, KeyInv, OnIdentityGenerated
  PROVE  KeyInv'
<1> DEFINE k == Head(results)
<1>1. /\ \A i \in 1 .. Len(results) - 1 : results'[i] = results[i + 1]
      /\ k = results[1] /\ Len(results) \in Nat /\ Len(results) > 0
      /\ DOMAIN results = 1 .. Len(results)
      /\ DOMAIN results' = 1 .. Len(results) - 1
  BY TailFacts DEF CountInv, TypeOK, OnIdentityGenerated
<1>2. \A i, j \in DOMAIN results' : results'[i] = results'[j] /\ results'[i] # None => i = j
  BY <1>1 DEF KeyInv, ResultsDistinct
<1>3. \A i \in DOMAIN results' : results'[i] # None => results'[i] # k /\ results'[i] # free_identity
  BY <1>1 DEF KeyInv, ResultsDistinct
<1>4. \A o \in Observers : \A i \in DOMAIN answers[o] : answers[o][i] # None =>
        answers[o][i] # k /\ answers[o][i] # free_identity
          /\ \A j \in DOMAIN results' : results'[j] # answers[o][i]
  <2> SUFFICES ASSUME NEW o \in Observers, NEW i \in DOMAIN answers[o], answers[o][i] # None
               PROVE  answers[o][i] # k /\ answers[o][i] # free_identity
                        /\ \A j \in DOMAIN results' : results'[j] # answers[o][i]
    OBVIOUS
  <2>1. answers[o][i] # free_identity /\ \A j \in DOMAIN results : results[j] # answers[o][i]
    BY DEF KeyInv, KeysDistinct
  <2>2. 1 \in DOMAIN results /\ \A j \in DOMAIN results' : j + 1 \in DOMAIN results /\ results'[j] = results[j + 1]
    BY <1>1
  <2> QED BY <1>1, <2>1, <2>2
<1>5. requested' = requested
  BY DEF OnIdentityGenerated
<1>6. CASE request_observers = << >>
  <2>1. free_identity' = k /\ UNCHANGED <<request_observers, answers>>
    BY <1>6 DEF OnIdentityGenerated
  <2>2. ResultsDistinct'
    BY <1>2, <1>3, <2>1 DEF ResultsDistinct
  <2>3. KeysDistinct'
    BY <1>4, <2>1 DEF KeyInv, KeysDistinct
  <2>4. WaitingUnanswered'
    BY <1>5, <2>1 DEF KeyInv, WaitingUnanswered
  <2> QED BY <2>2, <2>3, <2>4 DEF KeyInv
<1>7. CASE request_observers # << >>
  <2> DEFINE h == Head(request_observers)
  <2>1. /\ \A i \in 1 .. Len(request_observers) - 1 : request_observers'[i] = request_observers[i + 1]
        /\ h = request_observers[1] /\ h \in Observers
        /\ Len(request_observers) \in Nat /\ Len(request_observers) > 0
        /\ DOMAIN request_observers = 1 .. Len(request_observers)
        /\ DOMAIN request_observers' = 1 .. Len(request_observers) - 1
    <3>1. request_observers \in Seq(Observers) /\ request_observers' = Tail(request_observers)
      BY <1>7 DEF CountInv, TypeOK, OnIdentityGenerated
    <3> QED BY <1>7, <3>1, TailFacts
  <2>2. free_identity' = free_identity /\ answers' = [answers EXCEPT ![h] = Append(@, k)]
    BY <1>7 DEF OnIdentityGenerated
  <2>3. h \in requested /\ answers[h] = << >>
    BY <2>1 DEF KeyInv, WaitingUnanswered
  <2>4. answers'[h] = Append(<< >>, k) /\ \A o \in Observers \ {h} : answers'[o] = answers[o]
    BY <2>1, <2>2, <2>3 DEF CountInv, TypeOK
  <2>5. DOMAIN answers'[h] = {1} /\ answers'[h][1] = k /\ Len(answers'[h]) = 1
    BY <2>4
  <2> HIDE DEF h, k
  <2>6. ResultsDistinct'
    BY <1>2, <1>3, <2>2 DEF ResultsDistinct
  <2>7. \A o \in Observers : Len(answers'[o]) <= 1
    <3> SUFFICES ASSUME NEW o \in Observers PROVE Len(answers'[o]) <= 1
      OBVIOUS
    <3>1. CASE o = h
      <4>1. Len(answers'[o]) = 1 BY <2>5, <3>1
      <4> QED BY <4>1
    <3>2. CASE o # h
      <4>1. answers'[o] = answers[o] BY <2>4, <3>2
      <4>2. Len(answers[o]) <= 1 BY DEF KeyInv, KeysDistinct
      <4> QED BY <4>1, <4>2
    <3> QED BY <3>1, <3>2
  <2>8. \A o, p \in Observers : \A i \in DOMAIN answers'[o], j \in DOMAIN answers'[p] :
          answers'[o][i] = answers'[p][j] /\ answers'[o][i] # None => o = p
    BY <1>4, <2>4, <2>5 DEF KeyInv, KeysDistinct
  <2>9. k # None => k # free_identity
    BY <1>1 DEF KeyInv, ResultsDistinct, k
  <2>10. \A o \in Observers : \A i \in DOMAIN answers'[o] : answers'[o][i] # None =>
           answers'[o][i] # free_identity /\ \A j \in DOMAIN results' : results'[j] # answers'[o][i]
    BY <1>3, <1>4, <2>4, <2>5, <2>9
  <2>11. KeysDistinct'
    BY <2>2, <2>7, <2>8, <2>10 DEF KeysDistinct
  <2>12. \A i \in DOMAIN request_observers' : request_observers'[i] # h
    BY <2>1 DEF KeyInv, WaitingUnanswered
  <2>13. \A i \in DOMAIN request_observers' : request_observers'[i] \in Observers
    <3>1. \A i \in DOMAIN request_observers : request_observers[i] \in Observers
      BY DEF CountInv, TypeOK
    <3>2. \A i \in DOMAIN request_observers' :
            i + 1 \in DOMAIN request_observers /\ request_observers'[i] = request_observers[i + 1]
      BY <2>1
    <3> QED BY <3>1, <3>2
  <2>14. \A i, j \in DOMAIN request_observers' : request_observers'[i] = request_observers'[j] => i = j
    BY <2>1 DEF KeyInv, WaitingUnanswered
  <2>15. \A i \in DOMAIN request_observers' :
           request_observers'[i] \in requested /\ answers[request_observers'[i]] = << >>
    <3>1. \A i \in DOMAIN request_observers' :
            i + 1 \in DOMAIN request_observers /\ request_observers'[i] = request_observers[i + 1]
      BY <2>1
    <3>2. \A i \in DOMAIN request_observers :
            request_observers[i] \in requested /\ answers[request_observers[i]] = << >>
      BY DEF KeyInv, WaitingUnanswered
    <3> QED BY <3>1, <3>2
  <2>16. WaitingUnanswered'
    BY <1>5, <2>3, <2>4, <2>12, <2>13, <2>14, <2>15 DEF KeyInv, WaitingUnanswered
  <2> QED BY <2>6, <2>11, <2>16 DEF KeyInv
<1> QED BY <1>6, <1>7

LEMMA DestroyKeys ==
  ASSUME KeyInv, Destroy
  PROVE  KeyInv'
<1>1. results' = << >> /\ UNCHANGED <<request_observers, free_identity, requested, answers>>
  BY DEF Destroy
<1>2. DOMAIN results' = {}
  BY <1>1
<1> QED BY <1>1, <1>2 DEF KeyInv, KeysDistinct, ResultsDistinct, WaitingUnanswered

\* Every step of the store keeps each identity in one place.
LEMMA KeyStep == CountInv /\ KeyInv /\ [Next]_storeVars => KeyInv'
<1> SUFFICES ASSUME CountInv, KeyInv, [Next]_storeVars PROVE KeyInv'
  OBVIOUS
<1>1. CASE \E o \in Observers : RequestIdentity(o)
  BY <1>1, RequestKeys
<1>2. CASE GenerateIdentity_w \/ OnIdentityGenerated \/ Destroy
  BY <1>2, GenerateKeys, OnGeneratedKeys, DestroyKeys
<1>3. CASE UNCHANGED storeVars
  BY <1>3 DEF KeyInv, KeysDistinct, ResultsDistinct, WaitingUnanswered, storeVars
<1> QED BY <1>1, <1>2, <1>3 DEF Next

\* No two peer connections are given the same private key, and none is given two: for
\* any number of observers, also with spare identities and when generation fails.
THEOREM StoreKeysDistinct == Spec => []KeysDistinct
<1>1. KeyInv => KeysDistinct BY DEF KeyInv
<1> QED BY <1>1, InitCount, CountStep, InitKeys, KeyStep, PTL DEF Spec
=============================================================================
