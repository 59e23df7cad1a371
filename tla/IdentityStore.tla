--------------------------- MODULE IdentityStore ---------------------------
(***************************************************************************)
(* webrtc::DtlsIdentityStoreImpl (talk/app/webrtc/dtlsidentitystore.cc):   *)
(* the DTLS identities of all peer connections, generated on the worker    *)
(* thread and handed out on the signaling thread.                          *)
(*                                                                         *)
(* One RequestInfo is modelled, that of the key type everybody asks for.   *)
(* The worker thread is not the signaling thread, so RSA identities are    *)
(* generated preemptively.  An identity is the number of its generation,   *)
(* None the null pointer, an identity that could not be generated.  Every  *)
(* WorkerTask does the same, so those posted to the worker thread are a    *)
(* number; MSG_GENERATE_IDENTITY_RESULT messages are handled in the order  *)
(* in which they were posted.                                              *)
(***************************************************************************)
EXTENDS Naturals, Sequences

CONSTANTS
  Observers,     \* observers, each of which requests one identity
  KeyTypes       \* key types they may all ask for

ASSUME KeyTypesAssumption == KeyTypes \subseteq {"RSA", "ECDSA"}

None == 0

VARIABLES
  key_type,
  request_observers, gen_in_progress_counts, free_identity,
  tasks,         \* number of tasks the worker thread has still to run
  results,       \* identities in the result messages, oldest first
  generated,     \* number of identities generated
  requested,     \* observers that have requested an identity
  answers,       \* answers[o]: what o was given, oldest first
  alive          \* the store exists

storeVars == <<key_type, request_observers, gen_in_progress_counts, free_identity, tasks, results,
               generated, requested, answers, alive>>

TypeOK ==
  /\ key_type \in KeyTypes
  /\ request_observers \in Seq(Observers)
  /\ gen_in_progress_counts \in Nat
  /\ free_identity \in 0 .. generated
  /\ tasks \in Nat
  /\ results \in Seq(0 .. generated)
  /\ generated \in Nat
  /\ requested \in SUBSET Observers
  /\ answers \in [Observers -> Seq(0 .. generated)]
  /\ alive \in BOOLEAN

\* Identities are generated before they are asked for.
Preemptive == key_type = "RSA"

\* The constructor generates a first identity in the background.
Init ==
  /\ key_type \in KeyTypes
  /\ request_observers = << >> /\ free_identity = None
  /\ tasks = (IF Preemptive THEN 1 ELSE 0)
  /\ gen_in_progress_counts = tasks
  /\ results = << >> /\ generated = 0
  /\ requested = {} /\ answers = [o \in Observers |-> << >>]
  /\ alive = TRUE

-----------------------------------------------------------------------------
\* Mutant: the free identity is handed out and kept.
UseFreeIdentityKeepsIt ==
  /\ gen_in_progress_counts' = gen_in_progress_counts + 1
  /\ results' = Append(results, free_identity)
  /\ UNCHANGED <<free_identity, tasks>>

\* The free identity is returned through a message, as if it had been generated.
UseFreeIdentity ==
  /\ gen_in_progress_counts' = gen_in_progress_counts + 1
  /\ results' = Append(results, free_identity)
  /\ free_identity' = None
  /\ UNCHANGED tasks

PostTask ==
  /\ tasks' = tasks + 1
  /\ gen_in_progress_counts' = gen_in_progress_counts + 1

\* Mutant: tested before the observer is in the queue.
BeingGeneratedTooEarly == gen_in_progress_counts = Len(request_observers)

\* There is one identity more on its way than there are observers that wait for one.
BeingGenerated == gen_in_progress_counts = Len(request_observers) + 1

RequestIdentity(o) ==
  /\ alive /\ o \notin requested
  /\ requested' = requested \cup {o}
  /\ request_observers' = Append(request_observers, o)
  /\ \/ free_identity # None /\ UseFreeIdentity
     \/ /\ free_identity = None /\ BeingGenerated
        /\ UNCHANGED <<gen_in_progress_counts, tasks, free_identity, results>>
     \/ /\ free_identity = None /\ ~BeingGenerated
        /\ PostTask
        /\ UNCHANGED <<free_identity, results>>
  /\ UNCHANGED <<key_type, generated, answers, alive>>

\* The worker thread runs a task; SSLIdentity::Generate may fail.
GenerateIdentity_w ==
  /\ tasks > 0
  /\ tasks' = tasks - 1
  /\ \/ generated' = generated + 1 /\ results' = Append(results, generated + 1)
     \/ generated' = generated /\ results' = Append(results, None)
  /\ UNCHANGED <<key_type, request_observers, gen_in_progress_counts, free_identity, requested, answers, alive>>

\* Another identity is generated in the background.
GeneratesAnother ==
  Preemptive /\ free_identity = None
    /\ Len(request_observers) - 1 <= gen_in_progress_counts - 1

\* A result message: the identity goes to the first observer, or is kept.
OnIdentityGenerated ==
  /\ results # << >>
  /\ results' = Tail(results)
  /\ \/ /\ request_observers = << >>
        /\ free_identity' = Head(results)
        /\ gen_in_progress_counts' = gen_in_progress_counts - 1
        /\ UNCHANGED <<request_observers, tasks, answers>>
     \/ /\ request_observers # << >>
        /\ request_observers' = Tail(request_observers)
        /\ answers' = [answers EXCEPT ![Head(request_observers)] = Append(@, Head(results))]
        /\ IF GeneratesAnother
           THEN tasks' = tasks + 1 /\ UNCHANGED gen_in_progress_counts
           ELSE gen_in_progress_counts' = gen_in_progress_counts - 1 /\ UNCHANGED tasks
        /\ UNCHANGED free_identity
  /\ UNCHANGED <<key_type, generated, requested, alive>>

\* The destructor: the messages for the store are removed, and the tasks no longer
\* pass their results on.
Destroy ==
  /\ alive /\ alive' = FALSE
  /\ results' = << >> /\ tasks' = 0
  /\ UNCHANGED <<key_type, request_observers, gen_in_progress_counts, free_identity, generated,
                requested, answers>>

Next ==
  \/ \E o \in Observers : RequestIdentity(o)
  \/ GenerateIdentity_w \/ OnIdentityGenerated \/ Destroy

Spec == Init /\ [][Next]_storeVars

-----------------------------------------------------------------------------
(* Properties *)

\* Every observer that waits has an identity on its way, and the counter is the
\* number of identities that are: it does not underflow.
Promised ==
  alive => /\ gen_in_progress_counts = tasks + Len(results)
           /\ Len(request_observers) <= gen_in_progress_counts

\* No private key is shared: an identity is in one place, and whoever waits was not
\* answered yet.
KeysDistinct ==
  /\ \A o \in Observers : Len(answers[o]) <= 1
  /\ \A o, p \in Observers : \A i \in DOMAIN answers[o], j \in DOMAIN answers[p] :
       answers[o][i] = answers[p][j] /\ answers[o][i] # None => o = p
  /\ \A o \in Observers : \A i \in DOMAIN answers[o] : answers[o][i] # None =>
       answers[o][i] # free_identity /\ \A j \in DOMAIN results : results[j] # answers[o][i]

\* dtlsidentitystore.cc: RTC_DCHECK(!request_info_[key_type].free_identity_.get()), when
\* an identity without an observer is kept.
OneFreeIdentity == [][OnIdentityGenerated /\ request_observers = << >> => free_identity = None]_storeVars
=============================================================================
