------------------------------ MODULE BytePipe ------------------------------
(***************************************************************************)
(* What a reliable byte stream promises the two applications that use it:  *)
(* in each direction the bytes that were read are a prefix of the bytes    *)
(* that were written, and what was read or written is not taken back.      *)
(***************************************************************************)
EXTENDS Sequences, SequencesExt

CONSTANT Ends

VARIABLES
  sent,    \* sent[e]: the bytes written at e
  got      \* got[e]: those of them that were read at the other end

Init ==
  /\ sent = [e \in Ends |-> << >>]
  /\ got = [e \in Ends |-> << >>]

\* The application at e writes some more bytes.
Write(e) ==
  /\ IsStrictPrefix(sent[e], sent'[e])
  /\ sent' = [sent EXCEPT ![e] = sent'[e]]
  /\ UNCHANGED got

\* The application at the other end reads some more of them.
Read(e) ==
  /\ \E n \in Len(got[e]) + 1 .. Len(sent[e]) : got' = [got EXCEPT ![e] = SubSeq(sent[e], 1, n)]
  /\ UNCHANGED sent

Next == \E e \in Ends : Write(e) \/ Read(e)

Spec == Init /\ [][Next]_<<sent, got>>
=============================================================================
