----------------------------- MODULE MCSession -----------------------------
(* Model-checking instance of Session.                                     *)
EXTENDS Session

CONSTANTS p1, p2

\* Two peer connections share the store, and may be deleted while an identity is generated.
Shared ==
  [peers |-> {p1, p2}, source |-> "store", key_type |-> "RSA", calls |-> 4, remote_ufrags |-> {},
   methods |-> {"CreateOffer", "Destroy"}, fails |-> FALSE]

\* One peer connection negotiates.
Negotiates ==
  [peers |-> {p1}, source |-> "none", key_type |-> "ECDSA", calls |-> 7, remote_ufrags |-> {1, 2},
   methods |-> Methods \ {"Destroy"}, fails |-> FALSE]

\* One peer connection with a certificate of its own, where everything may fail.
Fails ==
  [peers |-> {p1}, source |-> "parameter", key_type |-> "ECDSA", calls |-> 5, remote_ufrags |-> {1},
   methods |-> Methods, fails |-> TRUE]

\* RSA is what KT_DEFAULT stands for; no ECDSA identity is generated in advance, so that
\* the store is idle where no peer connection asks it.
MCScenarios == {Shared, [Shared EXCEPT !.key_type = "ECDSA"], Negotiates, Fails}
=============================================================================
