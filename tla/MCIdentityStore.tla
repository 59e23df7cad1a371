-------------------------- MODULE MCIdentityStore --------------------------
(* Model-checking instance of IdentityStore.                               *)
EXTENDS IdentityStore
=============================================================================
