--------------------------- MODULE MCDataChannel ---------------------------
(* Model-checking instance of DataChannel: the first message is smaller    *)
(* than the others, so that a queue can end below, at and above its limit. *)
EXTENDS DataChannel

MCMessages == 1 .. MaxMsgs
MCSize == [m \in MCMessages |-> IF m = 1 THEN 1 ELSE 2]
=============================================================================
