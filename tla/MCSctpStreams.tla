--------------------------- MODULE MCSctpStreams ---------------------------
(* Model-checking instance of SctpStreams.                                 *)
EXTENDS SctpStreams
=============================================================================
