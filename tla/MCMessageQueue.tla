--------------------------- MODULE MCMessageQueue ---------------------------
(* Model-checking instance of MessageQueue.                                *)
EXTENDS MessageQueue

\* Two messages posted one after the other may have different due times, in either
\* order, and be triggered in one scan.
MCDelays == {1, 2}

\* A stretch of time in which the clock does not wrap, and in which Get waits with
\* delayed messages in the heap, and one in which it wraps.
MCPeriods == {<<2, 5>>, <<15, 17>>}
=============================================================================
