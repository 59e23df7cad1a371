----------------------------- MODULE MCThreads -----------------------------
(* Model-checking instance of Threads.                                     *)
EXTENDS Threads

CONSTANTS a, b, c

\* As the signaling, worker and network threads are used: a and b send to each other,
\* and b waits for c meanwhile.
Path == {<<a, b>>, <<b, a>>, <<b, c>>}

AStopsB == {<<a, b>>}
=============================================================================
