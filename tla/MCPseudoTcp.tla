---------------------------- MODULE MCPseudoTcp ----------------------------
(* Model-checking instances of PseudoTcp.                                  *)
EXTENDS PseudoTcp

\* A sends more than a window; or B, which did not connect, sends.
AWrites == [p \in Peers |-> IF p = "A" THEN 3 ELSE 0]
BWrites == [p \in Peers |-> IF p = "B" THEN 2 ELSE 0]

\* The network accepts the smaller of two segment sizes; or there is one size.
TwoSizes == <<2, 1>>
OneSize == <<1>>
=============================================================================
