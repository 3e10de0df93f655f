--------------------------- MODULE MCPacerFairness ---------------------------
(* Instances of PacerFairness for TLC. *)
EXTENDS PacerFairness

CONSTANTS c1, c2, c3

WantsThree == [c \in Conn |-> 3]

OneGroup == {{c1, c2}}

\* The connection that has its sink to itself.
TrimsTwo == [c \in Conn |-> IF c = c3 THEN 2 ELSE 0]

=============================================================================
