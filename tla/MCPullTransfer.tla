--------------------------- MODULE MCPullTransfer ---------------------------
(* Instances of PullTransfer for TLC. *)
EXTENDS PullTransfer

CONSTANTS c1, c2

WantsTwo    == [c \in Conn |-> 2]
WantsThree  == [c \in Conn |-> 3]

TrimsOne == [c \in Conn |-> 1]
TrimsTwo == [c \in Conn |-> 2]

NoGroups == {}
OneGroup == {{c1, c2}}

=============================================================================
