---------------------------- MODULE TokenTransfer ----------------------------
(***************************************************************************)
(* What a pull-driven transfer promises, without symbols, requests, queues *)
(* or timers.  A connection starts with a window of tokens.  A token is a  *)
(* symbol in flight, a header in flight or a pull request that has not     *)
(* been answered; what the endpoints do may keep or lose tokens, and never *)
(* makes one.  A connection hands its sink one symbol at a time, tells it  *)
(* the end once, and a connection that belongs to a group ends early only  *)
(* when the group's sink has its quota.                                    *)
(***************************************************************************)
EXTENDS Integers, FiniteSets, Functions

CONSTANTS Conn, IW, Wanted, Groups, GroupQuota

VARIABLES
    tokens,      \* what may still turn into a symbol
    delivered,   \* symbols the sink has been given
    stopped,     \* the transfer asks for no more
    closed       \* the sink has been told the end

vars == <<tokens, delivered, stopped, closed>>

Init ==
    /\ tokens = [c \in Conn |-> IW]
    /\ delivered = [c \in Conn |-> 0]
    /\ stopped = [c \in Conn |-> FALSE]
    /\ closed = [c \in Conn |-> FALSE]

Spend(c) == tokens[c] > 0 /\ tokens' = [tokens EXCEPT ![c] = @ - 1]

Lose(c) == Spend(c) /\ UNCHANGED <<delivered, stopped, closed>>

\* A symbol for the sink; its token is spent or asks for the next symbol.
Deliver(c) ==
    /\ ~stopped[c]
    /\ ~closed[c]
    /\ Spend(c) \/ (tokens[c] > 0 /\ UNCHANGED tokens)
    /\ delivered' = [delivered EXCEPT ![c] = @ + 1]
    /\ closed' = [closed EXCEPT ![c] = delivered[c] + 1 = Wanted[c]]
    /\ UNCHANGED stopped

\* A symbol nobody wants any more.
Ignore(c) ==
    /\ stopped[c] \/ closed[c] \/ Wanted[c] = 0
    /\ Spend(c)
    /\ \/ closed' = [closed EXCEPT ![c] = TRUE] /\ UNCHANGED stopped
       \/ stopped' = [stopped EXCEPT ![c] = TRUE] /\ UNCHANGED closed
    /\ UNCHANGED delivered

StopGroup(g) ==
    /\ SumFunctionOnSet(delivered, g) >= GroupQuota
    /\ \E S \in SUBSET g : stopped' = [c \in Conn |-> stopped[c] \/ c \in S]
    /\ UNCHANGED <<tokens, delivered, closed>>

Next ==
    \/ \E c \in Conn : Lose(c) \/ Deliver(c) \/ Ignore(c)
    \/ \E g \in Groups : StopGroup(g)

Spec == Init /\ [][Next]_vars

=============================================================================
