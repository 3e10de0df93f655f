---------------------------- MODULE SocketContract ----------------------------
(***************************************************************************)
(* What the transport promises an application about one connection: which  *)
(* indications it is told, in which order and how often.                   *)
(*                                                                         *)
(* A connection is established once, at the start.  The application is     *)
(* told that the peer has closed at most twice: a receiver tells it at the *)
(* end of the transfer and again when the peer's FIN arrives.  One final   *)
(* indication ends the story, and an application that aborts is told       *)
(* nothing afterwards.                                                     *)
(***************************************************************************)
EXTENDS Integers, Sequences, SequencesExt, FiniteSets

CONSTANT Endpoint

VARIABLES
    told,       \* the indications each application has been sent
    aborted     \* the connection has processed an abort

vars == <<told, aborted>>

Init ==
    /\ told = [e \in Endpoint |-> <<>>]
    /\ aborted = [e \in Endpoint |-> FALSE]

IsOver(e) == aborted[e] \/ Contains(told[e], "CLOSED") \/ Contains(told[e], "TIMED_OUT")

Tell(e, indications) ==
    /\ ~IsOver(e)
    /\ told' = [told EXCEPT ![e] = @ \o indications]
    /\ UNCHANGED aborted

TellEstablished(e) == told[e] = <<>> /\ Tell(e, <<"ESTABLISHED">>)

TellPeerClosed(e) ==
    /\ Cardinality({i \in 1 .. Len(told[e]) : told[e][i] = "PEER_CLOSED"}) < 2
    /\ Tell(e, <<"PEER_CLOSED">>)

TellReset(e) == told[e] = <<>> /\ Tell(e, <<"CONNECTION_RESET", "CLOSED">>)

TellTimedOut(e) == Tell(e, <<"TIMED_OUT">>)

TellClosed(e) == Tell(e, <<"CLOSED">>)

\* A close that the peer has answered may still be followed by an abort, a timeout not.
Abort(e) ==
    /\ ~aborted[e]
    /\ ~Contains(told[e], "TIMED_OUT")
    /\ aborted' = [aborted EXCEPT ![e] = TRUE]
    /\ UNCHANGED told

Next ==
    \E e \in Endpoint :
        \/ TellEstablished(e)
        \/ TellPeerClosed(e)
        \/ TellReset(e)
        \/ TellTimedOut(e)
        \/ TellClosed(e)
        \/ Abort(e)

Spec == Init /\ [][Next]_vars

=============================================================================
