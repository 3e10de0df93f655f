------------------------------ MODULE RQStates ------------------------------
(***************************************************************************)
(* The state machine of an RQConnection: its states, where an event leads, *)
(* what entering a state tells the application and which timers survive,   *)
(* and the segment handler of the states in which no data flows.           *)
(***************************************************************************)
EXTENDS Integers, Sequences

States == {"INIT", "CLOSED", "LISTEN", "SYN_SENT", "SYN_RCVD", "ESTABLISHED", "CLOSE_WAIT",
           "LAST_ACK", "FIN_WAIT_1", "FIN_WAIT_2", "CLOSING", "TIME_WAIT"}

Timers == {"CONN_ESTAB", "TIMEOUT_2MSL", "REXMIT"}

\* performStateTransition: where an event leads; an event that is not listed stays.
Moves ==
    [INIT        |-> [OPEN_ACTIVE |-> "SYN_SENT"],
     LISTEN      |-> [CLOSE |-> "CLOSED", RCV_SYN |-> "SYN_RCVD"],
     SYN_SENT    |-> [CLOSE |-> "CLOSED", RCV_RST |-> "CLOSED", RCV_SYN_ACK |-> "ESTABLISHED"],
     SYN_RCVD    |-> [CLOSE |-> "FIN_WAIT_1", TIMEOUT_CONN_ESTAB |-> "LISTEN",
                      RCV_ACK |-> "ESTABLISHED", RCV_FIN |-> "CLOSE_WAIT"],
     ESTABLISHED |-> [CLOSE |-> "FIN_WAIT_1", RCV_FIN |-> "CLOSE_WAIT"],
     CLOSE_WAIT  |-> [CLOSE |-> "LAST_ACK"],
     LAST_ACK    |-> [RCV_ACK |-> "CLOSED"],
     FIN_WAIT_1  |-> [RCV_FIN |-> "CLOSING", RCV_ACK |-> "FIN_WAIT_2"],
     FIN_WAIT_2  |-> [RCV_FIN |-> "TIME_WAIT"],
     CLOSING     |-> [RCV_ACK |-> "TIME_WAIT"],
     TIME_WAIT   |-> [TIMEOUT_2MSL |-> "CLOSED"]]

NextState(state, event) ==
    IF event = "ABORT" /\ state # "INIT" THEN "CLOSED"
    ELSE IF event \in DOMAIN Moves[state] THEN Moves[state][event]
    ELSE state

\* Wrong: PEER_CLOSED is not told.
EntryTellsNoPeerClosed(old, new, event) ==
    IF new # old /\ (new = "TIME_WAIT" \/ (new = "CLOSED" /\ old # "TIME_WAIT" /\ event # "ABORT"))
    THEN <<"CLOSED">>
    ELSE <<>>

\* Wrong: CLOSED is told again when TIME_WAIT ends.
EntryTellsClosedTwice(old, new, event) ==
    CASE new = old -> <<>>
      [] new # old /\ new = "CLOSE_WAIT" -> <<"PEER_CLOSED">>
      [] new # old /\ new \in {"TIME_WAIT", "CLOSED"} /\ event # "ABORT" -> <<"CLOSED">>
      [] OTHER -> <<>>

\* stateEntered: what a connection that enters a state tells its application, and
\* which of its timers survive.
EntryTells(old, new, event) ==
    CASE new = old -> <<>>
      [] new # old /\ new = "CLOSE_WAIT" -> <<"PEER_CLOSED">>
      [] new # old /\ new = "TIME_WAIT" -> <<"CLOSED">>
      [] new # old /\ new = "CLOSED" /\ old # "TIME_WAIT" /\ event # "ABORT" -> <<"CLOSED">>
      [] OTHER -> <<>>

\* Wrong: the connection-establishment timer survives.
EntryTimersKept(old, new, armed) == IF new # old /\ new = "CLOSED" THEN {} ELSE armed

EntryTimers(old, new, armed) ==
    CASE new = old -> armed
      [] new # old /\ new = "CLOSED" -> {}
      [] new # old /\ new \in {"TIME_WAIT", "SYN_RCVD", "SYN_SENT"} -> armed
      [] OTHER -> armed \ {"CONN_ESTAB"}

----------------------------------------------------------------------------
\* processSegment1stThru8th: the event it returns, the segments it answers with, what it
\* tells the application and the timers it leaves.
Outcome(event, sends, tells, armed) ==
    [event |-> event, sends |-> sends, tells |-> tells, timers |-> armed]

\* The FIN bit: an ACK in every state; in TIME_WAIT a second ACK, and the repeated FIN is
\* taken for the end of the 2MSL wait.
FinOutcome(state, armed) ==
    CASE state = "TIME_WAIT" ->
            Outcome("TIMEOUT_2MSL", <<"ACK", "ACK">>, <<>>, armed \cup {"TIMEOUT_2MSL"})
      [] state = "FIN_WAIT_2" ->
            Outcome("RCV_FIN", <<"ACK">>, <<>>, armed \ {"REXMIT", "TIMEOUT_2MSL"})
      [] OTHER -> Outcome("RCV_FIN", <<"ACK">>, <<>>, armed)

\* Without a FIN, outside ESTABLISHED: what the segment is plays no part.
OtherOutcome(state, armed) ==
    CASE state = "SYN_RCVD" -> Outcome("RCV_ACK", <<>>, <<"ESTABLISHED">>, armed)
      [] state = "CLOSE_WAIT" -> Outcome("CLOSE", <<>>, <<>>, armed)
      [] state \in {"LAST_ACK", "FIN_WAIT_1"} -> Outcome("RCV_ACK", <<>>, <<>>, armed)
      [] state = "TIME_WAIT" ->
            Outcome("IGNORE", <<"ACK">>, <<>>, (armed \ {"REXMIT"}) \cup {"TIMEOUT_2MSL"})
      [] OTHER -> Outcome("IGNORE", <<>>, <<>>, armed)

=============================================================================
