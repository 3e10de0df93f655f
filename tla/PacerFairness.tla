---------------------------- MODULE PacerFairness ----------------------------
(***************************************************************************)
(* How long a queued pull request waits for the host's pacer.              *)
(*                                                                         *)
(* overtaken[c][d] counts the requests of d that the pacer has released    *)
(* while c had a request queued, since the last release of c.  It is a     *)
(* history variable: it follows the steps of PullTransfer and none of them *)
(* reads it.                                                               *)
(***************************************************************************)
EXTENDS PullTransfer

VARIABLE overtaken

fairVars == <<vars, overtaken>>

Releases(d) == Len(pullQueue'[d]) < Len(pullQueue[d])

Overtaken(c, d) ==
    IF pullQueue[c] = <<>> \/ Releases(c) THEN 0
    ELSE IF Releases(d) THEN overtaken[c][d] + 1
    ELSE overtaken[c][d]

FairInit == Init /\ overtaken = [c \in Conn |-> [d \in Conn |-> 0]]

FairNext == OrderedNext /\ overtaken' = [c \in Conn |-> [d \in Conn |-> Overtaken(c, d)]]

FairSpec == FairInit /\ [][FairNext]_fairVars /\ Fairness

\* Round robin (process_REQUEST_TIMER's counter): while a connection has a queued
\* request, no other connection has two of its requests released first, although
\* connections join the map at any time.  (A transfer of no symbols, trimmed, may queue a
\* request without ever joining the map.)
BoundedOvertaking == \A c, d \in Conn : Wanted[c] > 0 => overtaken[c][d] <= 1

=============================================================================
