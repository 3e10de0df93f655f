---------------------------- MODULE MCSchedulers ----------------------------
(* Instances of Schedulers for TLC: a fat tree of 16 servers. *)
EXTENDS Schedulers

Plain == [protocol |-> "RQ", matrix |-> "randTM", numLong |-> 0, numShort |-> 0,
          mode |-> "none", members |-> 3, running |-> 0, randomGroup |-> TRUE,
          shuffle |-> FALSE, draws |-> {}]

Reversed == [i \in Servers |-> NumServers - 1 - i]

Rotated == [i \in Servers |-> (i + 5) % NumServers]

TwoOrders == {Reversed, Rotated}

\* Short flows only, one third long flows, one server alone.
FlowScenarios ==
    {[Plain EXCEPT !.protocol = p, !.matrix = m, !.numShort = 3, !.draws = {0, 1, 6}] :
        p \in {"RQ", "TCP"}, m \in {"randTM", "permTM"}} \cup
    {[Plain EXCEPT !.protocol = p, !.numLong = 3, !.numShort = 1, !.shuffle = TRUE,
                   !.draws = {4, 9}] : p \in {"RQ", "TCP"}} \cup
    {[Plain EXCEPT !.protocol = p, !.numLong = 1] : p \in {"RQ", "TCP"}} \cup
    {[Plain EXCEPT !.protocol = p, !.matrix = "permTM", !.numLong = 15, !.numShort = 1,
                   !.draws = {15}] : p \in {"RQ", "TCP"}}

\* Groups: every placement of receivers relative to the sender, two groups that
\* share servers, and the fixed groups.
GroupScenarios ==
    {[Plain EXCEPT !.mode = "multicast", !.running = 1, !.draws = {0, 1, 2, 4, 5, 6, 12}]} \cup
    {[Plain EXCEPT !.mode = mode, !.running = 2, !.members = 2, !.draws = {0, 2, 5}] :
        mode \in {"multicast", "multisource"}} \cup
    {[Plain EXCEPT !.mode = mode, !.running = r, !.randomGroup = FALSE,
                   !.draws = {0, 13, 14, 15}, !.numLong = IF r = 1 THEN 3 ELSE 0] :
        mode \in {"multicast", "multisource"}, r \in {1, 2}} \cup
    {[Plain EXCEPT !.protocol = "TCP", !.mode = mode, !.running = 2, !.draws = {3, 4, 8}] :
        mode \in {"multicast", "multisource"}}

AllScenarios == FlowScenarios \cup GroupScenarios

=============================================================================
