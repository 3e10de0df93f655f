----------------------------- MODULE Schedulers -----------------------------
(***************************************************************************)
(* The two schedulers as one specification: the parameters of a simulation *)
(* say which of them its network has.                                      *)
(***************************************************************************)
EXTENDS CentralScheduler, CentralSchedulerTCP

Next == RQNext \/ TCPNext

Spec == Init /\ [][Next]_vars

\* The simulation kernel delivers every scheduled message, and transfers end (what
\* PullTransfer's Completes says of one transfer).
FairSpec == Spec /\ WF_vars(Next)

----------------------------------------------------------------------------
Phases == {"idle", "long", "short", "select", "connect", "running", "stopping",
           "stopped", "failed"}

Classes == {"long", "short", "multicast", "multisource", "replica"}

SinkApps == [class : Classes, port : Nat, gate : Nat]

FlowApps == [class : Classes \ {"multicast"}, peer : Servers, port : Nat, gate : Nat, sink : Nat]

FlowClass(app) == app.class \notin {"multicast", "builtin"}

\* The state is well formed: ports lie above 80, the clients of flows name a server
\* and the flows still to be placed run between servers.
TypeOK ==
    /\ config \in Scenarios
    /\ phase \in Phases
    /\ permServers \in [Servers -> Servers]
    /\ longLeft \subseteq [dest : Servers, src : Servers]
    /\ shortLeft \in Nat
    /\ connected \in Nat
    /\ replica \in 0 .. 2
    /\ sinks \in [Servers -> Seq(SinkApps)]
    /\ gates \in [Servers -> Nat]
    /\ \A s \in Servers : \A i \in DOMAIN sinks[s] : sinks[s][i].port > 80
    /\ \A s \in Servers : \A i \in DOMAIN sessions[s] :
          FlowClass(sessions[s][i]) => sessions[s][i] \in FlowApps
    /\ completed \in Nat

\* The applications of a host do not get in each other's way: no two sinks listen on
\* one port, although long flows count ports at the source and the others at the
\* destination, and every application has a gate of the transport to itself, although
\* sinks and clients are counted apart.
AppsApart ==
    \A s \in Servers :
        /\ \A i, j \in DOMAIN sinks[s] : i # j => sinks[s][i].port # sinks[s][j].port
        /\ \A i, j \in DOMAIN sinks[s] : i # j => sinks[s][i].gate # sinks[s][j].gate
        /\ \A i, j \in DOMAIN sessions[s] : i # j => sessions[s][i].gate # sessions[s][j].gate
        /\ \A i \in DOMAIN sinks[s] : \A j \in DOMAIN sessions[s] :
              sinks[s][i].gate # sessions[s][j].gate
        /\ gates[s] = Len(sinks[s]) + Len(sessions[s])

\* A client connects to the port of the sink its flow was given, and two flows share
\* a sink only in a multi-source group.
FlowsMeetTheirSink ==
    \A s, t \in Servers : \A i \in DOMAIN sessions[s] : \A j \in DOMAIN sessions[t] :
        LET app == sessions[s][i]
            other == sessions[t][j]
        IN  FlowClass(app) =>
              /\ app.sink \in DOMAIN sinks[app.peer]
              /\ sinks[app.peer][app.sink].port = app.port
              /\ (/\ FlowClass(other)
                  /\ <<s, i>> # <<t, j>>
                  /\ other.peer = app.peer
                  /\ other.port = app.port) => app.class = "multisource"

\* The groups of a simulation differ, and no group has its hub among its members.
GroupsApart ==
    /\ \A i \in DOMAIN groups : groups[i].hub \notin groups[i].members
    /\ IsRQ => \A i, j \in DOMAIN groups : i # j => groups[i].members # groups[j].members

\* The framework refuses a simulation only when a server is alone in its part of the
\* traffic matrix and would have to send to itself ("TODO throw error as it shouldn't
\* be 1").
FailsOnlyAlone ==
    phase = "failed" =>
        config.numLong = 1 \/ (config.matrix = "permTM" /\ config.numLong = NumServers - 1)

RoutedGroups == {i \in DOMAIN groups : i <= Len(routes)}

\* A group without a receiver in another rack of the sender's pod has a tree of
\* cables that reaches its receivers and no other server.
RoutesReachReceivers ==
    \A i \in RoutedGroups :
        LET g == groups[i]
        IN  /\ IsTree(routes[i])
            /\ (\A r \in g.members : ~SamePodOtherRack(g.hub, r))
                  => ReachesAll(routes[i], g.hub, g.members)

\* All groups have: "fill in the list that contains all nodes that are involved in
\* multicasting and their destinations" (CentralScheduler.cc:1094-1095).
EveryReceiverRouted ==
    \A i \in RoutedGroups : ReachesAll(routes[i], groups[i].hub, groups[i].members)

\* The simulation stops with the message "All shortFlows COMPLETED" when there are
\* no other flows whose ends are counted as well.
OnlyShortFlows == config.numLong = 0 /\ config.mode = "none" /\ config.numShort > 0

StopsWhenShortFlowsDone ==
    OnlyShortFlows /\ phase = "stopped" =>
        /\ told = Connections
        /\ Cardinality(told) = config.numShort

\* Every simulation with short flows only comes to its end.
ShortFlowsEndTheRun == OnlyShortFlows ~> phase = "stopped"

=============================================================================
