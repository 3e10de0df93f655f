------------------------- MODULE CentralSchedulerTCP -------------------------
(***************************************************************************)
(* The scheduler of the TCP baseline: long flows, then sessions of three   *)
(* replicas or short flows.  A replicated write is three flows of one      *)
(* client host (multi-unicasting), a replicated read three flows to one    *)
(* sink (multi-sourcing).  TCP itself and its applications are INET's.     *)
(***************************************************************************)
EXTENDS FlowPlacement

IsTCP == config.protocol = "TCP"

TCPPrepare == IsTCP /\ Prepare

TCPPlaceLongFlow == IsTCP /\ PlaceLongFlow

TCPEndLongFlows ==
    /\ IsTCP
    /\ phase = "long"
    /\ longLeft = {}
    /\ EnterPhase(IF config.mode = "none" THEN "short" ELSE "connect")

TCPPlaceShortFlow == IsTCP /\ PlaceShortFlow

TCPEndShortFlows ==
    IsTCP /\ phase = "short" /\ shortLeft = 0 /\ EnterPhase("running")

----------------------------------------------------------------------------
\* Sessions of three replicas.

Session(hub, replicas) ==
    [hub |-> hub, members |-> {replicas[i] : i \in DOMAIN replicas}, replicas |-> replicas]

\* getNewThreeDestRandTMForMultiUnicasting and getNewThreeSrcRandTMForMultiSourcing:
\* each draw is repeated until it differs from the hub and from the draw before it.
\* The first is compared with an uninitialised variable, which excludes nothing.
ReplicaDraws(hub) ==
    {r \in [1 .. 3 -> Drawn] :
        /\ \A i \in 1 .. 3 : r[i] # hub
        /\ r[2] # r[1]
        /\ r[3] # r[2]}

SelectReplicas ==
    /\ IsTCP
    /\ phase = "connect"
    /\ connected = Len(groups)
    /\ Len(groups) < config.running
    /\ \E hub \in Drawn : \E r \in ReplicaDraws(hub) : groups' = Append(groups, Session(hub, r))
    /\ replica' = 0
    /\ UNCHANGED <<config, phase, permServers, longLeft, shortLeft, connected, routes,
                   appVars, endVars>>

\* The replica whose connection is made next.
CurrentSession == groups[connected + 1]

CurrentReplica == CurrentSession.replicas[replica + 1]

\* The last replica completes the session.
CountReplica ==
    /\ replica' = IF replica = 2 THEN 0 ELSE replica + 1
    /\ connected' = IF replica = 2 THEN connected + 1 ELSE connected

\* scheduleNewMultiCastSession: a sink at each destination, a client for it at the source.
ConnectUnicastReplica ==
    /\ IsTCP
    /\ phase = "connect"
    /\ config.mode = "multicast"
    /\ connected < Len(groups)
    /\ ConnectFlow(CurrentSession.hub, CurrentReplica, "replica", NextSinkPort(CurrentReplica))
    /\ CountReplica
    /\ UNCHANGED <<config, phase, permServers, longLeft, shortLeft, groups, routes, endVars>>

\* scheduleNewMultiSourcingSession: the sink is made before the first client, and all
\* clients connect to it.
ConnectSourceReplica ==
    LET d == CurrentSession.hub
        s == CurrentReplica
        isFirst == replica = 0
        port == IF isFirst THEN NextSinkPort(d) ELSE sinks[d][Len(sinks[d])].port
        sink == IF isFirst THEN Len(sinks[d]) + 1 ELSE Len(sinks[d])
    IN  /\ IsTCP
        /\ phase = "connect"
        /\ config.mode = "multisource"
        /\ connected < Len(groups)
        /\ IF isFirst THEN AddSink(d, "multisource", port) ELSE UNCHANGED sinks
        /\ AddSession(s, SessionApp("multisource", d, port, gates[s], sink))
        /\ gates' = [gates EXCEPT ![s] = @ + 1, ![d] = IF isFirst THEN @ + 1 ELSE @]
        /\ CountReplica
        /\ UNCHANGED <<config, phase, permServers, longLeft, shortLeft, groups, routes, endVars>>

TCPEndConnections ==
    /\ IsTCP
    /\ phase = "connect"
    /\ connected = Len(groups)
    /\ Len(groups) = config.running
    /\ EnterPhase("running")

----------------------------------------------------------------------------
TCPNext ==
    \/ TCPPrepare
    \/ TCPPlaceLongFlow
    \/ TCPEndLongFlows
    \/ TCPPlaceShortFlow
    \/ TCPEndShortFlows
    \/ SelectReplicas
    \/ ConnectUnicastReplica
    \/ ConnectSourceReplica
    \/ TCPEndConnections
    \/ IsTCP /\ FlowEnds
    \/ IsTCP /\ Stop

=============================================================================
