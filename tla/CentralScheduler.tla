--------------------------- MODULE CentralScheduler ---------------------------
(***************************************************************************)
(* The scheduler of the Polyraptor experiments: long flows, short flows,   *)
(* then either multicast or multi-source replica groups.                   *)
(*                                                                         *)
(* Both kinds of group at once are not modelled: the parameter files never *)
(* ask for them.                                                           *)
(***************************************************************************)
EXTENDS FlowPlacement, MulticastRoutes

IsRQ == config.protocol = "RQ"

RQPrepare == IsRQ /\ Prepare

RQPlaceLongFlow == IsRQ /\ PlaceLongFlow

RQEndLongFlows == IsRQ /\ phase = "long" /\ longLeft = {} /\ EnterPhase("short")

RQPlaceShortFlow == IsRQ /\ PlaceShortFlow

RQEndShortFlows ==
    /\ IsRQ
    /\ phase = "short"
    /\ shortLeft = 0
    /\ EnterPhase(IF config.mode = "none" THEN "running" ELSE "select")

----------------------------------------------------------------------------
\* Selection.  A group is its members and its hub: the sender of a multicast group,
\* the receiver of a multi-source one.

Group(hub, members) == [hub |-> hub, members |-> members, replicas |-> <<>>]

SelectedMembers == {groups[i].members : i \in DOMAIN groups}

\* nChooseK: all groups of the given size, of which the draws can give these.
Combinations == {m \in SUBSET config.draws : Cardinality(m) = config.members}

\* The combination of index 0: nChooseK pushes its results to the front.
FirstCombination == NumServers - config.members .. NumServers - 1

\* The group is drawn again until it has not been selected before; without
\* randomGroup the first try is the group of index 0.
NewCombinations ==
    IF ~config.randomGroup /\ FirstCombination \notin SelectedMembers
    THEN {FirstCombination}
    ELSE Combinations \ SelectedMembers

\* Mutant: the hub is not compared with the members.
AnyHub(members) == IF config.randomGroup THEN config.draws ELSE {0}

\* The hub is drawn again until it is not a member; the first try without
\* randomGroup is server 0.
NewHubs(members) ==
    IF ~config.randomGroup /\ 0 \notin members THEN {0} ELSE config.draws \ members

\* getNewMulticastCombination and getNewMultiSourcingCombination
SelectGroup ==
    /\ IsRQ
    /\ phase = "select"
    /\ Len(groups) < config.running
    /\ \E members \in NewCombinations : \E hub \in NewHubs(members) :
          groups' = Append(groups, Group(hub, members))
    /\ UNCHANGED <<config, phase, permServers, longLeft, shortLeft, connected, replica,
                   routes, appVars, endVars>>

EndSelection ==
    IsRQ /\ phase = "select" /\ Len(groups) = config.running /\ EnterPhase("connect")

----------------------------------------------------------------------------
\* Connections.

NextGroup == groups[connected + 1]

\* A sink at each member; the sender connects to its own edge switch at a port
\* counted at the sender.
ScheduleMulticastGroupConn(g) ==
    /\ sinks' = [s \in Servers |->
                    IF s \in g.members
                    THEN Append(sinks[s], SinkApp("multicast", NextSinkPort(s), gates[s]))
                    ELSE sinks[s]]
    /\ AddSession(g.hub, MulticastApp(EdgeSwitch(g.hub), NextSessionPort(g.hub),
                                      gates[g.hub], g.members))
    /\ gates' = [s \in Servers |->
                    IF s \in g.members \cup {g.hub} THEN gates[s] + 1 ELSE gates[s]]

\* One sink at the receiver; every sender connects to it.
ScheduleMultiSourcingGroupConn(g) ==
    /\ AddSink(g.hub, "multisource", NextSinkPort(g.hub))
    /\ sessions' = [s \in Servers |->
                       IF s \in g.members
                       THEN Append(sessions[s], SessionApp("multisource", g.hub,
                                     NextSinkPort(g.hub), gates[s], Len(sinks[g.hub]) + 1))
                       ELSE sessions[s]]
    /\ gates' = [s \in Servers |->
                    IF s \in g.members \cup {g.hub} THEN gates[s] + 1 ELSE gates[s]]

\* Mutant: any core router ("pick one core router to be used for this mulsticast
\* group WRONG" in the code).
AnyCore(a) == 0 .. RacksPerPod * RacksPerPod - 1

\* coreAggMapList: the cores an aggregation router is wired to.
AssociatedCores(a) == CoresOf(a)

\* A random aggregation router of the sender's pod and one of its core routers.
MulticastRoutersLocation(g) ==
    \E a \in 0 .. RacksPerPod - 1 : \E c \in AssociatedCores(a) :
        routes' = Append(routes, Routes(g.hub, g.members, a, c))

ConnectMulticastGroup ==
    /\ IsRQ
    /\ phase = "connect"
    /\ config.mode = "multicast"
    /\ connected < Len(groups)
    /\ ScheduleMulticastGroupConn(NextGroup)
    /\ MulticastRoutersLocation(NextGroup)
    /\ connected' = connected + 1
    /\ UNCHANGED <<config, phase, permServers, longLeft, shortLeft, groups, replica, endVars>>

ConnectMultiSourcingGroup ==
    /\ IsRQ
    /\ phase = "connect"
    /\ config.mode = "multisource"
    /\ connected < Len(groups)
    /\ ScheduleMultiSourcingGroupConn(NextGroup)
    /\ connected' = connected + 1
    /\ UNCHANGED <<config, phase, permServers, longLeft, shortLeft, groups, replica, routes,
                   endVars>>

EndConnections ==
    IsRQ /\ phase = "connect" /\ connected = Len(groups) /\ EnterPhase("running")

----------------------------------------------------------------------------
RQNext ==
    \/ RQPrepare
    \/ RQPlaceLongFlow
    \/ RQEndLongFlows
    \/ RQPlaceShortFlow
    \/ RQEndShortFlows
    \/ SelectGroup
    \/ EndSelection
    \/ ConnectMulticastGroup
    \/ ConnectMultiSourcingGroup
    \/ EndConnections
    \/ IsRQ /\ FlowEnds
    \/ IsRQ /\ Stop

=============================================================================
