---------------------------- MODULE FlowPlacement ----------------------------
(***************************************************************************)
(* What the two central schedulers share: the traffic matrix, the          *)
(* applications they create on the servers, and the count of finished      *)
(* flows that ends the simulation.                                         *)
(*                                                                         *)
(* A scheduler gives every flow a sink at its destination and a session at *)
(* its source, each with the next gate of its host's transport module.     *)
(* Applications are created one flow per step although one event of the    *)
(* simulation creates them all; random draws are choices.                  *)
(*                                                                         *)
(* The parameters of a simulation are a record of the set Scenarios:       *)
(*   protocol     "RQ" or "TCP": which scheduler the network has           *)
(*   matrix       trafficMatrixType                                        *)
(*   numLong      numlongflowsRunningServers                               *)
(*   numShort     numShortFlows                                            *)
(*   mode         "none", "multicast" or "multisource": the replica groups *)
(*   members      numReplica, numSourceNodes                               *)
(*   running      the number of groups                                     *)
(*   randomGroup, shuffle   as in the code                                 *)
(*   draws        the bound: servers and positions random draws may give   *)
(***************************************************************************)
EXTENDS FatTree, Sequences, FiniteSets

CONSTANTS
    Scenarios,
    Orders       \* the orders of the servers a shuffle may give

ASSUME OrdersAssumption ==
    \A order \in Orders :
        /\ order \in [Servers -> Servers]
        /\ \A i, j \in Servers : order[i] = order[j] => i = j

ASSUME ScenariosAssumption ==
    \A s \in Scenarios :
        /\ s.protocol \in {"RQ", "TCP"}
        /\ s.matrix \in {"randTM", "permTM"}
        /\ s.numLong \in 0 .. NumServers - 1
        /\ s.numShort \in Nat
        /\ s.mode \in {"none", "multicast", "multisource"}
        /\ s.members \in 1 .. NumServers - 1
        /\ s.running \in Nat
        /\ s.randomGroup \in BOOLEAN
        /\ s.shuffle \in BOOLEAN
        /\ s.draws \subseteq Servers

VARIABLES
    config,       \* the parameters of this simulation
    phase,        \* where handleMessage is; "failed" when the framework throws
    permServers,  \* the servers in the order of the traffic matrix
    longLeft,     \* flows of permMapLongFlows not yet scheduled
    shortLeft,    \* short flows not yet scheduled
    groups,       \* the selected replica groups
    connected,    \* how many of them have their connections
    replica,      \* CentralSchedulerTCP: connections of the current session made
    sinks,        \* sink applications of each server
    sessions,     \* client applications of each server
    gates,        \* gateSize("appOut") of each server's transport
    routes,       \* multicastInfoList, one table for each connected group
    told,         \* connections whose sink has been told PEER_CLOSED
    completed     \* numCompletedShortFlows

appVars   == <<sinks, sessions, gates>>
groupVars == <<groups, connected, replica, routes>>
endVars   == <<told, completed>>
vars      == <<config, phase, permServers, longLeft, shortLeft, groupVars, appVars, endVars>>

----------------------------------------------------------------------------
\* The traffic matrix.

LongPositions == 0 .. config.numLong - 1

ShortPositions == config.numLong .. NumServers - 1

\* permMapLongFlows: each long-flow server sends to the next, the last to the first.
LongFlows(order) ==
    {[dest |-> order[IF i = config.numLong - 1 THEN 0 ELSE i + 1], src |-> order[i]] :
        i \in LongPositions}

\* permMapShortFlows: the same among the others.
PermutedFlows ==
    {[dest |-> permServers[IF i = NumServers - 1 THEN config.numLong ELSE i + 1],
      src |-> permServers[i]] : i \in ShortPositions}

\* The servers a draw from the short-flow part of permServers may give.
Drawn == {permServers[i] : i \in ShortPositions \cap config.draws}

\* Mutant: the second draw is not compared with the first.
RandomPairs == [dest : Drawn, src : Drawn]

\* getNewDestRandTM draws again until the two differ.
RandomFlows == {f \in [dest : Drawn, src : Drawn] : f.dest # f.src}

\* getNewDestPremTM draws the destination.
NewFlows ==
    IF config.matrix = "randTM" THEN RandomFlows
    ELSE {f \in PermutedFlows : f.dest \in Drawn}

----------------------------------------------------------------------------
\* Applications.  class tells the flows apart that the scheduler wires differently.

SinkApp(class, port, gate) == [class |-> class, port |-> port, gate |-> gate]

\* A client; sink is the sink its flow was made for.
SessionApp(class, peer, port, gate, sink) ==
    [class |-> class, peer |-> peer, port |-> port, gate |-> gate, sink |-> sink]

\* The client of a multicast group connects to its own edge switch.
MulticastApp(edge, port, gate, members) ==
    [class |-> "multicast", edge |-> edge, port |-> port, gate |-> gate, members |-> members]

\* The application every host of the topology starts with.
BuiltInApp == [class |-> "builtin", port |-> 80, gate |-> 0]

\* A wrong port: that of the last sink.
SinkPortOffByOne(d) == 80 + Len(sinks[d])

NextSinkPort(d) == 80 + Len(sinks[d]) + 1

NextSessionPort(s) == 80 + Len(sessions[s]) + 1

AddSink(d, class, port) ==
    sinks' = [sinks EXCEPT ![d] = Append(@, SinkApp(class, port, gates[d]))]

AddSession(s, app) == sessions' = [sessions EXCEPT ![s] = Append(@, app)]

\* Mutants: the source's gate vectors are not enlarged; the client connects to the
\* port counted at its own host.
ConnectWithoutGate(s, d, class, port) ==
    /\ s # d
    /\ AddSink(d, class, port)
    /\ AddSession(s, SessionApp(class, d, port, gates[s], Len(sinks[d]) + 1))
    /\ gates' = [gates EXCEPT ![d] = @ + 1]

ConnectToOwnCount(s, d, class, port) ==
    /\ s # d
    /\ AddSink(d, class, port)
    /\ AddSession(s, SessionApp(class, d, NextSessionPort(s), gates[s], Len(sinks[d]) + 1))
    /\ gates' = [gates EXCEPT ![s] = @ + 1, ![d] = @ + 1]

\* A sink at d and a session at s that connects to it at port.  When s and d are
\* one server both get the same gate, and the framework throws at the second.
ConnectFlow(s, d, class, port) ==
    /\ s # d
    /\ AddSink(d, class, port)
    /\ AddSession(s, SessionApp(class, d, port, gates[s], Len(sinks[d]) + 1))
    /\ gates' = [gates EXCEPT ![s] = @ + 1, ![d] = @ + 1]

Fail ==
    /\ phase' = "failed"
    /\ UNCHANGED <<longLeft, shortLeft, groupVars, appVars>>

----------------------------------------------------------------------------
Init ==
    /\ config \in Scenarios
    /\ phase = "idle"
    /\ permServers = [i \in Servers |-> i]
    /\ longLeft = {}
    /\ shortLeft = 0
    /\ groups = <<>>
    /\ connected = 0
    /\ replica = 0
    /\ sinks = [s \in Servers |-> <<>>]
    /\ sessions = [s \in Servers |-> <<BuiltInApp>>]
    /\ gates = [s \in Servers |-> 1]
    /\ routes = <<>>
    /\ told = {}
    /\ completed = 0

\* deleteAllSubModuleApp
RemoveBuiltInApps ==
    /\ sessions' = [s \in Servers |-> <<>>]
    /\ gates' = [s \in Servers |-> 0]
    /\ UNCHANGED sinks

\* generateTM, serversLocations and the removal of the built-in applications.
Prepare ==
    /\ phase = "idle"
    /\ \E order \in IF config.shuffle THEN Orders ELSE {permServers} :
          /\ permServers' = order
          /\ longLeft' = LongFlows(order)
    /\ RemoveBuiltInApps
    /\ shortLeft' = config.numShort
    /\ phase' = "long"
    /\ UNCHANGED <<config, groupVars, endVars>>

\* scheduleLongFlows takes the flows in the order of their destinations.  The port
\* is counted at the source.
PlaceLongFlow ==
    /\ phase = "long"
    /\ \E f \in longLeft :
          /\ \A g \in longLeft : f.dest <= g.dest
          /\ \/ /\ ConnectFlow(f.src, f.dest, "long", NextSessionPort(f.src))
                /\ longLeft' = longLeft \ {f}
                /\ UNCHANGED <<phase, shortLeft, groupVars>>
             \/ f.src = f.dest /\ Fail
    /\ UNCHANGED <<config, permServers, endVars>>

\* scheduleNewShortFlow for a new source and destination.
PlaceShortFlow ==
    /\ phase = "short"
    /\ shortLeft > 0
    /\ \E f \in NewFlows :
          \/ /\ ConnectFlow(f.src, f.dest, "short", NextSinkPort(f.dest))
             /\ shortLeft' = shortLeft - 1
             /\ UNCHANGED <<phase, longLeft, groupVars>>
          \/ f.src = f.dest /\ Fail
    /\ UNCHANGED <<config, permServers, endVars>>

\* handleMessage goes on to its next part.
EnterPhase(next) ==
    /\ phase' = next
    /\ UNCHANGED <<config, permServers, longLeft, shortLeft, groupVars, appVars, endVars>>

----------------------------------------------------------------------------
\* The end of the simulation.

\* The servers whose sinks a session is connected to.
DestsOf(app) == IF app.class = "multicast" THEN app.members ELSE {app.peer}

Connections ==
    UNION {UNION {{<<s, i, d>> : d \in DestsOf(sessions[s][i])} :
                      i \in DOMAIN sessions[s]} : s \in Servers}

\* Mutants of the count: it stops one flow early, and only when exceeded.
CountOneEarly(n) == n + 1 = config.numShort

CountExceeded(n) == n > config.numShort

CountReached(n) == n = config.numShort

\* A transfer has ended: its sink is told PEER_CLOSED and increments the scheduler's
\* parameter, whatever the class of its flow is.
FlowEnds ==
    /\ phase \in {"running", "stopping"}
    /\ \E c \in Connections \ told :
          /\ told' = told \cup {c}
          /\ completed' = completed + 1
          /\ phase' = IF CountReached(completed + 1) THEN "stopping" ELSE phase
    /\ UNCHANGED <<config, permServers, longLeft, shortLeft, groupVars, appVars>>

Stop == phase = "stopping" /\ EnterPhase("stopped")

=============================================================================
