-------------------------- MODULE Schedulers_proofs --------------------------
(***************************************************************************)
(* What the schedulers hand out: ports, gates and sinks of applications,   *)
(* replica groups, and the count that ends a simulation.                   *)
(***************************************************************************)
EXTENDS Schedulers, TLAPS, FiniteSetTheorems, SequenceTheorems

\* Every client application: of a flow, of a multicast group, or built in.
AppRecords ==
    FlowApps \cup {BuiltInApp} \cup
    [class : {"multicast"}, edge : {EdgeSwitch(s) : s \in Servers}, port : Nat, gate : Nat,
     members : SUBSET Servers]

GroupRecords ==
    [hub : Servers, members : SUBSET Servers, replicas : {<<>>} \cup [1 .. 3 -> Servers]]

\* The servers are permuted, and the flows of the traffic matrix are those of the order.
MatrixFits ==
    /\ \A i, j \in Servers : permServers[i] = permServers[j] => i = j
    /\ longLeft \subseteq LongFlows(permServers)

\* The groups are selected before they are connected; replicas are TCP's.
GroupsFit ==
    /\ groups \in Seq(GroupRecords)
    /\ connected <= Len(groups)
    /\ \A i \in 1 .. Len(groups) : groups[i].hub \notin groups[i].members
    /\ IsRQ => /\ replica = 0
               /\ \A i, j \in 1 .. Len(groups) : i # j => groups[i].members # groups[j].members
    /\ IsTCP => \A i \in 1 .. Len(groups) :
                    /\ groups[i].replicas \in [1 .. 3 -> Servers]
                    /\ \A j \in 1 .. 3 : groups[i].replicas[j] # groups[i].hub
    /\ phase \in {"idle", "long", "short"} => replica = 0

\* A server with the sinks S, the clients C and n gates: ports are numbered, and a gate is
\* used once.
ServerFits(S, C, n) ==
    /\ S \in Seq(SinkApps) /\ C \in Seq(AppRecords)
    /\ n = Len(S) + Len(C)
    /\ \A i \in 1 .. Len(S) : S[i].port = 80 + i /\ S[i].gate < n
    /\ \A i \in 1 .. Len(C) : C[i].gate < n
    /\ \A i, j \in 1 .. Len(S) : i # j => S[i].gate # S[j].gate
    /\ \A i, j \in 1 .. Len(C) : i # j => C[i].gate # C[j].gate
    /\ \A i \in 1 .. Len(S) : \A j \in 1 .. Len(C) : S[i].gate # C[j].gate

ServersFit ==
    /\ sinks \in [Servers -> Seq(SinkApps)]
    /\ sessions \in [Servers -> Seq(AppRecords)]
    /\ gates \in [Servers -> Nat]
    /\ \A s \in Servers : ServerFits(sinks[s], sessions[s], gates[s])

\* The client of a flow has its own sink, of its class, unless the sink is that of a
\* multi-source group.
Meets(app) ==
    FlowClass(app) =>
        /\ app.sink \in 1 .. Len(sinks[app.peer])
        /\ app.port = 80 + app.sink
        /\ sinks[app.peer][app.sink].class = app.class

Shared(app, other) ==
    /\ FlowClass(app) /\ FlowClass(other)
    /\ app.peer = other.peer /\ app.sink = other.sink

FlowsFit ==
    /\ \A s \in Servers : \A i \in 1 .. Len(sessions[s]) : Meets(sessions[s][i])
    /\ \A s, t \in Servers :
         \A i \in 1 .. Len(sessions[s]) : \A j \in 1 .. Len(sessions[t]) :
            <<s, i>> # <<t, j>> /\ Shared(sessions[s][i], sessions[t][j]) =>
                sessions[s][i].class = "multisource"

\* Long flows are placed on servers that have no other: the port counted at the source is
\* the one counted at the destination.
LongFits ==
    /\ phase = "idle" => \A s \in Servers : sinks[s] = <<>>
    /\ phase = "long" =>
           \A f \in longLeft : sinks[f.dest] = <<>> /\ sessions[f.src] = <<>>

\* The sink that the first client of a TCP session has made is the last of its server.
SessionFits ==
    replica > 0 /\ config.mode = "multisource" =>
        /\ connected < Len(groups)
        /\ LET S == sinks[groups[connected + 1].hub]
           IN  S # <<>> /\ S[Len(S)].class = "multisource"

\* The types of the rest.
ControlTypes ==
    /\ config \in Scenarios
    /\ phase \in Phases
    /\ permServers \in [Servers -> Servers]
    /\ longLeft \subseteq [dest : Servers, src : Servers]
    /\ shortLeft \in Nat
    /\ connected \in Nat
    /\ replica \in 0 .. 2
    /\ completed \in Nat

PlacementInv ==
    /\ ControlTypes
    /\ MatrixFits
    /\ GroupsFit
    /\ ServersFit
    /\ FlowsFit
    /\ LongFits
    /\ SessionFits
    /\ FailsOnlyAlone

----------------------------------------------------------------------------
(* Parameters and the traffic matrix.                                       *)

LEMMA ConfigType ==
  ASSUME config \in Scenarios
  PROVE  /\ NumServers \in Nat /\ NumServers >= 2
         /\ config.numLong \in 0 .. NumServers - 1 /\ config.numShort \in Nat
         /\ config.members \in 1 .. NumServers - 1 /\ config.running \in Nat
         /\ config.draws \subseteq Servers
         /\ config.protocol \in {"RQ", "TCP"} /\ config.mode \in {"none", "multicast", "multisource"}
<1>1. NumServers \in Int
  <2> DEFINE n == K * K * K
  <2>1. n \in Int
    BY KAssumption
  <2> HIDE DEF n
  <2>2. n \div 4 \in Int
    BY <2>1
  <2> QED
    BY <2>2 DEF NumServers, n
<1>2. config.numLong \in 0 .. NumServers - 1 /\ config.members \in 1 .. NumServers - 1
  BY ScenariosAssumption
<1> QED
  BY <1>1, <1>2, ScenariosAssumption

LEMMA LongFlowsFit ==
  ASSUME config \in Scenarios, NEW order \in [Servers -> Servers],
         \A i, j \in Servers : order[i] = order[j] => i = j
  PROVE  /\ LongFlows(order) \subseteq [dest : Servers, src : Servers]
         /\ \A f, g \in LongFlows(order) : f.dest = g.dest \/ f.src = g.src => f = g
         /\ \A f \in LongFlows(order) : f.src = f.dest => config.numLong = 1
         /\ config.numLong = 0 => LongFlows(order) = {}
<1> DEFINE n == config.numLong
           Next1(i) == IF i = n - 1 THEN 0 ELSE i + 1
           Flow(i) == [dest |-> order[Next1(i)], src |-> order[i]]
<1>1. n \in 0 .. NumServers - 1 /\ NumServers \in Nat
  BY ConfigType
<1>2. LongFlows(order) = {Flow(i) : i \in 0 .. n - 1}
  BY DEF LongFlows, LongPositions
<1>3. \A i \in 0 .. n - 1 : i \in Servers /\ Next1(i) \in Servers
  BY <1>1 DEF Servers
<1>4. \A i, j \in 0 .. n - 1 : Next1(i) = Next1(j) => i = j
  BY <1>1
<1>5. \A i \in 0 .. n - 1 : Next1(i) = i => n = 1
  BY <1>1
<1> HIDE DEF n, Next1
<1>6. \A i \in 0 .. n - 1 : Flow(i) \in [dest : Servers, src : Servers]
  BY <1>3
<1>7. ASSUME NEW i \in 0 .. n - 1, NEW j \in 0 .. n - 1,
             Flow(i).dest = Flow(j).dest \/ Flow(i).src = Flow(j).src
      PROVE  i = j
  <2>1. order[Next1(i)] = order[Next1(j)] \/ order[i] = order[j]
    BY <1>7
  <2> QED
    BY <1>3, <1>4, <2>1
<1>8. \A i \in 0 .. n - 1 : Flow(i).src = Flow(i).dest => n = 1
  <2> SUFFICES ASSUME NEW i \in 0 .. n - 1, order[i] = order[Next1(i)] PROVE n = 1
    OBVIOUS
  <2> QED
    BY <1>3, <1>5
<1>9. n = 0 => 0 .. n - 1 = {}
  OBVIOUS
<1> HIDE DEF Flow
<1> QED
  BY <1>2, <1>6, <1>7, <1>8, <1>9 DEF n

LEMMA NewFlowsFit ==
  ASSUME config \in Scenarios, permServers \in [Servers -> Servers],
         \A i, j \in Servers : permServers[i] = permServers[j] => i = j
  PROVE  /\ Drawn \subseteq Servers
         /\ NewFlows \subseteq [dest : Servers, src : Servers]
         /\ \A f \in NewFlows : f.src = f.dest =>
                config.matrix = "permTM" /\ config.numLong = NumServers - 1
<1>1. config.numLong \in 0 .. NumServers - 1 /\ NumServers \in Nat
  BY ConfigType
<1>2. \A i \in ShortPositions : i \in Servers /\ i \in config.numLong .. NumServers - 1
  BY <1>1 DEF ShortPositions, Servers
<1>3. Drawn \subseteq Servers
  BY <1>2 DEF Drawn
<1>4. RandomFlows \subseteq [dest : Servers, src : Servers] /\ \A f \in RandomFlows : f.src # f.dest
  BY <1>3 DEF RandomFlows
<1> DEFINE Next1(i) == IF i = NumServers - 1 THEN config.numLong ELSE i + 1
           Flow(i) == [dest |-> permServers[Next1(i)], src |-> permServers[i]]
<1>5. PermutedFlows = {Flow(i) : i \in ShortPositions}
  BY DEF PermutedFlows
<1>6. \A i \in ShortPositions : Next1(i) \in Servers /\ (Next1(i) = i => config.numLong = NumServers - 1)
  BY <1>1, <1>2 DEF Servers
<1> HIDE DEF Next1
<1>7. \A i \in ShortPositions : /\ Flow(i) \in [dest : Servers, src : Servers]
                                /\ Flow(i).src = Flow(i).dest => config.numLong = NumServers - 1
  <2> SUFFICES ASSUME NEW i \in ShortPositions
               PROVE  /\ Flow(i) \in [dest : Servers, src : Servers]
                      /\ permServers[i] = permServers[Next1(i)] => config.numLong = NumServers - 1
    OBVIOUS
  <2> QED
    BY <1>2, <1>6
<1> HIDE DEF Flow
<1>8. \A f \in PermutedFlows : /\ f \in [dest : Servers, src : Servers]
                               /\ f.src = f.dest => config.numLong = NumServers - 1
  BY <1>5, <1>7
<1>9. config.matrix \in {"randTM", "permTM"}
  BY ScenariosAssumption
<1> QED
  BY <1>3, <1>4, <1>8, <1>9 DEF NewFlows

----------------------------------------------------------------------------
(* One server.                                                              *)

LEMMA AppTypes ==
  ASSUME NEW a \in AppRecords
  PROVE  a.gate \in Nat /\ (FlowClass(a) => a \in FlowApps)
<1>1. CASE a \in FlowApps
  BY <1>1 DEF FlowApps
<1>2. CASE a = BuiltInApp
  BY <1>2 DEF BuiltInApp, FlowClass
<1>3. CASE a \notin FlowApps /\ a # BuiltInApp
  <2> DEFINE E == {EdgeSwitch(s) : s \in Servers}
  <2> HIDE DEF E
  <2>1. a \in [class : {"multicast"}, edge : E, port : Nat, gate : Nat,
              members : SUBSET Servers]
    BY <1>3 DEF AppRecords, E
  <2> QED
    BY <2>1 DEF FlowClass
<1> QED
  BY <1>1, <1>2, <1>3

\* The gates of a server are numbers, below the next one.
LEMMA GatesBelow ==
  ASSUME NEW S, NEW C, NEW n, ServerFits(S, C, n)
  PROVE  /\ S \in Seq(SinkApps) /\ C \in Seq(AppRecords) /\ Len(S) \in Nat /\ Len(C) \in Nat
         /\ n = Len(S) + Len(C) /\ n \in Nat
         /\ \A i \in 1 .. Len(S) : S[i].gate \in Nat /\ S[i].gate # n /\ S[i].gate < n + 1
         /\ \A i \in 1 .. Len(C) : C[i].gate \in Nat /\ C[i].gate # n /\ C[i].gate < n + 1
<1>1. /\ S \in Seq(SinkApps) /\ C \in Seq(AppRecords) /\ n = Len(S) + Len(C)
      /\ \A i \in 1 .. Len(S) : S[i].gate < n
      /\ \A i \in 1 .. Len(C) : C[i].gate < n
  BY DEF ServerFits
<1>2. Len(S) \in Nat /\ Len(C) \in Nat
  BY <1>1, LenProperties
<1>3. n \in Nat
  BY <1>1, <1>2
<1>4. \A i \in 1 .. Len(S) : S[i].gate \in Nat
  <2> SUFFICES ASSUME NEW i \in 1 .. Len(S) PROVE S[i].gate \in Nat
    OBVIOUS
  <2>1. S[i] \in SinkApps
    BY <1>1, ElementOfSeq
  <2> QED
    BY <2>1 DEF SinkApps
<1>5. \A i \in 1 .. Len(C) : C[i].gate \in Nat
  BY <1>1, ElementOfSeq, AppTypes
<1>6. \A g \in Nat : g < n => g # n /\ g < n + 1
  BY <1>3
<1> QED
  BY <1>1, <1>2, <1>3, <1>4, <1>5, <1>6

LEMMA SinkAdded ==
  ASSUME NEW S, NEW C, NEW n, ServerFits(S, C, n), NEW x \in SinkApps,
         x.port = 80 + Len(S) + 1, x.gate = n
  PROVE  ServerFits(Append(S, x), C, n + 1)
<1> DEFINE T == Append(S, x)
<1>1. /\ S \in Seq(SinkApps) /\ C \in Seq(AppRecords) /\ Len(S) \in Nat /\ Len(C) \in Nat
      /\ n = Len(S) + Len(C) /\ n \in Nat
      /\ \A i \in 1 .. Len(S) : S[i].gate # n /\ S[i].gate < n + 1
      /\ \A i \in 1 .. Len(C) : C[i].gate # n /\ C[i].gate < n + 1
  BY GatesBelow
<1>2. /\ T \in Seq(SinkApps) /\ Len(T) = Len(S) + 1
      /\ \A i \in 1 .. Len(S) : T[i] = S[i]
      /\ T[Len(S) + 1] = x
  BY <1>1, AppendProperties
<1>3. /\ \A i \in 1 .. Len(S) : S[i].port = 80 + i
      /\ \A i, j \in 1 .. Len(S) : i # j => S[i].gate # S[j].gate
      /\ \A i, j \in 1 .. Len(C) : i # j => C[i].gate # C[j].gate
      /\ \A i \in 1 .. Len(S) : \A j \in 1 .. Len(C) : S[i].gate # C[j].gate
  BY DEF ServerFits
<1> HIDE DEF T
<1>4. \A i \in 1 .. Len(T) : i \in 1 .. Len(S) \/ i = Len(S) + 1
  BY <1>1, <1>2
<1>5. n + 1 = Len(T) + Len(C) /\ n < n + 1 /\ x.port = 80 + (Len(S) + 1)
  BY <1>1, <1>2
<1>6. \A i \in 1 .. Len(T) : T[i].port = 80 + i /\ T[i].gate < n + 1
  <2> SUFFICES ASSUME NEW i \in 1 .. Len(T) PROVE T[i].port = 80 + i /\ T[i].gate < n + 1
    OBVIOUS
  <2>1. CASE i \in 1 .. Len(S)
    BY <1>1, <1>2, <1>3, <2>1
  <2>2. CASE i = Len(S) + 1
    BY <1>2, <1>5, <2>2
  <2> QED
    BY <1>4, <2>1, <2>2
<1>7. \A i, j \in 1 .. Len(T) : i # j => T[i].gate # T[j].gate
  <2> SUFFICES ASSUME NEW i \in 1 .. Len(T), NEW j \in 1 .. Len(T), i # j
               PROVE  T[i].gate # T[j].gate
    OBVIOUS
  <2>1. CASE i \in 1 .. Len(S) /\ j \in 1 .. Len(S)
    BY <1>2, <1>3, <2>1
  <2>2. \A k \in 1 .. Len(S) : T[k].gate # n
    BY <1>1, <1>2
  <2> QED
    BY <1>2, <1>4, <2>1, <2>2
<1>8. \A i \in 1 .. Len(T) : \A j \in 1 .. Len(C) : T[i].gate # C[j].gate
  BY SMTT(30), <1>1, <1>2, <1>3, <1>4
<1> QED
  BY <1>1, <1>2, <1>3, <1>5, <1>6, <1>7, <1>8 DEF ServerFits, T

LEMMA ClientAdded ==
  ASSUME NEW S, NEW C, NEW n, ServerFits(S, C, n), NEW a \in AppRecords, a.gate = n
  PROVE  ServerFits(S, Append(C, a), n + 1)
<1> DEFINE T == Append(C, a)
<1>1. /\ S \in Seq(SinkApps) /\ C \in Seq(AppRecords) /\ Len(S) \in Nat /\ Len(C) \in Nat
      /\ n = Len(S) + Len(C) /\ n \in Nat
      /\ \A i \in 1 .. Len(S) : S[i].gate # n /\ S[i].gate < n + 1
      /\ \A i \in 1 .. Len(C) : C[i].gate # n /\ C[i].gate < n + 1
  BY GatesBelow
<1>2. /\ T \in Seq(AppRecords) /\ Len(T) = Len(C) + 1
      /\ \A i \in 1 .. Len(C) : T[i] = C[i]
      /\ T[Len(C) + 1] = a
  BY <1>1, AppendProperties
<1>3. /\ \A i \in 1 .. Len(S) : S[i].port = 80 + i
      /\ \A i, j \in 1 .. Len(S) : i # j => S[i].gate # S[j].gate
      /\ \A i, j \in 1 .. Len(C) : i # j => C[i].gate # C[j].gate
      /\ \A i \in 1 .. Len(S) : \A j \in 1 .. Len(C) : S[i].gate # C[j].gate
  BY DEF ServerFits
<1> HIDE DEF T
<1>4. \A i \in 1 .. Len(T) : i \in 1 .. Len(C) \/ i = Len(C) + 1
  BY <1>1, <1>2
<1>5. n + 1 = Len(S) + Len(T) /\ n < n + 1
  BY <1>1, <1>2
<1>6. \A i \in 1 .. Len(T) : T[i].gate < n + 1
  BY <1>1, <1>2, <1>4, <1>5
<1>7. \A i, j \in 1 .. Len(T) : i # j => T[i].gate # T[j].gate
  <2> SUFFICES ASSUME NEW i \in 1 .. Len(T), NEW j \in 1 .. Len(T), i # j
               PROVE  T[i].gate # T[j].gate
    OBVIOUS
  <2>1. CASE i \in 1 .. Len(C) /\ j \in 1 .. Len(C)
    BY <1>2, <1>3, <2>1
  <2>2. \A k \in 1 .. Len(C) : T[k].gate # n
    BY <1>1, <1>2
  <2> QED
    BY <1>2, <1>4, <2>1, <2>2
<1>8. \A i \in 1 .. Len(S) : \A j \in 1 .. Len(T) : S[i].gate # T[j].gate
  BY SMTT(30), <1>1, <1>2, <1>3, <1>4
<1> QED
  BY <1>1, <1>2, <1>3, <1>5, <1>6, <1>7, <1>8 DEF ServerFits, T

----------------------------------------------------------------------------
(* All servers.                                                             *)

\* A step that gives the servers of N new sinks, x[s], and those of M new clients, a[s].
\* The client of a flow meets a sink of its class; it is the only new one and the sink is
\* new, unless it belongs to a multi-source group.
ClientFits(app, M) ==
    FlowClass(app) =>
        /\ app.sink \in 1 .. Len(sinks'[app.peer])
        /\ app.port = 80 + app.sink
        /\ sinks'[app.peer][app.sink].class = app.class
        /\ \/ app.class = "multisource"
           \/ (\A s, t \in M : s = t) /\ app.sink = Len(sinks[app.peer]) + 1

Places(N, M, x, a) ==
    /\ N \cap M = {}
    /\ sinks' = [s \in Servers |-> IF s \in N THEN Append(sinks[s], x[s]) ELSE sinks[s]]
    /\ sessions' = [s \in Servers |-> IF s \in M THEN Append(sessions[s], a[s])
                                                 ELSE sessions[s]]
    /\ gates' = [s \in Servers |-> IF s \in N \cup M THEN gates[s] + 1 ELSE gates[s]]
    /\ \A s \in N : /\ x[s] \in SinkApps /\ x[s].gate = gates[s]
                    /\ x[s].port = 80 + Len(sinks[s]) + 1
    /\ \A s \in M : a[s] \in AppRecords /\ a[s].gate = gates[s] /\ ClientFits(a[s], M)

LEMMA Placed ==
  ASSUME ServersFit, FlowsFit,
         NEW N \in SUBSET Servers, NEW M \in SUBSET Servers, NEW x, NEW a, Places(N, M, x, a)
  PROVE  ServersFit' /\ FlowsFit'
<1>1. \A s \in Servers : /\ sinks[s] \in Seq(SinkApps) /\ Len(sinks[s]) \in Nat
                          /\ sessions[s] \in Seq(AppRecords) /\ Len(sessions[s]) \in Nat
                          /\ gates[s] \in Nat
  BY LenProperties DEF ServersFit
<1>2. ASSUME NEW s \in Servers
      PROVE  /\ sinks'[s] \in Seq(SinkApps)
             /\ Len(sinks'[s]) \in Nat /\ Len(sinks[s]) <= Len(sinks'[s])
             /\ \A i \in 1 .. Len(sinks[s]) : sinks'[s][i] = sinks[s][i]
  <2>1. CASE s \in N
    <3>1. sinks'[s] = Append(sinks[s], x[s]) /\ x[s] \in SinkApps
      BY <2>1 DEF Places
    <3> QED
      BY <1>1, <3>1, AppendProperties
  <2>2. CASE s \notin N
    BY <1>1, <2>2 DEF Places
  <2> QED
    BY <2>1, <2>2
<1>3. ASSUME NEW s \in Servers
      PROVE  /\ sessions'[s] \in Seq(AppRecords) /\ Len(sessions'[s]) \in Nat
             /\ \A i \in 1 .. Len(sessions'[s]) :
                    \/ i \in 1 .. Len(sessions[s]) /\ sessions'[s][i] = sessions[s][i]
                    \/ s \in M /\ i = Len(sessions[s]) + 1 /\ sessions'[s][i] = a[s]
  <2>1. CASE s \in M
    <3>1. sessions'[s] = Append(sessions[s], a[s]) /\ a[s] \in AppRecords
      BY <2>1 DEF Places
    <3> QED
      BY <1>1, <2>1, <3>1, AppendProperties
  <2>2. CASE s \notin M
    BY <1>1, <2>2 DEF Places
  <2> QED
    BY <2>1, <2>2
<1>4. ASSUME NEW s \in Servers PROVE ServerFits(sinks'[s], sessions'[s], gates'[s])
  <2>1. ServerFits(sinks[s], sessions[s], gates[s])
    BY DEF ServersFit
  <2>2. CASE s \in N
    <3>1. sinks'[s] = Append(sinks[s], x[s]) /\ sessions'[s] = sessions[s]
          /\ gates'[s] = gates[s] + 1
          /\ x[s] \in SinkApps /\ x[s].gate = gates[s] /\ x[s].port = 80 + Len(sinks[s]) + 1
      BY <2>2 DEF Places
    <3> QED
      BY <2>1, <3>1, SinkAdded
  <2>3. CASE s \in M
    <3>1. sinks'[s] = sinks[s] /\ sessions'[s] = Append(sessions[s], a[s])
          /\ gates'[s] = gates[s] + 1 /\ a[s] \in AppRecords /\ a[s].gate = gates[s]
      BY <2>3 DEF Places
    <3> QED
      BY <2>1, <3>1, ClientAdded
  <2>4. CASE s \notin N \cup M
    BY <2>1, <2>4 DEF Places
  <2> QED
    BY <2>2, <2>3, <2>4
<1>5. ServersFit'
  <2>1. gates' \in [Servers -> Nat]
    BY <1>1 DEF Places
  <2>2. sinks' \in [Servers -> Seq(SinkApps)] /\ sessions' \in [Servers -> Seq(AppRecords)]
    BY <1>2, <1>3 DEF Places
  <2> QED
    BY <1>4, <2>1, <2>2 DEF ServersFit
<1> DEFINE Kept(app) == /\ sinks'[app.peer][app.sink].class = app.class
                        /\ app.sink # Len(sinks[app.peer]) + 1
<1>6. ASSUME NEW s \in Servers, NEW i \in 1 .. Len(sessions[s]), NEW app,
             app = sessions[s][i], FlowClass(app)
      PROVE  /\ app.peer \in Servers /\ app.port = 80 + app.sink
             /\ app.sink \in 1 .. Len(sinks[app.peer])
             /\ app.sink \in 1 .. Len(sinks'[app.peer])
             /\ Kept(app)
  <2>1. app \in AppRecords
    BY <1>1, <1>6, ElementOfSeq
  <2>2. app.peer \in Servers
    BY <1>6, <2>1, AppTypes DEF FlowApps
  <2>3. Meets(app)
    BY <1>6 DEF FlowsFit
  <2>4. /\ app.sink \in 1 .. Len(sinks[app.peer]) /\ app.port = 80 + app.sink
        /\ sinks[app.peer][app.sink].class = app.class
    BY <1>6, <2>3 DEF Meets
  <2>5. sinks'[app.peer][app.sink] = sinks[app.peer][app.sink]
    BY <1>2, <2>2, <2>4
  <2>6. Len(sinks[app.peer]) \in Nat /\ Len(sinks'[app.peer]) \in Nat
        /\ Len(sinks[app.peer]) <= Len(sinks'[app.peer])
    BY <1>1, <1>2, <2>2
  <2>7. app.sink \in 1 .. Len(sinks'[app.peer]) /\ app.sink # Len(sinks[app.peer]) + 1
    BY <2>4, <2>6
  <2> QED
    BY <2>2, <2>4, <2>5, <2>7
<1> HIDE DEF Kept
<1>0. \A s \in M : a[s] \in AppRecords /\ ClientFits(a[s], M)
  BY DEF Places
<1>7. ASSUME NEW s \in Servers, NEW i \in 1 .. Len(sessions'[s]), NEW app,
             app = sessions'[s][i], FlowClass(app)
      PROVE  /\ app.sink \in 1 .. Len(sinks'[app.peer])
             /\ app.port = 80 + app.sink
             /\ sinks'[app.peer][app.sink].class = app.class
  <2>1. CASE i \in 1 .. Len(sessions[s]) /\ app = sessions[s][i]
    BY <1>6, <1>7, <2>1 DEF Kept
  <2>2. CASE s \in M /\ app = a[s]
    <3>1. ClientFits(app, M)
      BY <1>0, <2>2
    <3> QED
      BY <1>7, <3>1 DEF ClientFits
  <2> QED
    BY <1>3, <1>7, <2>1, <2>2
<1>8. ASSUME NEW s \in Servers, NEW t \in Servers,
             NEW i \in 1 .. Len(sessions'[s]), NEW j \in 1 .. Len(sessions'[t]),
             NEW app, NEW other, app = sessions'[s][i], other = sessions'[t][j],
             <<s, i>> # <<t, j>>, Shared(app, other)
      PROVE  app.class = "multisource"
  <2>0. /\ FlowClass(app) /\ FlowClass(other)
        /\ app.peer = other.peer /\ app.sink = other.sink
    BY <1>8 DEF Shared
  <2>1. CASE i \in 1 .. Len(sessions[s]) /\ app = sessions[s][i]
             /\ j \in 1 .. Len(sessions[t]) /\ other = sessions[t][j]
    BY <1>8, <2>1 DEF FlowsFit
  <2>2. CASE s \in M /\ i = Len(sessions[s]) + 1 /\ app = a[s]
    <3> SUFFICES ASSUME \A u, v \in M : u = v, app.sink = Len(sinks[app.peer]) + 1
                 PROVE  FALSE
      BY <1>0, <2>0, <2>2 DEF ClientFits
    <3>1. CASE j \in 1 .. Len(sessions[t]) /\ other = sessions[t][j]
      BY <1>6, <2>0, <3>1 DEF Kept
    <3>2. CASE t \in M /\ j = Len(sessions[t]) + 1
      BY <1>8, <2>2, <3>2
    <3> QED
      BY <1>3, <1>8, <3>1, <3>2
  <2>3. CASE /\ i \in 1 .. Len(sessions[s]) /\ app = sessions[s][i]
             /\ t \in M /\ other = a[t]
    <3>0. /\ sinks'[app.peer][app.sink].class = app.class
          /\ app.sink # Len(sinks[app.peer]) + 1
      <4>1. Kept(app)
        BY <1>6, <2>0, <2>3
      <4> QED
        BY <4>1 DEF Kept
    <3>1. app.class = other.class
      <4>2. sinks'[other.peer][other.sink].class = other.class
        <5>1. ClientFits(other, M)
          BY <1>0, <2>3
        <5> QED
          BY <2>0, <5>1 DEF ClientFits
      <4> QED
        BY <2>0, <3>0, <4>2
    <3>3. other.sink # Len(sinks[other.peer]) + 1
      BY <2>0, <3>0
    <3> QED
      BY <1>0, <2>0, <2>3, <3>1, <3>3 DEF ClientFits
  <2> QED
    BY <1>3, <1>8, <2>1, <2>2, <2>3
<1>9. \A s \in Servers : \A i \in 1 .. Len(sessions'[s]) : Meets(sessions[s][i])'
  BY SMTT(30), <1>7 DEF Meets, FlowClass
<1>10. FlowsFit'
  BY <1>8, <1>9 DEF FlowsFit
<1> QED
  BY <1>5, <1>10

\* A flow between two servers; its port is that of the sink.
LEMMA FlowConnected ==
  ASSUME ServersFit, FlowsFit, NEW s \in Servers, NEW d \in Servers,
         NEW class \in {"long", "short", "replica", "multisource"}, NEW port,
         port = 80 + Len(sinks[d]) + 1, ConnectFlow(s, d, class, port)
  PROVE  ServersFit' /\ FlowsFit'
<1> DEFINE sink == SinkApp(class, port, gates[d])
           client == SessionApp(class, d, port, gates[s], Len(sinks[d]) + 1)
           x == [t \in Servers |-> sink]
           a == [t \in Servers |-> client]
<1>1. /\ sinks \in [Servers -> Seq(SinkApps)] /\ sessions \in [Servers -> Seq(AppRecords)]
      /\ gates \in [Servers -> Nat] /\ Len(sinks[d]) \in Nat /\ sinks[d] \in Seq(SinkApps)
  BY LenProperties DEF ServersFit
<1>2. sink \in SinkApps /\ sink.gate = gates[d] /\ sink.port = port /\ sink.class = class
  BY <1>1 DEF SinkApp, SinkApps, Classes
<1>3. /\ client \in FlowApps /\ client.gate = gates[s] /\ client.port = port
      /\ client.peer = d /\ client.sink = Len(sinks[d]) + 1 /\ client.class = class
  BY <1>1 DEF SessionApp, FlowApps, Classes
<1>4. client \in AppRecords
  BY <1>3 DEF AppRecords
<1>5. /\ s # d
      /\ sinks' = [sinks EXCEPT ![d] = Append(@, sink)]
      /\ sessions' = [sessions EXCEPT ![s] = Append(@, client)]
      /\ gates' = [gates EXCEPT ![s] = @ + 1, ![d] = @ + 1]
  BY DEF ConnectFlow, AddSink, AddSession
<1> HIDE DEF sink, client
<1>6. sinks'[d] = Append(sinks[d], sink)
  BY <1>1, <1>5
<1>7. Len(sinks'[d]) = Len(sinks[d]) + 1 /\ sinks'[d][Len(sinks[d]) + 1] = sink
  BY <1>1, <1>2, <1>6, AppendProperties
<1>8. ClientFits(client, {s})
  <2>1. /\ Len(sinks[d]) + 1 \in 1 .. Len(sinks'[d])
        /\ port = 80 + (Len(sinks[d]) + 1)
    BY <1>1, <1>7
  <2> QED
    BY <1>2, <1>3, <1>7, <2>1 DEF ClientFits
<1>9. Places({d}, {s}, x, a)
  <2>1. {d} \cap {s} = {}
    BY <1>5
  <2>2. sinks' = [t \in Servers |-> IF t \in {d} THEN Append(sinks[t], x[t]) ELSE sinks[t]]
    BY <1>1, <1>5
  <2>3. sessions' = [t \in Servers |-> IF t \in {s} THEN Append(sessions[t], a[t])
                                                    ELSE sessions[t]]
    BY <1>1, <1>5
  <2>4. gates' = [t \in Servers |-> IF t \in {d} \cup {s} THEN gates[t] + 1 ELSE gates[t]]
    BY <1>1, <1>5
  <2>5. x[d] = sink /\ a[s] = client
    OBVIOUS
  <2> HIDE DEF x, a
  <2> QED
    BY <1>2, <1>3, <1>4, <1>8, <2>1, <2>2, <2>3, <2>4, <2>5 DEF Places
<1> QED
  BY <1>9, Placed

\* The group of a scheduler has its hub among the servers and outside of its members.
LEMMA MulticastConnected ==
  ASSUME ServersFit, FlowsFit, NEW g, g.hub \in Servers, g.members \subseteq Servers,
         g.hub \notin g.members, ScheduleMulticastGroupConn(g)
  PROVE  ServersFit' /\ FlowsFit'
<1> DEFINE h == g.hub
           client == MulticastApp(EdgeSwitch(h), NextSessionPort(h), gates[h], g.members)
           x == [t \in Servers |-> SinkApp("multicast", NextSinkPort(t), gates[t])]
           a == [t \in Servers |-> client]
<1>1. /\ sinks \in [Servers -> Seq(SinkApps)] /\ sessions \in [Servers -> Seq(AppRecords)]
      /\ gates \in [Servers -> Nat]
      /\ \A t \in Servers : Len(sinks[t]) \in Nat /\ Len(sessions[t]) \in Nat
  BY LenProperties DEF ServersFit
<1>2. \A t \in Servers : /\ x[t] \in SinkApps /\ x[t].gate = gates[t]
                          /\ x[t].port = 80 + Len(sinks[t]) + 1
  BY <1>1 DEF SinkApp, SinkApps, Classes, NextSinkPort
<1>3. NextSessionPort(h) \in Nat /\ gates[h] \in Nat
  BY <1>1 DEF NextSessionPort
<1>4. client \in AppRecords /\ client.gate = gates[h] /\ ~FlowClass(client)
  <2> DEFINE E == {EdgeSwitch(s) : s \in Servers}
  <2>1. EdgeSwitch(h) \in E
    OBVIOUS
  <2> HIDE DEF E
  <2>2. client \in [class : {"multicast"}, edge : E, port : Nat, gate : Nat,
                    members : SUBSET Servers]
    BY <1>3, <2>1 DEF MulticastApp
  <2>3. client.gate = gates[h] /\ client.class = "multicast"
    BY DEF MulticastApp
  <2> HIDE DEF client
  <2> QED
    BY <2>2, <2>3 DEF AppRecords, E, FlowClass
<1>5. /\ sinks' = [s \in Servers |-> IF s \in g.members THEN Append(sinks[s], x[s])
                                                       ELSE sinks[s]]
      /\ sessions' = [sessions EXCEPT ![h] = Append(@, client)]
      /\ gates' = [s \in Servers |-> IF s \in g.members \cup {h} THEN gates[s] + 1
                                                               ELSE gates[s]]
  BY DEF ScheduleMulticastGroupConn, AddSession
<1> HIDE DEF client
<1>6. ClientFits(client, {h})
  BY <1>4 DEF ClientFits
<1>7. Places(g.members, {h}, x, a)
  <2>1. g.members \cap {h} = {}
    OBVIOUS
  <2>3. sessions' = [t \in Servers |-> IF t \in {h} THEN Append(sessions[t], a[t])
                                                    ELSE sessions[t]]
    BY <1>1, <1>5
  <2>5. a[h] = client
    OBVIOUS
  <2> HIDE DEF x, a, h
  <2>6. \A s \in {h} : a[s] \in AppRecords /\ a[s].gate = gates[s] /\ ClientFits(a[s], {h})
    BY <1>4, <1>6, <2>5
  <2> QED
    BY <1>2, <1>5, <2>1, <2>3, <2>6 DEF Places
<1> QED
  BY <1>7, Placed

\* Several sources and one sink.
LEMMA SourcesConnected ==
  ASSUME ServersFit, FlowsFit, NEW g, g.hub \in Servers, g.members \subseteq Servers,
         g.hub \notin g.members, ScheduleMultiSourcingGroupConn(g)
  PROVE  ServersFit' /\ FlowsFit'
<1> DEFINE d == g.hub
           sink == SinkApp("multisource", NextSinkPort(d), gates[d])
           x == [t \in Servers |-> sink]
           a == [t \in Servers |-> SessionApp("multisource", d, NextSinkPort(d), gates[t],
                                              Len(sinks[d]) + 1)]
<1>1. /\ sinks \in [Servers -> Seq(SinkApps)] /\ sessions \in [Servers -> Seq(AppRecords)]
      /\ gates \in [Servers -> Nat] /\ Len(sinks[d]) \in Nat /\ sinks[d] \in Seq(SinkApps)
  BY LenProperties DEF ServersFit
<1>2. /\ sink \in SinkApps /\ sink.gate = gates[d] /\ sink.port = 80 + Len(sinks[d]) + 1
      /\ sink.class = "multisource"
  BY <1>1 DEF SinkApp, SinkApps, Classes, NextSinkPort
<1>3. \A s \in Servers :
         /\ a[s] \in FlowApps /\ a[s].gate = gates[s]
         /\ a[s].port = 80 + (Len(sinks[d]) + 1)
         /\ a[s].peer = d /\ a[s].sink = Len(sinks[d]) + 1 /\ a[s].class = "multisource"
  BY <1>1 DEF SessionApp, FlowApps, Classes, NextSinkPort
<1>4. \A s \in Servers : a[s] \in AppRecords
  BY <1>3 DEF AppRecords
<1>5. /\ sinks' = [sinks EXCEPT ![d] = Append(@, sink)]
      /\ sessions' = [s \in Servers |-> IF s \in g.members THEN Append(sessions[s], a[s])
                                                          ELSE sessions[s]]
      /\ gates' = [s \in Servers |-> IF s \in g.members \cup {d} THEN gates[s] + 1
                                                               ELSE gates[s]]
  BY DEF ScheduleMultiSourcingGroupConn, AddSink
<1> HIDE DEF sink
<1>6. sinks'[d] = Append(sinks[d], sink)
  BY <1>1, <1>5
<1>7. Len(sinks'[d]) = Len(sinks[d]) + 1 /\ sinks'[d][Len(sinks[d]) + 1] = sink
  BY <1>1, <1>2, <1>6, AppendProperties
<1>8. \A s \in g.members : a[s].sink \in 1 .. Len(sinks'[d])
  BY <1>1, <1>3, <1>7
<1> HIDE DEF a
<1>9. \A s \in g.members : ClientFits(a[s], g.members)
  BY SMTT(30), <1>2, <1>3, <1>7, <1>8 DEF ClientFits
<1>10. Places({d}, g.members, x, a)
  <2>1. {d} \cap g.members = {}
    OBVIOUS
  <2>2. sinks' = [t \in Servers |-> IF t \in {d} THEN Append(sinks[t], x[t]) ELSE sinks[t]]
    BY <1>1, <1>5
  <2>4. x[d] = sink
    OBVIOUS
  <2> HIDE DEF x, d
  <2>5. \A s \in {d} : /\ x[s] \in SinkApps /\ x[s].gate = gates[s]
                       /\ x[s].port = 80 + Len(sinks[s]) + 1
    BY <1>2, <2>4
  <2>6. gates' = [t \in Servers |-> IF t \in {d} \cup g.members THEN gates[t] + 1 ELSE gates[t]]
    BY <1>5
  <2> QED
    BY <1>3, <1>4, <1>5, <1>9, <2>1, <2>2, <2>5, <2>6 DEF Places
<1> QED
  BY <1>10, Placed

\* One more client for the last sink of a server.
LEMMA SourceConnected ==
  ASSUME ServersFit, FlowsFit, NEW s \in Servers, NEW d \in Servers, s # d,
         sinks[d] # <<>>, sinks[d][Len(sinks[d])].class = "multisource", UNCHANGED sinks,
         AddSession(s, SessionApp("multisource", d, sinks[d][Len(sinks[d])].port, gates[s],
                                  Len(sinks[d]))),
         gates' = [gates EXCEPT ![s] = @ + 1, ![d] = @]
  PROVE  ServersFit' /\ FlowsFit'
<1> DEFINE port == sinks[d][Len(sinks[d])].port
           client == SessionApp("multisource", d, port, gates[s], Len(sinks[d]))
           a == [t \in Servers |-> client]
<1>1. /\ sinks \in [Servers -> Seq(SinkApps)] /\ sessions \in [Servers -> Seq(AppRecords)]
      /\ gates \in [Servers -> Nat] /\ Len(sinks[d]) \in Nat /\ sinks[d] \in Seq(SinkApps)
  BY LenProperties DEF ServersFit
<1>2. Len(sinks[d]) \in 1 .. Len(sinks[d])
  BY <1>1, EmptySeq
<1>3. port = 80 + Len(sinks[d])
  BY <1>2 DEF ServersFit, ServerFits
<1> HIDE DEF port
<1>4. /\ client \in FlowApps /\ client.gate = gates[s] /\ client.port = 80 + Len(sinks[d])
      /\ client.peer = d /\ client.sink = Len(sinks[d]) /\ client.class = "multisource"
  BY <1>1, <1>3 DEF SessionApp, FlowApps, Classes
<1>5. client \in AppRecords
  BY <1>4 DEF AppRecords
<1>6. sessions' = [sessions EXCEPT ![s] = Append(@, client)]
  BY DEF AddSession, port
<1> HIDE DEF client
<1>7. ClientFits(client, {s})
  BY <1>2, <1>4 DEF ClientFits
<1>8. Places({}, {s}, a, a)
  <2>1. {} \cap {s} = {}
    OBVIOUS
  <2>2. sinks' = [t \in Servers |-> IF t \in {} THEN Append(sinks[t], a[t]) ELSE sinks[t]]
    BY <1>1
  <2>3. sessions' = [t \in Servers |-> IF t \in {s} THEN Append(sessions[t], a[t])
                                                    ELSE sessions[t]]
    BY <1>1, <1>6
  <2>4. gates' = [t \in Servers |-> IF t \in {} \cup {s} THEN gates[t] + 1 ELSE gates[t]]
    BY <1>1
  <2>5. a[s] = client
    OBVIOUS
  <2> HIDE DEF a
  <2> QED
    BY <1>4, <1>5, <1>7, <2>1, <2>2, <2>3, <2>4, <2>5 DEF Places
<1> QED
  BY <1>8, Placed

LEMMA AppsKept ==
  ASSUME ServersFit, FlowsFit, UNCHANGED appVars
  PROVE  ServersFit' /\ FlowsFit'
<1>1. sinks' = sinks /\ sessions' = sessions /\ gates' = gates
  BY DEF appVars
<1>2. ServersFit'
  BY <1>1 DEF ServersFit
<1>3. FlowsFit'
  BY <1>1 DEF FlowsFit, Meets
<1> QED
  BY <1>2, <1>3

\* Every host without applications.
LEMMA AppsRemoved ==
  ASSUME sinks' = [s \in Servers |-> <<>>], sessions' = [s \in Servers |-> <<>>],
         gates' = [s \in Servers |-> 0]
  PROVE  ServersFit' /\ FlowsFit'
<1>1. Len(<<>>) = 0
  OBVIOUS
<1>2. \A s \in Servers : ServerFits(sinks'[s], sessions'[s], gates'[s])
  BY <1>1, EmptySeq DEF ServerFits
<1>3. ServersFit'
  BY <1>2, EmptySeq DEF ServersFit
<1>4. \A s \in Servers : 1 .. Len(sessions'[s]) = {}
  BY <1>1
<1>5. FlowsFit'
  BY <1>4 DEF FlowsFit
<1> QED
  BY <1>3, <1>5

----------------------------------------------------------------------------
(* The steps.                                                               *)

LEMMA PrepareStep ==
  ASSUME PlacementInv, Prepare
  PROVE  PlacementInv'
<1>0. /\ ControlTypes /\ MatrixFits /\ GroupsFit /\ ServersFit /\ LongFits
      /\ phase = "idle" /\ phase' = "long"
      /\ UNCHANGED <<config, groups, connected, replica, sinks, completed>>
      /\ shortLeft' = config.numShort
      /\ sessions' = [s \in Servers |-> <<>>] /\ gates' = [s \in Servers |-> 0]
  BY DEF PlacementInv, Prepare, RemoveBuiltInApps, groupVars, endVars
<1>1. config \in Scenarios
  BY <1>0 DEF ControlTypes
<1>2. PICK order \in IF config.shuffle THEN Orders ELSE {permServers} :
         permServers' = order /\ longLeft' = LongFlows(order)
  BY DEF Prepare
<1>3. order \in [Servers -> Servers] /\ \A i, j \in Servers : order[i] = order[j] => i = j
  BY <1>0, OrdersAssumption DEF ControlTypes, MatrixFits
<1>4. LongFlows(order) \subseteq [dest : Servers, src : Servers]
  BY <1>1, <1>3, LongFlowsFit
<1>5. LongFlows(permServers)' = LongFlows(order)
  BY <1>0, <1>2 DEF LongFlows, LongPositions
<1>6. ControlTypes'
  BY <1>0, <1>1, <1>2, <1>3, <1>4, ConfigType DEF ControlTypes, Phases
<1>7. MatrixFits'
  BY <1>2, <1>3, <1>5 DEF MatrixFits
<1>8. GroupsFit'
  BY <1>0 DEF GroupsFit, IsRQ, IsTCP
<1>9. \A s \in Servers : sinks[s] = <<>>
  BY <1>0 DEF LongFits
<1>10. sinks \in [Servers -> Seq(SinkApps)]
  BY <1>0 DEF ServersFit
<1>11. sinks' = [s \in Servers |-> <<>>]
  BY <1>0, <1>9, <1>10
<1>12. ServersFit' /\ FlowsFit'
  BY <1>0, <1>11, AppsRemoved
<1>13. LongFits'
  <2>1. \A f \in LongFlows(order) : f.dest \in Servers /\ f.src \in Servers
    BY <1>4
  <2> QED
    BY <1>0, <1>2, <1>11, <2>1 DEF LongFits
<1>14. SessionFits'
  BY <1>0 DEF SessionFits, GroupsFit
<1>15. FailsOnlyAlone'
  BY <1>0 DEF FailsOnlyAlone
<1> QED
  BY <1>6, <1>7, <1>8, <1>12, <1>13, <1>14, <1>15 DEF PlacementInv

LEMMA LongStep ==
  ASSUME PlacementInv, PlaceLongFlow
  PROVE  PlacementInv'
<1>0. /\ ControlTypes /\ MatrixFits /\ GroupsFit /\ ServersFit /\ FlowsFit /\ LongFits
      /\ SessionFits
      /\ phase = "long" /\ UNCHANGED <<config, permServers, completed>>
  BY DEF PlacementInv, PlaceLongFlow, endVars
<1>1. config \in Scenarios /\ permServers \in [Servers -> Servers]
  BY <1>0 DEF ControlTypes
<1>2. PICK f \in longLeft :
         \/ /\ ConnectFlow(f.src, f.dest, "long", NextSessionPort(f.src))
            /\ longLeft' = longLeft \ {f}
            /\ UNCHANGED <<phase, shortLeft, groupVars>>
         \/ f.src = f.dest /\ Fail
  BY DEF PlaceLongFlow
<1>3. /\ longLeft \subseteq LongFlows(permServers)
      /\ \A g \in longLeft : g.dest \in Servers /\ g.src \in Servers
  BY <1>0 DEF MatrixFits, ControlTypes
<1>4. /\ \A g, h \in LongFlows(permServers) : g.dest = h.dest \/ g.src = h.src => g = h
      /\ \A g \in LongFlows(permServers) : g.src = g.dest => config.numLong = 1
  BY <1>0, <1>1, LongFlowsFit DEF MatrixFits
<1>5. LongFlows(permServers)' = LongFlows(permServers)
  BY <1>0 DEF LongFlows, LongPositions
<1>6. CASE /\ ConnectFlow(f.src, f.dest, "long", NextSessionPort(f.src))
           /\ longLeft' = longLeft \ {f}
           /\ UNCHANGED <<phase, shortLeft, groupVars>>
  <2>0. /\ UNCHANGED <<phase, shortLeft, groups, connected, replica>>
        /\ longLeft' = longLeft \ {f}
    BY <1>6 DEF groupVars
  <2>1. sinks[f.dest] = <<>> /\ sessions[f.src] = <<>>
    BY <1>0 DEF LongFits
  <2>2. NextSessionPort(f.src) = 80 + Len(sinks[f.dest]) + 1
    BY <2>1 DEF NextSessionPort
  <2>3. ServersFit' /\ FlowsFit'
    BY <1>0, <1>3, <1>6, <2>2, FlowConnected
  <2>4. \A g \in longLeft' : sinks'[g.dest] = <<>> /\ sessions'[g.src] = <<>>
    <3> SUFFICES ASSUME NEW g \in longLeft' PROVE sinks'[g.dest] = <<>> /\ sessions'[g.src] = <<>>
      OBVIOUS
    <3>1. g \in longLeft /\ g.dest # f.dest /\ g.src # f.src
      BY <1>3, <1>4, <2>0
    <3>2. sinks \in [Servers -> Seq(SinkApps)] /\ sessions \in [Servers -> Seq(AppRecords)]
      BY <1>0 DEF ServersFit
    <3>3. sinks'[g.dest] = sinks[g.dest] /\ sessions'[g.src] = sessions[g.src]
      BY <1>3, <1>6, <3>1, <3>2 DEF ConnectFlow, AddSink, AddSession
    <3> QED
      BY <1>0, <3>1, <3>3 DEF LongFits
  <2>5. ControlTypes' /\ MatrixFits'
    BY <1>0, <1>5, <2>0 DEF ControlTypes, MatrixFits
  <2>6. GroupsFit'
    BY <1>0, <2>0 DEF GroupsFit, IsRQ, IsTCP
  <2>7. LongFits' /\ SessionFits' /\ FailsOnlyAlone'
    BY <1>0, <2>0, <2>4 DEF LongFits, SessionFits, GroupsFit, FailsOnlyAlone
  <2> QED
    BY <2>3, <2>5, <2>6, <2>7 DEF PlacementInv
<1>7. CASE f.src = f.dest /\ Fail
  <2>0. /\ phase' = "failed"
        /\ UNCHANGED <<longLeft, shortLeft, groups, connected, replica, sinks, sessions, gates>>
    BY <1>7 DEF Fail, groupVars, appVars
  <2>1. ServersFit' /\ FlowsFit'
    BY <1>0, <2>0, AppsKept DEF appVars
  <2>2. config.numLong = 1
    BY <1>3, <1>4, <1>7
  <2>3. ControlTypes' /\ MatrixFits'
    BY <1>0, <1>5, <2>0 DEF ControlTypes, MatrixFits, Phases
  <2>4. GroupsFit'
    BY <1>0, <2>0 DEF GroupsFit, IsRQ, IsTCP
  <2>5. LongFits' /\ SessionFits' /\ FailsOnlyAlone'
    BY <1>0, <2>0, <2>2 DEF LongFits, SessionFits, GroupsFit, FailsOnlyAlone
  <2> QED
    BY <2>1, <2>3, <2>4, <2>5 DEF PlacementInv
<1> QED
  BY <1>2, <1>6, <1>7

LEMMA ShortStep ==
  ASSUME PlacementInv, PlaceShortFlow
  PROVE  PlacementInv'
<1>0. /\ ControlTypes /\ MatrixFits /\ GroupsFit /\ ServersFit /\ FlowsFit /\ SessionFits
      /\ phase = "short" /\ shortLeft > 0 /\ UNCHANGED <<config, permServers, completed>>
  BY DEF PlacementInv, PlaceShortFlow, endVars
<1>1. config \in Scenarios /\ permServers \in [Servers -> Servers]
  BY <1>0 DEF ControlTypes
<1>2. PICK f \in NewFlows :
         \/ /\ ConnectFlow(f.src, f.dest, "short", NextSinkPort(f.dest))
            /\ shortLeft' = shortLeft - 1
            /\ UNCHANGED <<phase, longLeft, groupVars>>
         \/ f.src = f.dest /\ Fail
  BY DEF PlaceShortFlow
<1>3. /\ f.dest \in Servers /\ f.src \in Servers
      /\ f.src = f.dest => config.matrix = "permTM" /\ config.numLong = NumServers - 1
  BY <1>0, <1>1, NewFlowsFit DEF MatrixFits
<1>4. LongFlows(permServers)' = LongFlows(permServers)
  BY <1>0 DEF LongFlows, LongPositions
<1>5. CASE /\ ConnectFlow(f.src, f.dest, "short", NextSinkPort(f.dest))
           /\ shortLeft' = shortLeft - 1
           /\ UNCHANGED <<phase, longLeft, groupVars>>
  <2>0. /\ UNCHANGED <<phase, longLeft, groups, connected, replica>>
        /\ shortLeft' = shortLeft - 1
    BY <1>5 DEF groupVars
  <2>1. NextSinkPort(f.dest) = 80 + Len(sinks[f.dest]) + 1
    BY DEF NextSinkPort
  <2>2. ServersFit' /\ FlowsFit'
    BY <1>0, <1>3, <1>5, <2>1, FlowConnected
  <2>3. shortLeft' \in Nat
    BY <1>0, <2>0 DEF ControlTypes
  <2>4. ControlTypes' /\ MatrixFits'
    BY <1>0, <1>4, <2>0, <2>3 DEF ControlTypes, MatrixFits
  <2>5. GroupsFit'
    BY <1>0, <2>0 DEF GroupsFit, IsRQ, IsTCP
  <2>6. LongFits' /\ SessionFits' /\ FailsOnlyAlone'
    BY <1>0, <2>0 DEF LongFits, SessionFits, GroupsFit, FailsOnlyAlone
  <2> QED
    BY <2>2, <2>4, <2>5, <2>6 DEF PlacementInv
<1>6. CASE f.src = f.dest /\ Fail
  <2>0. /\ phase' = "failed"
        /\ UNCHANGED <<longLeft, shortLeft, groups, connected, replica, sinks, sessions, gates>>
    BY <1>6 DEF Fail, groupVars, appVars
  <2>1. ServersFit' /\ FlowsFit'
    BY <1>0, <2>0, AppsKept DEF appVars
  <2>2. config.matrix = "permTM" /\ config.numLong = NumServers - 1
    BY <1>3, <1>6
  <2>3. ControlTypes' /\ MatrixFits'
    BY <1>0, <1>4, <2>0 DEF ControlTypes, MatrixFits, Phases
  <2>4. GroupsFit'
    BY <1>0, <2>0 DEF GroupsFit, IsRQ, IsTCP
  <2>5. LongFits' /\ SessionFits' /\ FailsOnlyAlone'
    BY <1>0, <2>0, <2>2 DEF LongFits, SessionFits, GroupsFit, FailsOnlyAlone
  <2> QED
    BY <2>1, <2>3, <2>4, <2>5 DEF PlacementInv
<1> QED
  BY <1>2, <1>5, <1>6

\* The scheduler goes on, or a transfer ends: nothing is placed.
LEMMA PhaseStep ==
  ASSUME PlacementInv, phase' \in Phases \ {"idle", "long", "failed"},
         phase' = "short" => phase \in {"long", "short"}, completed' \in Nat,
         UNCHANGED <<config, permServers, longLeft, shortLeft, groupVars, appVars>>
  PROVE  PlacementInv'
<1>0. /\ ControlTypes /\ MatrixFits /\ GroupsFit /\ ServersFit /\ FlowsFit /\ SessionFits
      /\ UNCHANGED <<config, permServers, longLeft, shortLeft, groups, connected, replica,
                     sinks, sessions, gates>>
      /\ UNCHANGED appVars
  BY DEF PlacementInv, groupVars, appVars
<1>1. LongFlows(permServers)' = LongFlows(permServers)
  BY <1>0 DEF LongFlows, LongPositions
<1>2. ServersFit' /\ FlowsFit'
  BY <1>0, AppsKept
<1>3. ControlTypes' /\ MatrixFits'
  BY <1>0, <1>1 DEF ControlTypes, MatrixFits
<1>4. GroupsFit'
  BY <1>0 DEF GroupsFit, IsRQ, IsTCP
<1>5. LongFits' /\ SessionFits' /\ FailsOnlyAlone'
  BY <1>0 DEF LongFits, SessionFits, FailsOnlyAlone
<1> QED
  BY <1>2, <1>3, <1>4, <1>5 DEF PlacementInv

LEMMA EnterStep ==
  ASSUME PlacementInv, NEW next \in {"short", "select", "connect", "running", "stopped"},
         next = "short" => phase = "long", EnterPhase(next)
  PROVE  PlacementInv'
<1>1. completed \in Nat
  BY DEF PlacementInv, ControlTypes
<1>2. phase' = next /\ next \in Phases \ {"idle", "long", "failed"} /\ completed' = completed
      /\ UNCHANGED <<config, permServers, longLeft, shortLeft, groupVars, appVars>>
  BY DEF EnterPhase, Phases, endVars
<1> HIDE DEF EnterPhase
<1> QED
  BY <1>1, <1>2, PhaseStep

LEMMA EndStep ==
  ASSUME PlacementInv, FlowEnds
  PROVE  PlacementInv'
<1>1. completed \in Nat
  BY DEF PlacementInv, ControlTypes
<1>2. completed' = completed + 1 /\ phase \in {"running", "stopping"}
      /\ phase' \in {"running", "stopping"}
      /\ UNCHANGED <<config, permServers, longLeft, shortLeft, groupVars, appVars>>
  BY DEF FlowEnds
<1>3. completed' \in Nat /\ phase' # "short" /\ phase' \in Phases \ {"idle", "long", "failed"}
  BY <1>1, <1>2 DEF Phases
<1> QED
  BY <1>2, <1>3, PhaseStep

LEMMA NewGroupFits ==
  ASSUME config \in Scenarios, NEW members \in NewCombinations, NEW hub \in NewHubs(members)
  PROVE  /\ members \in SUBSET Servers /\ hub \in Servers /\ hub \notin members
         /\ members \notin SelectedMembers
<1>1. /\ NumServers \in Nat /\ NumServers >= 2 /\ config.members \in 1 .. NumServers - 1
      /\ config.draws \subseteq Servers
  BY ConfigType
<1>2. FirstCombination \in SUBSET Servers
  BY <1>1 DEF FirstCombination, Servers
<1>3. \A m \in Combinations : m \in SUBSET Servers
  BY <1>1 DEF Combinations
<1>4. members \in SUBSET Servers /\ members \notin SelectedMembers
  BY <1>2, <1>3 DEF NewCombinations
<1>5. 0 \in Servers
  BY <1>1 DEF Servers
<1>6. hub \in Servers /\ hub \notin members
  BY <1>1, <1>5 DEF NewHubs
<1> QED
  BY <1>4, <1>6

LEMMA SelectStep ==
  ASSUME PlacementInv, SelectGroup
  PROVE  PlacementInv'
<1>0. /\ ControlTypes /\ MatrixFits /\ GroupsFit /\ ServersFit /\ FlowsFit /\ SessionFits
      /\ IsRQ /\ phase = "select"
      /\ UNCHANGED <<config, phase, permServers, longLeft, shortLeft, connected, replica,
                     sinks, sessions, gates, completed>>
      /\ UNCHANGED appVars
  BY DEF PlacementInv, SelectGroup, appVars, endVars
<1>1. config \in Scenarios
  BY <1>0 DEF ControlTypes
<1>2a. PICK members \in NewCombinations :
          \E hub \in NewHubs(members) : groups' = Append(groups, Group(hub, members))
  BY DEF SelectGroup
<1>2. PICK hub \in NewHubs(members) : groups' = Append(groups, Group(hub, members))
  BY <1>2a
<1>3. /\ members \in SUBSET Servers /\ hub \in Servers /\ hub \notin members
      /\ members \notin SelectedMembers
  BY <1>1, <1>2, NewGroupFits
<1> DEFINE g == Group(hub, members)
<1>4. g \in GroupRecords /\ g.hub = hub /\ g.members = members
  BY <1>3 DEF Group, GroupRecords
<1> HIDE DEF g
<1>5. /\ groups \in Seq(GroupRecords) /\ connected <= Len(groups) /\ connected \in Nat
      /\ \A i \in 1 .. Len(groups) : groups[i].hub \notin groups[i].members
      /\ replica = 0
      /\ \A i, j \in 1 .. Len(groups) : i # j => groups[i].members # groups[j].members
  BY <1>0 DEF GroupsFit, ControlTypes
<1>6. /\ groups' \in Seq(GroupRecords) /\ Len(groups') = Len(groups) + 1 /\ Len(groups) \in Nat
      /\ \A i \in 1 .. Len(groups) : groups'[i] = groups[i]
      /\ groups'[Len(groups) + 1] = g
  BY <1>2, <1>4, <1>5, AppendProperties, LenProperties DEF g
<1>7. \A i \in 1 .. Len(groups') : i \in 1 .. Len(groups) \/ i = Len(groups) + 1
  BY <1>6
<1>8. \A i \in 1 .. Len(groups) : groups[i].members # members
  <2>1. \A i \in 1 .. Len(groups) : i \in DOMAIN groups
    BY <1>5, LenProperties
  <2> QED
    BY <1>3, <2>1 DEF SelectedMembers
<1>9. \A i \in 1 .. Len(groups') : groups'[i].hub \notin groups'[i].members
  BY <1>3, <1>4, <1>5, <1>6, <1>7
<1>10. \A i, j \in 1 .. Len(groups') : i # j => groups'[i].members # groups'[j].members
  <2> SUFFICES ASSUME NEW i \in 1 .. Len(groups'), NEW j \in 1 .. Len(groups'), i # j
               PROVE  groups'[i].members # groups'[j].members
    OBVIOUS
  <2>1. CASE i \in 1 .. Len(groups) /\ j \in 1 .. Len(groups)
    BY <1>5, <1>6, <2>1
  <2>2. \A k \in 1 .. Len(groups) : groups'[k].members # members
    BY <1>6, <1>8
  <2>3. CASE i = Len(groups) + 1 /\ j \in 1 .. Len(groups)
    BY <1>4, <1>6, <2>2, <2>3
  <2>4. CASE i \in 1 .. Len(groups) /\ j = Len(groups) + 1
    BY <1>4, <1>6, <2>2, <2>4
  <2> QED
    BY <1>7, <2>1, <2>3, <2>4
<1>11. ~IsTCP
  BY <1>0 DEF IsRQ, IsTCP
<1>12. GroupsFit'
  <2>1. connected <= Len(groups')
    BY <1>5, <1>6
  <2>2. ~IsTCP'
    BY <1>0, <1>11 DEF IsTCP
  <2> QED
    BY <1>0, <1>5, <1>6, <1>9, <1>10, <2>1, <2>2 DEF GroupsFit
<1>13. LongFlows(permServers)' = LongFlows(permServers)
  BY <1>0 DEF LongFlows, LongPositions
<1>14. ControlTypes' /\ MatrixFits'
  BY <1>0, <1>13 DEF ControlTypes, MatrixFits
<1>15. ServersFit' /\ FlowsFit'
  BY <1>0, AppsKept
<1>16. LongFits' /\ SessionFits' /\ FailsOnlyAlone'
  BY <1>0, <1>5 DEF LongFits, SessionFits, FailsOnlyAlone
<1> QED
  BY <1>12, <1>14, <1>15, <1>16 DEF PlacementInv

\* A connection for the next group.
LEMMA ConnectStep ==
  ASSUME PlacementInv, phase = "connect", connected < Len(groups),
         connected' \in {connected, connected + 1}, replica' \in 0 .. 2,
         IsRQ => replica' = 0, ServersFit', FlowsFit', SessionFits',
         UNCHANGED <<config, phase, permServers, longLeft, shortLeft, groups, endVars>>
  PROVE  PlacementInv'
<1>0. /\ ControlTypes /\ MatrixFits /\ GroupsFit
      /\ UNCHANGED <<config, phase, permServers, longLeft, shortLeft, groups, completed>>
  BY DEF PlacementInv, endVars
<1>1. connected \in Nat /\ Len(groups) \in Nat
  BY <1>0, LenProperties DEF ControlTypes, GroupsFit
<1>2. connected' \in Nat /\ connected' <= Len(groups)
  BY <1>1
<1>3. LongFlows(permServers)' = LongFlows(permServers)
  BY <1>0 DEF LongFlows, LongPositions
<1>4. ControlTypes' /\ MatrixFits'
  BY <1>0, <1>2, <1>3 DEF ControlTypes, MatrixFits
<1>5. GroupsFit'
  BY <1>0, <1>2 DEF GroupsFit, IsRQ, IsTCP
<1>6. LongFits' /\ FailsOnlyAlone'
  BY <1>0 DEF LongFits, FailsOnlyAlone
<1> QED
  BY <1>4, <1>5, <1>6 DEF PlacementInv

LEMMA NextGroupFits ==
  ASSUME GroupsFit, connected \in Nat, connected < Len(groups)
  PROVE  /\ NextGroup.hub \in Servers /\ NextGroup.members \subseteq Servers
         /\ NextGroup.hub \notin NextGroup.members
         /\ IsTCP => /\ NextGroup.replicas \in [1 .. 3 -> Servers]
                     /\ \A j \in 1 .. 3 : NextGroup.replicas[j] # NextGroup.hub
<1>1. groups \in Seq(GroupRecords)
  BY DEF GroupsFit
<1>2. Len(groups) \in Nat
  BY <1>1, LenProperties
<1>3. connected + 1 \in 1 .. Len(groups)
  BY <1>2
<1>4. NextGroup \in GroupRecords
  BY <1>1, <1>3, ElementOfSeq DEF NextGroup
<1>5. NextGroup.hub \in Servers /\ NextGroup.members \subseteq Servers
  <2> DEFINE R == {<<>>} \cup [1 .. 3 -> Servers]
  <2> HIDE DEF R
  <2>1. NextGroup \in [hub : Servers, members : SUBSET Servers, replicas : R]
    BY <1>4 DEF GroupRecords, R
  <2> QED
    BY <2>1
<1> QED
  BY <1>3, <1>5 DEF GroupsFit, NextGroup

LEMMA MulticastStep ==
  ASSUME PlacementInv, ConnectMulticastGroup
  PROVE  PlacementInv'
<1>1. /\ ControlTypes /\ GroupsFit /\ ServersFit /\ FlowsFit
      /\ IsRQ /\ phase = "connect" /\ connected < Len(groups) /\ connected' = connected + 1
      /\ ScheduleMulticastGroupConn(NextGroup)
      /\ UNCHANGED <<config, phase, permServers, longLeft, shortLeft, groups, replica, endVars>>
  BY DEF PlacementInv, ConnectMulticastGroup
<1>2. connected \in Nat /\ replica = 0
  BY <1>1 DEF ControlTypes, GroupsFit
<1>3. ServersFit' /\ FlowsFit'
  BY <1>1, <1>2, NextGroupFits, MulticastConnected
<1>4. SessionFits'
  BY <1>1, <1>2 DEF SessionFits
<1>5. replica' = 0 /\ replica' \in 0 .. 2
  BY <1>1, <1>2
<1> QED
  BY <1>1, <1>3, <1>4, <1>5, ConnectStep

LEMMA SourcingStep ==
  ASSUME PlacementInv, ConnectMultiSourcingGroup
  PROVE  PlacementInv'
<1>1. /\ ControlTypes /\ GroupsFit /\ ServersFit /\ FlowsFit
      /\ IsRQ /\ phase = "connect" /\ connected < Len(groups) /\ connected' = connected + 1
      /\ ScheduleMultiSourcingGroupConn(NextGroup)
      /\ UNCHANGED <<config, phase, permServers, longLeft, shortLeft, groups, replica, endVars>>
  BY DEF PlacementInv, ConnectMultiSourcingGroup
<1>2. connected \in Nat /\ replica = 0
  BY <1>1 DEF ControlTypes, GroupsFit
<1>3. ServersFit' /\ FlowsFit'
  BY <1>1, <1>2, NextGroupFits, SourcesConnected
<1>4. SessionFits'
  BY <1>1, <1>2 DEF SessionFits
<1>5. replica' = 0 /\ replica' \in 0 .. 2
  BY <1>1, <1>2
<1> QED
  BY <1>1, <1>3, <1>4, <1>5, ConnectStep

LEMMA ReplicasStep ==
  ASSUME PlacementInv, SelectReplicas
  PROVE  PlacementInv'
<1>0. /\ ControlTypes /\ MatrixFits /\ GroupsFit /\ ServersFit /\ FlowsFit
      /\ IsTCP /\ phase = "connect" /\ replica' = 0
      /\ UNCHANGED <<config, phase, permServers, longLeft, shortLeft, connected,
                     sinks, sessions, gates, completed>>
      /\ UNCHANGED appVars
  BY DEF PlacementInv, SelectReplicas, appVars, endVars
<1>1. config \in Scenarios
  BY <1>0 DEF ControlTypes
<1>2. PICK hub \in Drawn : \E r \in ReplicaDraws(hub) : groups' = Append(groups, Session(hub, r))
  BY DEF SelectReplicas
<1>3. PICK r \in ReplicaDraws(hub) : groups' = Append(groups, Session(hub, r))
  BY <1>2
<1>4. Drawn \subseteq Servers
  BY <1>0, <1>1, NewFlowsFit DEF ControlTypes, MatrixFits
<1>5. hub \in Servers /\ r \in [1 .. 3 -> Servers] /\ \A j \in 1 .. 3 : r[j] # hub
  BY <1>2, <1>3, <1>4 DEF ReplicaDraws
<1> DEFINE g == Session(hub, r)
<1>6. /\ g \in GroupRecords /\ g.hub = hub /\ g.replicas = r /\ hub \notin g.members
  <2>1. {r[i] : i \in DOMAIN r} \in SUBSET Servers /\ hub \notin {r[i] : i \in DOMAIN r}
    BY <1>5
  <2> DEFINE m == {r[i] : i \in DOMAIN r}
  <2> HIDE DEF m
  <2>2. m \in SUBSET Servers /\ hub \notin m
    BY <2>1 DEF m
  <2>3. g = [hub |-> hub, members |-> m, replicas |-> r]
    BY DEF Session, m
  <2> DEFINE R == {<<>>} \cup [1 .. 3 -> Servers]
  <2>4. r \in R
    BY <1>5
  <2> HIDE DEF g, R
  <2>5. g \in [hub : Servers, members : SUBSET Servers, replicas : R]
    BY <1>5, <2>2, <2>3, <2>4
  <2>6. g.hub = hub /\ g.replicas = r /\ hub \notin g.members
    BY <2>2, <2>3
  <2> QED
    BY <2>5, <2>6 DEF GroupRecords, R
<1> HIDE DEF g
<1>7. /\ groups \in Seq(GroupRecords) /\ connected <= Len(groups) /\ connected \in Nat
      /\ \A i \in 1 .. Len(groups) : groups[i].hub \notin groups[i].members
      /\ \A i \in 1 .. Len(groups) :
            /\ groups[i].replicas \in [1 .. 3 -> Servers]
            /\ \A j \in 1 .. 3 : groups[i].replicas[j] # groups[i].hub
  BY <1>0 DEF GroupsFit, ControlTypes
<1>8. /\ groups' \in Seq(GroupRecords) /\ Len(groups') = Len(groups) + 1 /\ Len(groups) \in Nat
      /\ \A i \in 1 .. Len(groups) : groups'[i] = groups[i]
      /\ groups'[Len(groups) + 1] = g
  BY <1>3, <1>6, <1>7, AppendProperties, LenProperties DEF g
<1>9. \A i \in 1 .. Len(groups') : i \in 1 .. Len(groups) \/ i = Len(groups) + 1
  BY <1>8
<1>10. \A i \in 1 .. Len(groups') : groups'[i].hub \notin groups'[i].members
  BY <1>6, <1>7, <1>8, <1>9
<1>11. ASSUME NEW i \in 1 .. Len(groups')
       PROVE  /\ groups'[i].replicas \in [1 .. 3 -> Servers]
              /\ \A j \in 1 .. 3 : groups'[i].replicas[j] # groups'[i].hub
  <2>1. CASE i \in 1 .. Len(groups)
    BY <1>7, <1>8, <2>1
  <2>2. CASE groups'[i] = g
    BY <1>5, <1>6, <2>2
  <2> QED
    BY <1>8, <1>9, <2>1, <2>2
<1>12. GroupsFit'
  <2>1. connected <= Len(groups')
    BY <1>7, <1>8
  <2>2. ~IsRQ'
    BY <1>0 DEF IsRQ, IsTCP
  <2> QED
    BY <1>0, <1>8, <1>10, <1>11, <2>1, <2>2 DEF GroupsFit
<1>13. LongFlows(permServers)' = LongFlows(permServers)
  BY <1>0 DEF LongFlows, LongPositions
<1>14. ControlTypes' /\ MatrixFits'
  BY <1>0, <1>13 DEF ControlTypes, MatrixFits
<1>15. ServersFit' /\ FlowsFit'
  BY <1>0, AppsKept
<1>16. LongFits' /\ SessionFits' /\ FailsOnlyAlone'
  BY <1>0 DEF LongFits, SessionFits, FailsOnlyAlone
<1> QED
  BY <1>12, <1>14, <1>15, <1>16 DEF PlacementInv

LEMMA ReplicaCounted ==
  ASSUME connected \in Nat, replica \in 0 .. 2, CountReplica
  PROVE  /\ connected' \in {connected, connected + 1} /\ replica' \in 0 .. 2
         /\ replica' > 0 => connected' = connected
  BY DEF CountReplica

LEMMA UnicastStep ==
  ASSUME PlacementInv, ConnectUnicastReplica
  PROVE  PlacementInv'
<1>1. /\ ControlTypes /\ GroupsFit /\ ServersFit /\ FlowsFit
      /\ IsTCP /\ phase = "connect" /\ connected < Len(groups) /\ config.mode = "multicast"
      /\ ConnectFlow(CurrentSession.hub, CurrentReplica, "replica", NextSinkPort(CurrentReplica))
      /\ CountReplica
      /\ UNCHANGED <<config, phase, permServers, longLeft, shortLeft, groups, endVars>>
  BY DEF PlacementInv, ConnectUnicastReplica
<1>2. connected \in Nat /\ replica \in 0 .. 2
  BY <1>1 DEF ControlTypes
<1>3. /\ connected' \in {connected, connected + 1} /\ replica' \in 0 .. 2
  BY <1>1, <1>2, ReplicaCounted
<1>4. CurrentSession.hub \in Servers /\ CurrentReplica \in Servers
  <2>1. NextGroup = CurrentSession
    BY DEF NextGroup, CurrentSession
  <2>2. CurrentSession.hub \in Servers /\ CurrentSession.replicas \in [1 .. 3 -> Servers]
    BY <1>1, <1>2, <2>1, NextGroupFits
  <2> QED
    BY <1>2, <2>2 DEF CurrentReplica
<1>5. NextSinkPort(CurrentReplica) = 80 + Len(sinks[CurrentReplica]) + 1
  BY DEF NextSinkPort
<1>6. ServersFit' /\ FlowsFit'
  BY <1>1, <1>4, <1>5, FlowConnected
<1>7. SessionFits'
  BY <1>1 DEF SessionFits
<1>8. IsRQ => replica' = 0
  BY <1>1 DEF IsRQ, IsTCP
<1> QED
  BY <1>1, <1>3, <1>6, <1>7, <1>8, ConnectStep

LEMMA SourceStep ==
  ASSUME PlacementInv, ConnectSourceReplica
  PROVE  PlacementInv'
<1> DEFINE d == CurrentSession.hub
           s == CurrentReplica
<1>1. /\ ControlTypes /\ GroupsFit /\ ServersFit /\ FlowsFit /\ SessionFits
      /\ IsTCP /\ phase = "connect" /\ connected < Len(groups) /\ config.mode = "multisource"
      /\ CountReplica
      /\ UNCHANGED <<config, phase, permServers, longLeft, shortLeft, groups, endVars>>
  BY DEF PlacementInv, ConnectSourceReplica
<1>2. connected \in Nat /\ replica \in 0 .. 2
  BY <1>1 DEF ControlTypes
<1>3. /\ connected' \in {connected, connected + 1} /\ replica' \in 0 .. 2
      /\ replica' > 0 => connected' = connected
  BY <1>1, <1>2, ReplicaCounted
<1>4. d \in Servers /\ s \in Servers /\ s # d
  <2>1. NextGroup = CurrentSession
    BY DEF NextGroup, CurrentSession
  <2>2. /\ CurrentSession.hub \in Servers /\ CurrentSession.replicas \in [1 .. 3 -> Servers]
        /\ \A j \in 1 .. 3 : CurrentSession.replicas[j] # CurrentSession.hub
    BY <1>1, <1>2, <2>1, NextGroupFits
  <2> QED
    BY <1>2, <2>2 DEF CurrentReplica
<1>5. /\ sinks \in [Servers -> Seq(SinkApps)] /\ sinks[d] \in Seq(SinkApps)
      /\ Len(sinks[d]) \in Nat /\ gates[d] \in Nat
  BY <1>1, <1>4, LenProperties DEF ServersFit
<1>8. /\ ServersFit' /\ FlowsFit'
      /\ sinks'[d] # <<>> /\ sinks'[d][Len(sinks'[d])].class = "multisource"
  <2>6. CASE replica = 0
    <3>1. ConnectFlow(s, d, "multisource", NextSinkPort(d))
      BY <1>4, <2>6 DEF ConnectSourceReplica, ConnectFlow
    <3>2. NextSinkPort(d) = 80 + Len(sinks[d]) + 1
      BY DEF NextSinkPort
    <3>3. ServersFit' /\ FlowsFit'
      BY <1>1, <1>4, <3>1, <3>2, FlowConnected
    <3>4. sinks'[d] # <<>> /\ sinks'[d][Len(sinks'[d])].class = "multisource"
      <4> DEFINE sink == SinkApp("multisource", NextSinkPort(d), gates[d])
      <4>1. sinks'[d] = Append(sinks[d], sink)
        BY <1>4, <1>5, <3>1 DEF ConnectFlow, AddSink
      <4>2. sink \in SinkApps /\ sink.class = "multisource"
        BY <1>5 DEF SinkApp, SinkApps, Classes, NextSinkPort
      <4> HIDE DEF sink
      <4>3. Len(sinks'[d]) = Len(sinks[d]) + 1 /\ sinks'[d][Len(sinks'[d])] = sink
        BY <1>5, <4>1, <4>2, AppendProperties
      <4>4. sinks'[d] # <<>>
        BY <1>5, <4>3, EmptySeq
      <4> QED
        BY <4>2, <4>3, <4>4
    <3> QED
      BY <3>3, <3>4
  <2>7. CASE replica # 0
    <3>1. sinks[d] # <<>> /\ sinks[d][Len(sinks[d])].class = "multisource"
      BY <1>1, <1>2, <2>7 DEF SessionFits, CurrentSession
    <3>2. /\ UNCHANGED sinks
          /\ AddSession(s, SessionApp("multisource", d, sinks[d][Len(sinks[d])].port, gates[s],
                                      Len(sinks[d])))
          /\ gates' = [gates EXCEPT ![s] = @ + 1, ![d] = @]
      BY <2>7 DEF ConnectSourceReplica
    <3>3. ServersFit' /\ FlowsFit'
      BY <1>1, <1>4, <3>1, <3>2, SourceConnected
    <3> QED
      BY <3>1, <3>2, <3>3
  <2> QED
    BY <2>6, <2>7
<1>9. SessionFits'
  <2>1. replica' > 0 => connected' < Len(groups') /\ groups'[connected' + 1] = CurrentSession
    BY <1>1, <1>3 DEF CurrentSession
  <2> QED
    BY <1>8, <2>1 DEF SessionFits
<1>10. IsRQ => replica' = 0
  BY <1>1 DEF IsRQ, IsTCP
<1> QED
  BY <1>1, <1>3, <1>8, <1>9, <1>10, ConnectStep

----------------------------------------------------------------------------
LEMMA PlacementInit == Init => PlacementInv
<1> SUFFICES ASSUME Init PROVE PlacementInv
  OBVIOUS
<1>0. /\ config \in Scenarios /\ phase = "idle" /\ permServers = [i \in Servers |-> i]
      /\ longLeft = {} /\ shortLeft = 0 /\ groups = <<>> /\ connected = 0 /\ replica = 0
      /\ sinks = [s \in Servers |-> <<>>] /\ sessions = [s \in Servers |-> <<BuiltInApp>>]
      /\ gates = [s \in Servers |-> 1] /\ completed = 0
  BY DEF Init
<1>1. Len(groups) = 0 /\ groups \in Seq(GroupRecords)
  BY <1>0, EmptySeq
<1>2. ControlTypes /\ MatrixFits
  BY <1>0 DEF ControlTypes, MatrixFits, Phases
<1>3. 1 .. Len(groups) = {}
  BY <1>1
<1>4. \A i \in DOMAIN groups : FALSE
  BY <1>1, <1>3, LenProperties
<1>5. GroupsFit
  <2>1. config.protocol \in {"RQ", "TCP"}
    BY <1>0, ConfigType
  <2> QED
    BY <1>0, <1>1, <1>3 DEF GroupsFit
<1>6. <<BuiltInApp>> \in Seq(AppRecords) /\ Len(<<BuiltInApp>>) = 1
      /\ <<BuiltInApp>>[1] = BuiltInApp
  BY DEF AppRecords
<1>7. BuiltInApp.gate = 0 /\ ~FlowClass(BuiltInApp)
  BY DEF BuiltInApp, FlowClass
<1>8. ServerFits(<<>>, <<BuiltInApp>>, 1)
  <2> DEFINE C == <<BuiltInApp>>
  <2>1. C \in Seq(AppRecords) /\ Len(C) = 1 /\ \A i \in 1 .. Len(C) : i = 1 /\ C[i].gate = 0
    BY <1>6, <1>7
  <2> HIDE DEF C
  <2>2. <<>> \in Seq(SinkApps) /\ Len(<<>>) = 0
    BY EmptySeq
  <2>3. ServerFits(<<>>, C, 1)
    BY <2>1, <2>2 DEF ServerFits
  <2> QED
    BY <2>3 DEF C
<1>9. ServersFit
  BY <1>0, <1>6, <1>8, EmptySeq DEF ServersFit
<1>10. \A s \in Servers : \A i \in 1 .. Len(sessions[s]) : ~FlowClass(sessions[s][i])
  <2> DEFINE C == <<BuiltInApp>>
  <2>1. Len(C) = 1 /\ \A i \in 1 .. Len(C) : C[i] = BuiltInApp
    BY <1>6
  <2>2. \A s \in Servers : sessions[s] = C
    BY <1>0
  <2> HIDE DEF C
  <2> QED
    BY <1>7, <2>1, <2>2
<1>11. FlowsFit
  BY <1>10 DEF FlowsFit, Meets, Shared
<1>12. LongFits /\ SessionFits /\ FailsOnlyAlone
  BY <1>0 DEF LongFits, SessionFits, FailsOnlyAlone
<1> QED
  BY <1>2, <1>5, <1>9, <1>11, <1>12 DEF PlacementInv

LEMMA PlacementStep == PlacementInv /\ [Next]_vars => PlacementInv'
<1> SUFFICES ASSUME PlacementInv, [Next]_vars PROVE PlacementInv'
  OBVIOUS
<1>1. CASE Prepare
  BY <1>1, PrepareStep
<1>2. CASE PlaceLongFlow
  BY <1>2, LongStep
<1>3. CASE PlaceShortFlow
  BY <1>3, ShortStep
<1>4. CASE RQEndLongFlows
  BY <1>4, EnterStep DEF RQEndLongFlows
<1>5. CASE RQEndShortFlows
  <2>1. CASE config.mode = "none"
    BY <1>5, <2>1, EnterStep DEF RQEndShortFlows
  <2>2. CASE config.mode # "none"
    BY <1>5, <2>2, EnterStep DEF RQEndShortFlows
  <2> QED
    BY <2>1, <2>2
<1>6. CASE SelectGroup
  BY <1>6, SelectStep
<1>7. CASE EndSelection
  BY <1>7, EnterStep DEF EndSelection
<1>8. CASE ConnectMulticastGroup
  BY <1>8, MulticastStep
<1>9. CASE ConnectMultiSourcingGroup
  BY <1>9, SourcingStep
<1>10. CASE EndConnections
  BY <1>10, EnterStep DEF EndConnections
<1>11. CASE FlowEnds
  BY <1>11, EndStep
<1>12. CASE Stop
  BY <1>12, EnterStep DEF Stop
<1>13. CASE TCPEndLongFlows
  <2>1. CASE config.mode = "none"
    BY <1>13, <2>1, EnterStep DEF TCPEndLongFlows
  <2>2. CASE config.mode # "none"
    BY <1>13, <2>2, EnterStep DEF TCPEndLongFlows
  <2> QED
    BY <2>1, <2>2
<1>14. CASE TCPEndShortFlows
  BY <1>14, EnterStep DEF TCPEndShortFlows
<1>15. CASE SelectReplicas
  BY <1>15, ReplicasStep
<1>16. CASE ConnectUnicastReplica
  BY <1>16, UnicastStep
<1>17. CASE ConnectSourceReplica
  BY <1>17, SourceStep
<1>18. CASE TCPEndConnections
  BY <1>18, EnterStep DEF TCPEndConnections
<1>19. CASE UNCHANGED vars
  <2>0. /\ ControlTypes /\ MatrixFits /\ GroupsFit /\ ServersFit /\ FlowsFit /\ LongFits
        /\ SessionFits /\ FailsOnlyAlone
    BY DEF PlacementInv
  <2>1. /\ UNCHANGED <<config, phase, permServers, longLeft, shortLeft, groups, connected,
                       replica, sinks, sessions, gates, completed>>
        /\ UNCHANGED appVars
    BY <1>19 DEF vars, groupVars, appVars, endVars
  <2>2. ServersFit' /\ FlowsFit'
    BY <2>0, <2>1, AppsKept
  <2>3. LongFlows(permServers)' = LongFlows(permServers)
    BY <2>1 DEF LongFlows, LongPositions
  <2>4. ControlTypes' /\ MatrixFits'
    BY <2>0, <2>1, <2>3 DEF ControlTypes, MatrixFits
  <2>5. GroupsFit'
    BY <2>0, <2>1 DEF GroupsFit, IsRQ, IsTCP
  <2>6. LongFits' /\ SessionFits' /\ FailsOnlyAlone'
    BY <2>0, <2>1 DEF LongFits, SessionFits, FailsOnlyAlone
  <2> QED
    BY <2>2, <2>4, <2>5, <2>6 DEF PlacementInv
<1> QED
  BY <1>1, <1>2, <1>3, <1>4, <1>5, <1>6, <1>7, <1>8, <1>9, <1>10, <1>11, <1>12, <1>13, <1>14,
     <1>15, <1>16, <1>17, <1>18, <1>19
  DEF Next, RQNext, TCPNext, RQPrepare, RQPlaceLongFlow, RQPlaceShortFlow, TCPPrepare,
      TCPPlaceLongFlow, TCPPlaceShortFlow

LEMMA PlacementHolds == Spec => []PlacementInv
  BY PlacementInit, PlacementStep, PTL DEF Spec

----------------------------------------------------------------------------
(* What follows.                                                            *)

LEMMA PlacementTypes == PlacementInv => TypeOK
<1> SUFFICES ASSUME PlacementInv PROVE TypeOK
  OBVIOUS
<1>1. ControlTypes /\ ServersFit
  BY DEF PlacementInv
<1>2. /\ sinks \in [Servers -> Seq(SinkApps)] /\ sessions \in [Servers -> Seq(AppRecords)]
      /\ gates \in [Servers -> Nat]
  BY <1>1 DEF ServersFit
<1>3. ASSUME NEW s \in Servers, NEW i \in DOMAIN sinks[s] PROVE sinks[s][i].port > 80
  <2>1. sinks[s] \in Seq(SinkApps)
    BY <1>2
  <2>2. i \in 1 .. Len(sinks[s]) /\ Len(sinks[s]) \in Nat
    BY <2>1, LenProperties
  <2>3. sinks[s][i].port = 80 + i
    BY <1>1, <2>2 DEF ServersFit, ServerFits
  <2>4. i \in Nat /\ i > 0
    BY <2>2
  <2> QED
    BY <2>3, <2>4
<1>4. ASSUME NEW s \in Servers, NEW i \in DOMAIN sessions[s], FlowClass(sessions[s][i])
      PROVE  sessions[s][i] \in FlowApps
  <2>1. sessions[s] \in Seq(AppRecords)
    BY <1>2
  <2>2. sessions[s][i] \in AppRecords
    BY <2>1, LenProperties, ElementOfSeq
  <2> QED
    BY <1>4, <2>2, AppTypes
<1> QED
  BY <1>1, <1>2, <1>3, <1>4 DEF TypeOK, ControlTypes

LEMMA PlacementApart == PlacementInv => AppsApart
<1> SUFFICES ASSUME PlacementInv, NEW s \in Servers
             PROVE  /\ \A i, j \in DOMAIN sinks[s] :
                          i # j => sinks[s][i].port # sinks[s][j].port
                    /\ \A i, j \in DOMAIN sinks[s] :
                          i # j => sinks[s][i].gate # sinks[s][j].gate
                    /\ \A i, j \in DOMAIN sessions[s] :
                          i # j => sessions[s][i].gate # sessions[s][j].gate
                    /\ \A i \in DOMAIN sinks[s] : \A j \in DOMAIN sessions[s] :
                          sinks[s][i].gate # sessions[s][j].gate
                    /\ gates[s] = Len(sinks[s]) + Len(sessions[s])
  BY DEF AppsApart
<1> DEFINE S == sinks[s]
           C == sessions[s]
<1>1. ServerFits(S, C, gates[s])
  BY DEF PlacementInv, ServersFit
<1>2. S \in Seq(SinkApps) /\ C \in Seq(AppRecords)
  BY <1>1 DEF ServerFits
<1> HIDE DEF S, C
<1>3. DOMAIN S = 1 .. Len(S) /\ DOMAIN C = 1 .. Len(C) /\ Len(S) \in Nat
  BY <1>2, LenProperties
<1>4. \A i, j \in 1 .. Len(S) : i # j => S[i].port # S[j].port
  <2>1. \A i \in 1 .. Len(S) : S[i].port = 80 + i /\ i \in Nat
    BY <1>1, <1>3 DEF ServerFits
  <2> QED
    BY <2>1
<1>5. /\ \A i, j \in DOMAIN S : i # j => S[i].port # S[j].port
      /\ \A i, j \in DOMAIN S : i # j => S[i].gate # S[j].gate
      /\ \A i, j \in DOMAIN C : i # j => C[i].gate # C[j].gate
      /\ \A i \in DOMAIN S : \A j \in DOMAIN C : S[i].gate # C[j].gate
      /\ gates[s] = Len(S) + Len(C)
  BY <1>1, <1>3, <1>4 DEF ServerFits
<1> QED
  BY <1>5 DEF S, C

LEMMA PlacementMeets == PlacementInv => FlowsMeetTheirSink
<1> SUFFICES ASSUME PlacementInv, NEW s \in Servers, NEW t \in Servers,
                    NEW i \in DOMAIN sessions[s], NEW j \in DOMAIN sessions[t],
                    NEW app, NEW other, app = sessions[s][i], other = sessions[t][j],
                    FlowClass(app)
             PROVE  /\ app.sink \in DOMAIN sinks[app.peer]
                    /\ sinks[app.peer][app.sink].port = app.port
                    /\ (/\ FlowClass(other)
                        /\ <<s, i>> # <<t, j>>
                        /\ other.peer = app.peer
                        /\ other.port = app.port) => app.class = "multisource"
  BY DEF FlowsMeetTheirSink
<1>1. ServersFit /\ FlowsFit
  BY DEF PlacementInv
<1>2. sessions \in [Servers -> Seq(AppRecords)] /\ sinks \in [Servers -> Seq(SinkApps)]
  BY <1>1 DEF ServersFit
<1>3. /\ i \in 1 .. Len(sessions[s]) /\ j \in 1 .. Len(sessions[t])
      /\ app \in AppRecords /\ other \in AppRecords
  BY <1>2, LenProperties, ElementOfSeq
<1>4. app.peer \in Servers
  BY <1>3, AppTypes DEF FlowApps
<1>5. /\ app.sink \in 1 .. Len(sinks[app.peer]) /\ app.port = 80 + app.sink
  BY <1>1, <1>3 DEF FlowsFit, Meets
<1>6. DOMAIN sinks[app.peer] = 1 .. Len(sinks[app.peer]) /\ Len(sinks[app.peer]) \in Nat
  BY <1>2, <1>4, LenProperties
<1>7. sinks[app.peer][app.sink].port = 80 + app.sink
  BY <1>1, <1>4, <1>5 DEF ServersFit, ServerFits
<1>8. ASSUME FlowClass(other), <<s, i>> # <<t, j>>, other.peer = app.peer, other.port = app.port
      PROVE  app.class = "multisource"
  <2>1. other.sink \in Nat /\ app.sink \in Nat
    BY <1>3, <1>8, AppTypes DEF FlowApps
  <2>2. other.port = 80 + other.sink
    BY <1>1, <1>3, <1>8 DEF FlowsFit, Meets
  <2>3. other.sink = app.sink
    BY <1>5, <1>8, <2>1, <2>2
  <2>4. Shared(app, other)
    BY <1>8, <2>3 DEF Shared
  <2> QED
    BY <1>1, <1>3, <1>8, <2>4 DEF FlowsFit
<1> QED
  BY <1>5, <1>6, <1>7, <1>8

LEMMA PlacementGroups == PlacementInv => GroupsApart
<1> SUFFICES ASSUME PlacementInv PROVE GroupsApart
  OBVIOUS
<1>1. GroupsFit
  BY DEF PlacementInv
<1>2. DOMAIN groups = 1 .. Len(groups)
  BY <1>1, LenProperties DEF GroupsFit
<1> QED
  BY <1>1, <1>2 DEF GroupsFit, GroupsApart

\* The state is well formed.
THEOREM SchedulerTypes == Spec => []TypeOK
  BY PlacementHolds, PlacementTypes, PTL

\* However flows and groups are placed, the applications of a host have different ports and
\* gates, and as many gates as there are applications are used.
THEOREM AppsApartHold == Spec => []AppsApart
  BY PlacementHolds, PlacementApart, PTL

\* A client connects to the port of its sink, which no flow of another kind shares.
THEOREM FlowsMeet == Spec => []FlowsMeetTheirSink
  BY PlacementHolds, PlacementMeets, PTL

\* No replica group is selected twice, and no hub is a member of its own group.
THEOREM GroupsHold == Spec => []GroupsApart
  BY PlacementHolds, PlacementGroups, PTL

\* The framework refuses a simulation only in the two cases of a server that is alone.
THEOREM FailsHold == Spec => []FailsOnlyAlone
<1>1. PlacementInv => FailsOnlyAlone
  BY DEF PlacementInv
<1> QED
  BY <1>1, PlacementHolds, PTL

----------------------------------------------------------------------------
(* The count of finished flows.                                             *)

Ending == {"running", "stopping", "stopped"}

\* Nothing has ended before all flows are placed; every flow that has ended is counted once.
\* With short flows only, there are as many connections as flows have been placed.
CountFits ==
    /\ IsFiniteSet(told)
    /\ completed = Cardinality(told)
    /\ phase \in Ending => told \subseteq Connections
    /\ phase \notin Ending => told = {}
    /\ OnlyShortFlows =>
           /\ phase \notin {"select", "connect"}
           /\ phase = "long" => /\ longLeft = {} /\ shortLeft = config.numShort
                                /\ \A s \in Servers : sessions[s] = <<>>
           /\ phase = "short" \/ phase \in Ending =>
                  /\ IsFiniteSet(Connections)
                  /\ Cardinality(Connections) + shortLeft = config.numShort
           /\ phase \in Ending => shortLeft = 0
           /\ phase \in {"stopping", "stopped"} => completed = config.numShort

CountInv == PlacementInv /\ CountFits

LEMMA InConnections ==
  \A c : c \in Connections <=>
         \E s \in Servers : \E i \in DOMAIN sessions[s] : \E d \in DestsOf(sessions[s][i]) :
             c = <<s, i, d>>
  BY DEF Connections

\* A new flow is one more connection.
LEMMA ConnectionAdded ==
  ASSUME ServersFit, NEW s \in Servers, NEW client \in FlowApps,
         sessions' = [sessions EXCEPT ![s] = Append(@, client)]
  PROVE  \E c : c \notin Connections /\ Connections' = Connections \cup {c}
<1> DEFINE n == Len(sessions[s]) + 1
           c == <<s, n, client.peer>>
<1>1. sessions \in [Servers -> Seq(AppRecords)]
  BY DEF ServersFit
<1>2. client \in AppRecords
  BY DEF AppRecords
<1>3. DestsOf(client) = {client.peer}
  BY DEF DestsOf, FlowApps
<1>4. sessions[s] \in Seq(AppRecords) /\ Len(sessions[s]) \in Nat
      /\ DOMAIN sessions[s] = 1 .. Len(sessions[s])
  BY <1>1, LenProperties
<1>5. sessions'[s] = Append(sessions[s], client)
  BY <1>1
<1>6. /\ Len(sessions'[s]) = n /\ sessions'[s] \in Seq(AppRecords)
      /\ \A i \in 1 .. Len(sessions[s]) : sessions'[s][i] = sessions[s][i]
      /\ sessions'[s][n] = client
  BY <1>2, <1>4, <1>5, AppendProperties
<1>7. DOMAIN sessions'[s] = 1 .. n
  BY <1>6, LenProperties
<1>8. n \notin DOMAIN sessions[s] /\ DOMAIN sessions'[s] = DOMAIN sessions[s] \cup {n}
  BY <1>4, <1>7
<1>9. \A i \in DOMAIN sessions[s] : sessions'[s][i] = sessions[s][i]
  BY <1>4, <1>6
<1>10. \A t \in Servers : t # s => sessions'[t] = sessions[t]
  BY <1>1
<1> HIDE DEF n
<1>11. c \notin Connections
  <2> SUFFICES ASSUME c \in Connections PROVE FALSE
    OBVIOUS
  <2>1. PICK t \in Servers : \E i \in DOMAIN sessions[t] : \E d \in DestsOf(sessions[t][i]) :
                  c = <<t, i, d>>
    BY InConnections
  <2>2. PICK i \in DOMAIN sessions[t] : \E d \in DestsOf(sessions[t][i]) : c = <<t, i, d>>
    BY <2>1
  <2>3. t = s /\ i = n
    BY <2>2
  <2> QED
    BY <1>8, <2>3
<1>12. \A b : b \in Connections' <=>
              \E t \in Servers : \E i \in DOMAIN sessions'[t] : \E d \in DestsOf(sessions'[t][i]) :
                  b = <<t, i, d>>
  BY DEF Connections
<1>13. ASSUME NEW b, b \in Connections' PROVE b \in Connections \cup {c}
  <2>1. PICK t \in Servers : \E i \in DOMAIN sessions'[t] : \E d \in DestsOf(sessions'[t][i]) :
                  b = <<t, i, d>>
    BY <1>12, <1>13
  <2>2. PICK i \in DOMAIN sessions'[t] : \E d \in DestsOf(sessions'[t][i]) : b = <<t, i, d>>
    BY <2>1
  <2>3. PICK d \in DestsOf(sessions'[t][i]) : b = <<t, i, d>>
    BY <2>2
  <2>4. CASE t = s /\ i = n
    BY <1>3, <1>6, <2>3, <2>4
  <2>5. CASE ~(t = s /\ i = n)
    <3>1. i \in DOMAIN sessions[t] /\ sessions'[t][i] = sessions[t][i]
      BY <1>8, <1>9, <1>10, <2>5
    <3> QED
      BY <2>3, <3>1, InConnections
  <2> QED
    BY <2>4, <2>5
<1>14. ASSUME NEW b, b \in Connections PROVE b \in Connections'
  <2>1. PICK t \in Servers : \E i \in DOMAIN sessions[t] : \E d \in DestsOf(sessions[t][i]) :
                  b = <<t, i, d>>
    BY <1>14, InConnections
  <2>2. PICK i \in DOMAIN sessions[t] : \E d \in DestsOf(sessions[t][i]) : b = <<t, i, d>>
    BY <2>1
  <2>3. i \in DOMAIN sessions'[t] /\ sessions'[t][i] = sessions[t][i]
    BY <1>8, <1>9, <1>10
  <2> QED
    BY <1>12, <2>2, <2>3
<1>15. c \in Connections'
  <2>1. n \in DOMAIN sessions'[s] /\ client.peer \in DestsOf(sessions'[s][n])
    BY <1>3, <1>6, <1>8
  <2> QED
    BY <1>12, <2>1
<1>16. Connections' = Connections \cup {c}
  BY <1>13, <1>14, <1>15
<1> QED
  BY <1>11, <1>16

LEMMA ConnectionsKept ==
  ASSUME UNCHANGED sessions
  PROVE  Connections' = Connections
  BY DEF Connections

\* Before the flows are placed, and outside of simulations with short flows only.
LEMMA CountBefore ==
  ASSUME CountFits, phase \notin Ending, phase' \notin Ending, UNCHANGED <<config, endVars>>,
         ~OnlyShortFlows \/ phase' = "failed"
  PROVE  CountFits'
<1>1. told' = {} /\ completed' = completed /\ told = {}
  BY DEF CountFits, endVars
<1>2. OnlyShortFlows' => phase' = "failed"
  BY DEF OnlyShortFlows
<1> QED
  BY <1>1, <1>2 DEF CountFits, Ending

LEMMA CountPrepared ==
  ASSUME CountInv, Prepare
  PROVE  CountFits'
<1>1. /\ PlacementInv /\ CountFits /\ phase = "idle" /\ phase' = "long"
      /\ UNCHANGED <<config, told, completed>> /\ shortLeft' = config.numShort
      /\ sessions' = [s \in Servers |-> <<>>]
  BY DEF CountInv, Prepare, RemoveBuiltInApps, endVars
<1>2. told' = {} /\ completed' = Cardinality(told') /\ IsFiniteSet(told')
  BY <1>1 DEF CountFits, Ending
<1>3. PICK order \in IF config.shuffle THEN Orders ELSE {permServers} :
         longLeft' = LongFlows(order)
  BY DEF Prepare
<1>4. config \in Scenarios /\ permServers \in [Servers -> Servers]
      /\ \A i, j \in Servers : permServers[i] = permServers[j] => i = j
  BY <1>1 DEF PlacementInv, ControlTypes, MatrixFits
<1>5. order \in [Servers -> Servers] /\ \A i, j \in Servers : order[i] = order[j] => i = j
  BY <1>4, OrdersAssumption
<1>6. OnlyShortFlows => longLeft' = {}
  BY <1>3, <1>4, <1>5, LongFlowsFit DEF OnlyShortFlows
<1>7. OnlyShortFlows' = OnlyShortFlows
  BY <1>1 DEF OnlyShortFlows
<1> QED
  BY <1>1, <1>2, <1>6, <1>7 DEF CountFits, Ending

LEMMA CountLong ==
  ASSUME CountInv, PlaceLongFlow
  PROVE  CountFits'
<1>1. CountFits /\ phase = "long" /\ UNCHANGED <<config, endVars>> /\ phase' \in {"long", "failed"}
  BY DEF CountInv, PlaceLongFlow, Fail
<1>2. longLeft # {}
  BY DEF PlaceLongFlow
<1>3. ~OnlyShortFlows
  BY <1>1, <1>2 DEF CountFits
<1> QED
  BY <1>1, <1>3, CountBefore DEF Ending

LEMMA CountShort ==
  ASSUME CountInv, PlaceShortFlow
  PROVE  CountFits'
<1>1. /\ PlacementInv /\ CountFits /\ phase = "short" /\ shortLeft > 0
      /\ UNCHANGED <<config, told, completed>>
  BY DEF CountInv, PlaceShortFlow, endVars
<1>2. PICK f \in NewFlows :
         \/ /\ ConnectFlow(f.src, f.dest, "short", NextSinkPort(f.dest))
            /\ shortLeft' = shortLeft - 1
            /\ UNCHANGED <<phase, longLeft, groupVars>>
         \/ f.src = f.dest /\ Fail
  BY DEF PlaceShortFlow
<1>3. CASE Fail
  BY <1>1, <1>3, CountBefore DEF Fail, Ending, endVars
<1>4. CASE /\ ConnectFlow(f.src, f.dest, "short", NextSinkPort(f.dest))
           /\ shortLeft' = shortLeft - 1
           /\ UNCHANGED <<phase, longLeft, groupVars>>
  <2>1. ServersFit /\ shortLeft \in Nat /\ config \in Scenarios
        /\ permServers \in [Servers -> Servers]
        /\ \A i, j \in Servers : permServers[i] = permServers[j] => i = j
    BY <1>1 DEF PlacementInv, ControlTypes, MatrixFits
  <2>2. f.src \in Servers /\ f.dest \in Servers
    BY <2>1, NewFlowsFit
  <2> DEFINE client == SessionApp("short", f.dest, NextSinkPort(f.dest), gates[f.src],
                                  Len(sinks[f.dest]) + 1)
  <2>3. client \in FlowApps
    <3>1. gates[f.src] \in Nat /\ Len(sinks[f.dest]) \in Nat
      BY <2>1, <2>2, LenProperties DEF ServersFit
    <3> QED
      BY <2>2, <3>1 DEF SessionApp, FlowApps, Classes, NextSinkPort
  <2>4. sessions' = [sessions EXCEPT ![f.src] = Append(@, client)]
    BY <1>4 DEF ConnectFlow, AddSession
  <2> HIDE DEF client
  <2>5. PICK c : c \notin Connections /\ Connections' = Connections \cup {c}
    BY <2>1, <2>2, <2>3, <2>4, ConnectionAdded
  <2>6. OnlyShortFlows => /\ IsFiniteSet(Connections)
                          /\ Cardinality(Connections) + shortLeft = config.numShort
    BY <1>1 DEF CountFits
  <2>7. OnlyShortFlows => /\ IsFiniteSet(Connections')
                          /\ Cardinality(Connections') + shortLeft' = config.numShort
    <3> SUFFICES ASSUME OnlyShortFlows
                 PROVE  /\ IsFiniteSet(Connections')
                        /\ Cardinality(Connections') + shortLeft' = config.numShort
      OBVIOUS
    <3>1. /\ IsFiniteSet(Connections \cup {c})
          /\ Cardinality(Connections \cup {c}) = Cardinality(Connections) + 1
      BY <2>5, <2>6, FS_AddElement
    <3>2. Cardinality(Connections) \in Nat
      BY <2>6, FS_CardinalityType
    <3>3. IsFiniteSet(Connections') /\ Cardinality(Connections') = Cardinality(Connections) + 1
      BY <2>5, <3>1
    <3> QED
      BY <1>4, <2>1, <2>6, <3>2, <3>3
  <2>8. phase' = "short" /\ OnlyShortFlows' = OnlyShortFlows
    BY <1>1, <1>4 DEF OnlyShortFlows
  <2> QED
    BY <1>1, <2>7, <2>8 DEF CountFits, Ending
<1> QED
  BY <1>2, <1>3, <1>4

\* The phases follow each other; those of the groups do not occur with short flows only.
LEMMA CountPhase ==
  ASSUME CountInv, NEW next, EnterPhase(next),
         \/ phase = "long" /\ longLeft = {} /\ next = "short"
         \/ phase = "short" /\ shortLeft = 0 /\ next = "running"
         \/ phase = "connect" /\ next = "running"
         \/ phase = "stopping" /\ next = "stopped"
         \/ /\ phase \in {"long", "short", "select"} /\ next \in {"select", "connect"}
            /\ config.mode # "none" \/ phase = "select"
  PROVE  CountFits'
<1>1. /\ CountFits /\ phase' = next
      /\ UNCHANGED <<config, longLeft, shortLeft, sessions, told, completed>>
  BY DEF CountInv, EnterPhase, appVars, endVars
<1>2. Connections' = Connections /\ OnlyShortFlows' = OnlyShortFlows
  BY <1>1, ConnectionsKept DEF OnlyShortFlows
<1>3. CASE phase = "long" /\ longLeft = {} /\ next = "short"
  <2>1. OnlyShortFlows => Connections = {}
    <3> SUFFICES ASSUME OnlyShortFlows, NEW c \in Connections PROVE FALSE
      OBVIOUS
    <3>1. PICK s \in Servers : DOMAIN sessions[s] # {}
      BY InConnections
    <3>2. sessions[s] = <<>>
      BY <1>1, <1>3 DEF CountFits
    <3> QED
      BY <3>1, <3>2
  <2>2. OnlyShortFlows => /\ IsFiniteSet(Connections)
                          /\ Cardinality(Connections) + shortLeft = config.numShort
    <3>1. OnlyShortFlows => shortLeft = config.numShort /\ config.numShort \in Nat
      <4>1. config \in Scenarios
        BY DEF CountInv, PlacementInv, ControlTypes
      <4> QED
        BY <1>1, <1>3, <4>1, ConfigType DEF CountFits
    <3> QED
      BY <2>1, <3>1, FS_EmptySet
  <2> QED
    BY <1>1, <1>2, <1>3, <2>2 DEF CountFits, Ending
<1>4. CASE phase = "short" /\ shortLeft = 0 /\ next = "running"
  BY <1>1, <1>2, <1>4 DEF CountFits, Ending
<1>5. CASE phase = "connect" /\ next = "running"
  BY <1>1, <1>2, <1>5 DEF CountFits, Ending
<1>6. CASE phase = "stopping" /\ next = "stopped"
  BY <1>1, <1>2, <1>6 DEF CountFits, Ending
<1>7. CASE /\ phase \in {"long", "short", "select"} /\ next \in {"select", "connect"}
           /\ config.mode # "none" \/ phase = "select"
  <2>1. ~OnlyShortFlows
    BY <1>1, <1>7 DEF CountFits, OnlyShortFlows
  <2> QED
    BY <1>1, <1>7, <2>1, CountBefore DEF Ending, endVars
<1> QED
  BY <1>3, <1>4, <1>5, <1>6, <1>7

LEMMA CountGroups ==
  ASSUME CountInv, phase \in {"select", "connect"}, UNCHANGED <<config, phase, endVars>>
  PROVE  CountFits'
<1>1. CountFits
  BY DEF CountInv
<1>2. ~OnlyShortFlows
  BY <1>1 DEF CountFits
<1> QED
  BY <1>1, <1>2, CountBefore DEF Ending

\* When as many flows have ended as there are, none is left to end.
LEMMA CountEnds ==
  ASSUME CountInv, FlowEnds
  PROVE  CountFits'
<1>1. /\ CountFits /\ phase \in {"running", "stopping"} /\ completed' = completed + 1
      /\ UNCHANGED <<config, longLeft, shortLeft, sessions>>
  BY DEF CountInv, FlowEnds, appVars
<1>2. PICK c \in Connections \ told :
         /\ told' = told \cup {c}
         /\ phase' = IF CountReached(completed + 1) THEN "stopping" ELSE phase
  BY DEF FlowEnds
<1>3. /\ IsFiniteSet(told) /\ completed = Cardinality(told) /\ told \subseteq Connections
  BY <1>1 DEF CountFits, Ending
<1>4. IsFiniteSet(told') /\ completed' = Cardinality(told')
  BY <1>1, <1>2, <1>3, FS_AddElement
<1>5. Connections' = Connections /\ OnlyShortFlows' = OnlyShortFlows
  BY <1>1, ConnectionsKept DEF OnlyShortFlows
<1>6. told' \subseteq Connections'
  BY <1>2, <1>3, <1>5
<1>7. phase' \in {"running", "stopping"}
  BY <1>1, <1>2
<1>8. ASSUME OnlyShortFlows, phase' = "stopping" PROVE completed' = config.numShort
  <2>1. CASE phase = "stopping"
    <3>1. /\ IsFiniteSet(Connections) /\ Cardinality(Connections) + shortLeft = config.numShort
          /\ shortLeft = 0 /\ completed = config.numShort
      BY <1>1, <1>8, <2>1 DEF CountFits, Ending
    <3>2. Cardinality(Connections) \in Nat
      BY <3>1, FS_CardinalityType
    <3>3. Cardinality(Connections) = Cardinality(told)
      BY <1>3, <3>1, <3>2
    <3>4. told = Connections
      BY <1>3, <3>1, <3>3, FS_Subset
    <3> QED
      BY <1>2, <3>4
  <2>2. CASE phase = "running"
    BY <1>1, <1>2, <1>8, <2>2 DEF CountReached
  <2> QED
    BY <1>1, <2>1, <2>2
<1> QED
  BY <1>1, <1>4, <1>5, <1>6, <1>7, <1>8 DEF CountFits, Ending

LEMMA CountInit == Init => CountInv
<1> SUFFICES ASSUME Init PROVE CountInv
  OBVIOUS
<1>1. phase = "idle" /\ told = {} /\ completed = 0
  BY DEF Init
<1>2. CountFits
  BY <1>1, FS_EmptySet DEF CountFits, Ending
<1> QED
  BY <1>2, PlacementInit DEF CountInv

LEMMA CountStep == CountInv /\ [Next]_vars => CountInv'
<1> SUFFICES ASSUME CountInv, [Next]_vars PROVE CountInv'
  OBVIOUS
<1>0. PlacementInv'
  BY PlacementStep DEF CountInv
<1> SUFFICES CountFits'
  BY <1>0 DEF CountInv
<1>1. CASE Prepare
  BY <1>1, CountPrepared
<1>2. CASE PlaceLongFlow
  BY <1>2, CountLong
<1>3. CASE PlaceShortFlow
  BY <1>3, CountShort
<1>4. CASE RQEndLongFlows
  BY <1>4, CountPhase DEF RQEndLongFlows
<1>5. CASE RQEndShortFlows
  <2>1. CASE config.mode = "none"
    BY <1>5, <2>1, CountPhase DEF RQEndShortFlows
  <2>2. CASE config.mode # "none"
    BY <1>5, <2>2, CountPhase DEF RQEndShortFlows
  <2> QED
    BY <2>1, <2>2
<1>6. CASE SelectGroup
  BY <1>6, CountGroups DEF SelectGroup
<1>7. CASE EndSelection
  BY <1>7, CountPhase DEF EndSelection
<1>8. CASE ConnectMulticastGroup
  BY <1>8, CountGroups DEF ConnectMulticastGroup
<1>9. CASE ConnectMultiSourcingGroup
  BY <1>9, CountGroups DEF ConnectMultiSourcingGroup
<1>10. CASE EndConnections
  BY <1>10, CountPhase DEF EndConnections
<1>11. CASE FlowEnds
  BY <1>11, CountEnds
<1>12. CASE Stop
  BY <1>12, CountPhase DEF Stop
<1>13. CASE TCPEndLongFlows
  <2>1. CASE config.mode = "none"
    BY <1>13, <2>1, CountPhase DEF TCPEndLongFlows
  <2>2. CASE config.mode # "none"
    BY <1>13, <2>2, CountPhase DEF TCPEndLongFlows
  <2> QED
    BY <2>1, <2>2
<1>14. CASE TCPEndShortFlows
  BY <1>14, CountPhase DEF TCPEndShortFlows
<1>15. CASE SelectReplicas
  BY <1>15, CountGroups DEF SelectReplicas
<1>16. CASE ConnectUnicastReplica
  BY <1>16, CountGroups DEF ConnectUnicastReplica
<1>17. CASE ConnectSourceReplica
  BY <1>17, CountGroups DEF ConnectSourceReplica
<1>18. CASE TCPEndConnections
  BY <1>18, CountPhase DEF TCPEndConnections
<1>19. CASE UNCHANGED vars
  <2>1. /\ UNCHANGED <<config, phase, longLeft, shortLeft, sessions, told, completed>>
        /\ CountFits
    BY <1>19 DEF CountInv, vars, appVars, endVars
  <2>2. Connections' = Connections /\ OnlyShortFlows' = OnlyShortFlows
    BY <2>1, ConnectionsKept DEF OnlyShortFlows
  <2> QED
    BY <2>1, <2>2 DEF CountFits
<1> QED
  BY <1>1, <1>2, <1>3, <1>4, <1>5, <1>6, <1>7, <1>8, <1>9, <1>10, <1>11, <1>12, <1>13, <1>14,
     <1>15, <1>16, <1>17, <1>18, <1>19
  DEF Next, RQNext, TCPNext, RQPrepare, RQPlaceLongFlow, RQPlaceShortFlow, TCPPrepare,
      TCPPlaceLongFlow, TCPPlaceShortFlow

LEMMA CountStops == CountInv => StopsWhenShortFlowsDone
<1> SUFFICES ASSUME CountInv, OnlyShortFlows, phase = "stopped"
             PROVE  told = Connections /\ Cardinality(told) = config.numShort
  BY DEF StopsWhenShortFlowsDone
<1>1. /\ IsFiniteSet(Connections) /\ Cardinality(Connections) + shortLeft = config.numShort
      /\ shortLeft = 0 /\ completed = config.numShort
      /\ told \subseteq Connections /\ completed = Cardinality(told)
  BY DEF CountInv, CountFits, Ending
<1>2. Cardinality(Connections) \in Nat
  BY <1>1, FS_CardinalityType
<1>3. Cardinality(Connections) = Cardinality(told)
  BY <1>1, <1>2
<1>4. told = Connections
  BY <1>1, <1>3, FS_Subset
<1> QED
  BY <1>1, <1>4

\* A simulation with short flows only stops when all of them have ended, each of them once.
THEOREM StopsHold == Spec => []StopsWhenShortFlowsDone
  BY CountInit, CountStep, CountStops, PTL DEF Spec

=============================================================================
