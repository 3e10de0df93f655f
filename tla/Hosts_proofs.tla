----------------------------- MODULE Hosts_proofs -----------------------------
(***************************************************************************)
(* Proofs about Hosts: for every set of hosts, scenarios and port range,   *)
(* the tables of each host agree with its connections, no two connections  *)
(* share an ephemeral port, and a server keeps its listener.               *)
(*                                                                         *)
(* The table operations are taken one by one: each keeps the tables in     *)
(* agreement provided the caller has checked what it must.  That callers   *)
(* do rests on the order in which FindConnForSegment searches, on ids that *)
(* are new, and on this: nobody has been told of a connection that waits   *)
(* for its peer, so nobody closes it, and it has no ephemeral port.        *)
(***************************************************************************)
EXTENDS Hosts, FiniteSetTheorems, WellFoundedInduction, SequenceTheorems, TLAPS

\* A connection, with an id below next.
Fields == {"gate", "connId", "pair", "fsm", "timers", "done", "st"}

IsConnection(conn, next) ==
    /\ DOMAIN conn = Fields
    /\ conn.gate \in Nat
    /\ conn.connId \in 1 .. next - 1
    /\ conn.fsm \in States
    /\ conn.timers \subseteq Timers
    /\ conn.fsm = "CLOSED" => conn.timers = {}
    /\ conn.pair.remoteAddr \in Host \cup {NoHost}

\* The states in which a connection waits for its peer.
Waiting == {"LISTEN", "SYN_RCVD"}

\* A connection without a peer is a listener: nothing has happened to it.  Listeners, and
\* what they fork, have no ephemeral port.
ListensOnly(conn) ==
    /\ conn.pair.remoteAddr = NoHost => conn.fsm = "LISTEN" /\ conn.timers = {}
    /\ conn.fsm \in Waiting => conn.pair.localPort \notin Ephemeral

IsTables(T) ==
    /\ T = [conns |-> T.conns, apps |-> T.apps, pairs |-> T.pairs, ports |-> T.ports,
            lastPort |-> T.lastPort]
    /\ DOMAIN T.conns \subseteq Pointer
    /\ IsFiniteSet(DOMAIN T.conns)
    /\ DOMAIN T.ports = Ephemeral
    /\ T.lastPort \in Ephemeral

\* rqAppConnMap, rqConnMap and usedEphemeralPorts.
AppsAgree(T) ==
    /\ \A p \in DOMAIN T.conns :
          LET key == <<T.conns[p].gate, T.conns[p].connId>>
          IN  key \in DOMAIN T.apps /\ T.apps[key] = p
    /\ \A key \in DOMAIN T.apps :
          /\ T.apps[key] \in DOMAIN T.conns
          /\ key = <<T.conns[T.apps[key]].gate, T.conns[T.apps[key]].connId>>

PairsAgree(T) ==
    /\ \A p \in DOMAIN T.conns :
          T.conns[p].pair \in DOMAIN T.pairs /\ T.pairs[T.conns[p].pair] = p
    /\ \A pair \in DOMAIN T.pairs :
          T.pairs[pair] \in DOMAIN T.conns /\ T.conns[T.pairs[pair]].pair = pair

Users(T, port) == {p \in DOMAIN T.conns : T.conns[p].pair.localPort = port}

PortsAgree(T) == \A port \in Ephemeral : T.ports[port] = Cardinality(Users(T, port))

IdsApart(T) == \A p, q \in DOMAIN T.conns : T.conns[p].connId = T.conns[q].connId => p = q

TablesOK(T, next) ==
    /\ IsTables(T)
    /\ AppsAgree(T)
    /\ PairsAgree(T)
    /\ PortsAgree(T)
    /\ IdsApart(T)
    /\ \A port \in Ephemeral : T.ports[port] <= 1
    /\ \A p \in DOMAIN T.conns : IsConnection(T.conns[p], next) /\ ListensOnly(T.conns[p])

\* An indication for an application, of a connection with an id below next.
Kinds == {"ESTABLISHED", "PEER_CLOSED", "CLOSED", "CONNECTION_RESET", "TIMED_OUT"}

Indications(next) == [gate : Nat, connId : 1 .. next - 1, kind : Kinds]

\* Nobody has been told about a connection that waits for its peer.
Untold(T, queue) ==
    \A i \in 1 .. Len(queue), p \in DOMAIN T.conns :
        T.conns[p].fsm \in Waiting => queue[i].connId # T.conns[p].connId

\* A host with its tables, the indications on their way, and whether it is up.
HostOK(T, queue, isUp, next) ==
    /\ TablesOK(T, next)
    /\ queue \in Seq(Indications(next))
    /\ Untold(T, queue)
    /\ ~isUp => T = Empty

\* An application's listener: the connection under the id of its socket.
Listens(T, gate, connId, port) ==
    /\ <<gate, connId>> \in DOMAIN T.apps
    /\ T.conns[T.apps[<<gate, connId>>]].pair = Listening(NoHost, port)

HasListener(a) == Listens(tables[a[1]], a[2], sockets[a].connId, world.apps[a].port)

HostsInv ==
    /\ world \in Scenarios
    /\ nextId \in Nat \ {0}
    /\ tables = [h \in Host |-> tables[h]]
    /\ up \in [Host -> BOOLEAN]
    /\ toApp = [h \in Host |-> toApp[h]]
    /\ DOMAIN sockets = DOMAIN world.apps
    /\ \A h \in Host : HostOK(tables[h], toApp[h], up[h], nextId)
    /\ \A s \in wire : s.src \in Host /\ s.dst \in Host
    /\ \A a \in DOMAIN world.apps : Listener(a) /\ up[a[1]] => HasListener(a)

----------------------------------------------------------------------------
(* The operations on the tables. *)

\* The tables, field by field.
IsTuple(T, conns, apps, pairs, ports, lastPort) ==
    T = [conns |-> conns, apps |-> apps, pairs |-> pairs, ports |-> ports, lastPort |-> lastPort]

LEMMA PutGives ==
  ASSUME NEW f, NEW k, NEW v
  PROVE  /\ DOMAIN Put(f, k, v) = DOMAIN f \cup {k}
         /\ Put(f, k, v)[k] = v
         /\ \A x \in DOMAIN f \ {k} : Put(f, k, v)[x] = f[x]
  BY DEF Put

LEMMA DropGives ==
  ASSUME NEW f, NEW k
  PROVE  /\ DOMAIN Drop(f, k) = DOMAIN f \ {k}
         /\ \A x \in DOMAIN f \ {k} : Drop(f, k)[x] = f[x]
  BY DEF Drop

\* The tables with other connections.
WithConns(T, conns) == [T EXCEPT !.conns = conns]

\* What a connection p becomes, when its gate, id and pair stay.
LEMMA ChangedTables ==
  ASSUME NEW T, NEW next \in Nat, TablesOK(T, next), NEW p \in DOMAIN T.conns, NEW conn,
         conn.gate = T.conns[p].gate, conn.connId = T.conns[p].connId,
         conn.pair = T.conns[p].pair,
         IsConnection(conn, next), ListensOnly(conn),
         NEW conns, DOMAIN conns = DOMAIN T.conns, conns[p] = conn,
         \A q \in DOMAIN T.conns \ {p} : conns[q] = T.conns[q]
  PROVE  LET U == WithConns(T, conns)
         IN  TablesOK(U, next) /\ U.conns = conns /\ U.apps = T.apps
<1> DEFINE U == WithConns(T, conns)
<1>1. /\ IsTables(T) /\ AppsAgree(T) /\ PairsAgree(T) /\ PortsAgree(T) /\ IdsApart(T)
      /\ \A port \in Ephemeral : T.ports[port] <= 1
      /\ \A q \in DOMAIN T.conns : IsConnection(T.conns[q], next) /\ ListensOnly(T.conns[q])
  BY DEF TablesOK
<1>2. /\ IsTuple(U, conns, T.apps, T.pairs, T.ports, T.lastPort)
      /\ U.conns = conns /\ U.apps = T.apps /\ U.pairs = T.pairs /\ U.ports = T.ports
      /\ U.lastPort = T.lastPort
  BY <1>1 DEF IsTables, IsTuple, WithConns
<1> HIDE DEF U
<1>3. IsTables(U)
  BY <1>1, <1>2 DEF IsTables, IsTuple
<1>4. \A q \in DOMAIN T.conns : /\ conns[q].gate = T.conns[q].gate
                                /\ conns[q].connId = T.conns[q].connId
                                /\ conns[q].pair = T.conns[q].pair
  OBVIOUS
<1>5. AppsAgree(U) /\ PairsAgree(U) /\ IdsApart(U)
  <2>1. AppsAgree(U)
    BY <1>1, <1>2, <1>4 DEF AppsAgree
  <2>2. PairsAgree(U)
    BY <1>1, <1>2, <1>4 DEF PairsAgree
  <2>3. IdsApart(U)
    BY <1>1, <1>2, <1>4 DEF IdsApart
  <2> QED
    BY <2>1, <2>2, <2>3
<1>6. PortsAgree(U)
  <2>1. \A port \in Ephemeral : Users(U, port) = Users(T, port)
    BY <1>2, <1>4 DEF Users
  <2> QED
    BY <1>1, <1>2, <2>1 DEF PortsAgree
<1>7. \A q \in DOMAIN U.conns : IsConnection(U.conns[q], next) /\ ListensOnly(U.conns[q])
  BY <1>1, <1>2
<1> QED
  BY <1>1, <1>2, <1>3, <1>5, <1>6, <1>7 DEF TablesOK, U

LEMMA UsersFinite ==
  ASSUME NEW T, IsTables(T), NEW port
  PROVE  IsFiniteSet(Users(T, port)) /\ Cardinality(Users(T, port)) \in Nat
<1>1. Users(T, port) \in SUBSET DOMAIN T.conns /\ IsFiniteSet(DOMAIN T.conns)
  BY DEF Users, IsTables
<1> QED
  BY <1>1, FS_Subset, FS_CardinalityType

LEMMA RemovedTables ==
  ASSUME NEW T, NEW next \in Nat, TablesOK(T, next), NEW p \in DOMAIN T.conns
  PROVE  LET U == RemoveConnection(T, p)
         IN  /\ TablesOK(U, next)
             /\ DOMAIN U.conns = DOMAIN T.conns \ {p}
             /\ \A q \in DOMAIN T.conns \ {p} : U.conns[q] = T.conns[q]
             /\ \A key \in DOMAIN T.apps : T.apps[key] # p =>
                    key \in DOMAIN U.apps /\ U.apps[key] = T.apps[key]
<1> DEFINE conn == T.conns[p]
           key == <<conn.gate, conn.connId>>
           conns == Drop(T.conns, p)
           apps == Drop(T.apps, key)
           pairs == Drop(T.pairs, conn.pair)
           ports == [port \in Ephemeral |->
                      IF port = conn.pair.localPort /\ T.ports[port] > 0
                      THEN T.ports[port] - 1 ELSE T.ports[port]]
           U == RemoveConnection(T, p)
<1>1. /\ IsTables(T) /\ AppsAgree(T) /\ PairsAgree(T) /\ PortsAgree(T) /\ IdsApart(T)
      /\ \A port \in Ephemeral : T.ports[port] <= 1
      /\ \A q \in DOMAIN T.conns : IsConnection(T.conns[q], next) /\ ListensOnly(T.conns[q])
  BY DEF TablesOK
<1>2. IsTuple(U, conns, apps, pairs, ports, T.lastPort)
  <2>1. U = [T EXCEPT !.conns = conns, !.apps = apps, !.pairs = pairs, !.ports = ports]
    BY DEF RemoveConnection
  <2> HIDE DEF conns, apps, pairs, ports, U
  <2> QED
    BY <1>1, <2>1 DEF IsTables, IsTuple
<1>3. /\ DOMAIN conns = DOMAIN T.conns \ {p}
      /\ \A q \in DOMAIN T.conns \ {p} : conns[q] = T.conns[q]
      /\ DOMAIN apps = DOMAIN T.apps \ {key}
      /\ \A x \in DOMAIN T.apps \ {key} : apps[x] = T.apps[x]
      /\ DOMAIN pairs = DOMAIN T.pairs \ {conn.pair}
      /\ \A x \in DOMAIN T.pairs \ {conn.pair} : pairs[x] = T.pairs[x]
      /\ DOMAIN ports = Ephemeral
  BY DropGives
<1>4. \A port \in Ephemeral : ports[port] =
          IF port = conn.pair.localPort /\ T.ports[port] > 0
          THEN T.ports[port] - 1 ELSE T.ports[port]
  OBVIOUS
<1> HIDE DEF U, conns, apps, pairs, ports
<1>5. U.conns = conns /\ U.apps = apps /\ U.pairs = pairs /\ U.ports = ports
      /\ U.lastPort = T.lastPort
  BY <1>2 DEF IsTuple
<1>6. IsTables(U)
  <2>1. IsFiniteSet(DOMAIN conns)
    BY <1>1, <1>3, FS_RemoveElement DEF IsTables
  <2> QED
    BY <1>1, <1>2, <1>3, <1>5, <2>1 DEF IsTables, IsTuple
<1>7. AppsAgree(U)
  <2>1. ASSUME NEW q \in DOMAIN conns
        PROVE  LET k == <<conns[q].gate, conns[q].connId>>
               IN  k \in DOMAIN apps /\ apps[k] = q
    <3> DEFINE k == <<T.conns[q].gate, T.conns[q].connId>>
    <3>1. q \in DOMAIN T.conns /\ q # p /\ conns[q] = T.conns[q]
      BY <1>3
    <3>2. k \in DOMAIN T.apps /\ T.apps[k] = q /\ T.apps[key] = p
      BY <1>1, <3>1 DEF AppsAgree
    <3> QED
      BY <1>3, <3>1, <3>2
  <2>2. ASSUME NEW k \in DOMAIN apps
        PROVE  /\ apps[k] \in DOMAIN conns
               /\ k = <<conns[apps[k]].gate, conns[apps[k]].connId>>
    <3>1. k \in DOMAIN T.apps /\ k # key /\ apps[k] = T.apps[k]
      BY <1>3
    <3>2. /\ T.apps[k] \in DOMAIN T.conns
          /\ k = <<T.conns[T.apps[k]].gate, T.conns[T.apps[k]].connId>>
      BY <1>1, <3>1 DEF AppsAgree
    <3>3. T.apps[k] # p
      BY <3>1, <3>2
    <3> QED
      BY <1>3, <3>1, <3>2, <3>3
  <2> QED
    BY <1>5, <2>1, <2>2 DEF AppsAgree
<1>8. PairsAgree(U)
  BY <1>1, <1>3, <1>5 DEF PairsAgree
<1>9. IdsApart(U)
  BY <1>1, <1>3, <1>5 DEF IdsApart
<1>10. ASSUME NEW port \in Ephemeral
       PROVE  U.ports[port] = Cardinality(Users(U, port)) /\ U.ports[port] <= 1
  <2>1. Users(U, port) = Users(T, port) \ {p}
    BY <1>3, <1>5 DEF Users
  <2>2. IsFiniteSet(Users(T, port)) /\ Cardinality(Users(T, port)) \in Nat
    BY <1>1, UsersFinite
  <2>3. T.ports[port] = Cardinality(Users(T, port)) /\ T.ports[port] <= 1
    BY <1>1 DEF PortsAgree
  <2>4. CASE port = conn.pair.localPort
    <3>1. p \in Users(T, port)
      BY <2>4 DEF Users
    <3>2. Cardinality(Users(T, port) \ {p}) = Cardinality(Users(T, port)) - 1
      BY <2>2, <3>1, FS_RemoveElement
    <3>3. Cardinality(Users(T, port) \ {p}) \in Nat
      BY <2>2, FS_RemoveElement, FS_CardinalityType
    <3>4. T.ports[port] > 0
      BY <2>2, <2>3, <3>2, <3>3
    <3> QED
      BY <1>4, <1>5, <2>1, <2>2, <2>3, <2>4, <3>2, <3>4
  <2>5. CASE port # conn.pair.localPort
    <3>1. Users(T, port) \ {p} = Users(T, port)
      BY <2>5 DEF Users
    <3> QED
      BY <1>4, <1>5, <2>1, <2>3, <2>5, <3>1
  <2> QED
    BY <2>4, <2>5
<1>11. \A q \in DOMAIN U.conns : IsConnection(U.conns[q], next) /\ ListensOnly(U.conns[q])
  BY <1>1, <1>3, <1>5
<1>12. TablesOK(U, next)
  BY <1>6, <1>7, <1>8, <1>9, <1>10, <1>11 DEF TablesOK, PortsAgree
<1>13. ASSUME NEW k \in DOMAIN T.apps, T.apps[k] # p
       PROVE  k \in DOMAIN U.apps /\ U.apps[k] = T.apps[k]
  <2>1. T.apps[key] = p
    BY <1>1 DEF AppsAgree
  <2> QED
    BY <1>3, <1>5, <1>13, <2>1
<1> QED
  BY <1>3, <1>5, <1>12, <1>13 DEF U

\* updateSockPair, of a connection that keeps its port.
LEMMA UpdatedTables ==
  ASSUME NEW T, NEW next \in Nat, TablesOK(T, next), NEW p \in DOMAIN T.conns, NEW pair,
         pair = T.conns[p].pair \/ pair \notin DOMAIN T.pairs,
         pair.localPort = T.conns[p].pair.localPort,
         pair.remoteAddr \in Host
  PROVE  LET U == UpdateSockPair(T, p, pair)
         IN  /\ TablesOK(U, next)
             /\ DOMAIN U.conns = DOMAIN T.conns
             /\ U.conns[p] = [T.conns[p] EXCEPT !.pair = pair]
             /\ \A q \in DOMAIN T.conns \ {p} : U.conns[q] = T.conns[q]
             /\ U.apps = T.apps
<1> DEFINE conn == T.conns[p]
           new == [conn EXCEPT !.pair = pair]
           conns == Put(T.conns, p, new)
           pairs == Put(Drop(T.pairs, conn.pair), pair, p)
           U == UpdateSockPair(T, p, pair)
<1>1. /\ IsTables(T) /\ AppsAgree(T) /\ PairsAgree(T) /\ PortsAgree(T) /\ IdsApart(T)
      /\ \A port \in Ephemeral : T.ports[port] <= 1
      /\ \A q \in DOMAIN T.conns : IsConnection(T.conns[q], next) /\ ListensOnly(T.conns[q])
  BY DEF TablesOK
<1>2. IsTuple(U, conns, T.apps, pairs, T.ports, T.lastPort)
  <2>1. U = [T EXCEPT !.conns = conns, !.pairs = pairs]
    BY <1>1 DEF UpdateSockPair, IsTables
  <2> HIDE DEF conns, pairs, U
  <2> QED
    BY <1>1, <2>1 DEF IsTables, IsTuple
<1>3. /\ DOMAIN conns = DOMAIN T.conns
      /\ conns[p] = new
      /\ \A q \in DOMAIN T.conns \ {p} : conns[q] = T.conns[q]
      /\ DOMAIN pairs = (DOMAIN T.pairs \ {conn.pair}) \cup {pair}
      /\ pairs[pair] = p
      /\ \A x \in (DOMAIN T.pairs \ {conn.pair}) \ {pair} : pairs[x] = T.pairs[x]
  <2> DEFINE D == Drop(T.pairs, conn.pair)
  <2>1. /\ DOMAIN D = DOMAIN T.pairs \ {conn.pair}
        /\ \A x \in DOMAIN T.pairs \ {conn.pair} : D[x] = T.pairs[x]
    BY DropGives
  <2>2. /\ DOMAIN conns = DOMAIN T.conns \cup {p}
        /\ conns[p] = new
        /\ \A q \in DOMAIN T.conns \ {p} : conns[q] = T.conns[q]
    <3> HIDE DEF new
    <3> QED
      BY DEF Put
  <2>3. /\ DOMAIN pairs = DOMAIN D \cup {pair}
        /\ pairs[pair] = p
        /\ \A x \in DOMAIN D \ {pair} : pairs[x] = D[x]
    <3>1. pairs = Put(D, pair, p)
      OBVIOUS
    <3> HIDE DEF D, pairs
    <3> QED
      BY <3>1 DEF Put
  <2> QED
    BY <2>1, <2>2, <2>3
<1>4. /\ IsConnection(new, next) /\ ListensOnly(new)
      /\ new.gate = conn.gate /\ new.connId = conn.connId /\ new.fsm = conn.fsm
      /\ new.pair = pair
  <2>1. IsConnection(conn, next) /\ ListensOnly(conn) /\ NoHost \notin Host
    BY <1>1, AddressAssumption
  <2>2. /\ DOMAIN new = Fields /\ new.pair = pair
        /\ \A f \in Fields \ {"pair"} : new[f] = conn[f]
    BY <2>1 DEF IsConnection, Fields
  <2>3. /\ new.gate = conn.gate /\ new.connId = conn.connId /\ new.fsm = conn.fsm
        /\ new.timers = conn.timers
    BY <2>2 DEF Fields
  <2> HIDE DEF new
  <2> QED
    BY <2>1, <2>2, <2>3 DEF IsConnection, ListensOnly
<1> HIDE DEF U, conns, pairs, new
<1>5. U.conns = conns /\ U.apps = T.apps /\ U.pairs = pairs /\ U.ports = T.ports
      /\ U.lastPort = T.lastPort
  BY <1>2 DEF IsTuple
<1>6. IsTables(U)
  BY <1>1, <1>2, <1>3, <1>5 DEF IsTables, IsTuple
<1>7. \A q \in DOMAIN conns : /\ conns[q].gate = T.conns[q].gate
                              /\ conns[q].connId = T.conns[q].connId
                              /\ conns[q].pair.localPort = T.conns[q].pair.localPort
  BY <1>3, <1>4
<1>8. AppsAgree(U)
  BY <1>1, <1>3, <1>5, <1>7 DEF AppsAgree
<1>9. PairsAgree(U)
  <2>1. ASSUME NEW q \in DOMAIN conns
        PROVE  conns[q].pair \in DOMAIN pairs /\ pairs[conns[q].pair] = q
    <3>1. CASE q = p
      BY <1>3, <1>4, <3>1
    <3>2. CASE q # p
      <4>1. /\ conns[q] = T.conns[q]
            /\ T.conns[q].pair \in DOMAIN T.pairs /\ T.pairs[T.conns[q].pair] = q
            /\ T.pairs[conn.pair] = p
        BY <1>1, <1>3, <3>2 DEF PairsAgree
      <4>2. T.conns[q].pair # conn.pair
        BY <3>2, <4>1
      <4> QED
        BY <1>3, <4>1, <4>2
    <3> QED
      BY <3>1, <3>2
  <2>2. ASSUME NEW x \in DOMAIN pairs
        PROVE  pairs[x] \in DOMAIN conns /\ conns[pairs[x]].pair = x
    <3>1. CASE x = pair
      BY <1>3, <1>4, <3>1
    <3>2. CASE x # pair
      <4>1. /\ x \in DOMAIN T.pairs /\ x # conn.pair /\ pairs[x] = T.pairs[x]
            /\ T.pairs[x] \in DOMAIN T.conns /\ T.conns[T.pairs[x]].pair = x
        BY <1>1, <1>3, <3>2 DEF PairsAgree
      <4> QED
        BY <1>3, <4>1
    <3> QED
      BY <3>1, <3>2
  <2> QED
    BY <1>5, <2>1, <2>2 DEF PairsAgree
<1>10. IdsApart(U)
  BY <1>1, <1>3, <1>5, <1>7 DEF IdsApart
<1>11. PortsAgree(U)
  <2>1. \A port \in Ephemeral : Users(U, port) = Users(T, port)
    BY <1>3, <1>5, <1>7 DEF Users
  <2> QED
    BY <1>1, <1>5, <2>1 DEF PortsAgree
<1>12. \A q \in DOMAIN U.conns : IsConnection(U.conns[q], next) /\ ListensOnly(U.conns[q])
  BY <1>1, <1>3, <1>4, <1>5
<1>13. TablesOK(U, next)
  BY <1>1, <1>5, <1>6, <1>8, <1>9, <1>10, <1>11, <1>12 DEF TablesOK
<1> QED
  BY <1>3, <1>5, <1>13 DEF U, new

\* A connection gets a pair.
WithPair(conn, pair) == [conn EXCEPT !.pair = pair]

\* createConnection and addSockPair, with an id, a pair and a port that are not in use.
LEMMA AddedTables ==
  ASSUME NEW T, NEW next \in Nat, TablesOK(T, next),
         NEW p \in Pointer \ DOMAIN T.conns, NEW conn, NEW pair,
         DOMAIN conn = Fields,
         IsConnection(WithPair(conn, pair), next),
         ListensOnly(WithPair(conn, pair)),
         \A q \in DOMAIN T.conns : T.conns[q].connId # conn.connId,
         pair \notin DOMAIN T.pairs,
         pair.localPort \in Ephemeral => T.ports[pair.localPort] = 0
  PROVE  LET U == AddSockPair(CreateConnection(T, p, conn), p, pair)
         IN  /\ TablesOK(U, next)
             /\ DOMAIN U.conns = DOMAIN T.conns \cup {p}
             /\ U.conns[p] = WithPair(conn, pair)
             /\ \A q \in DOMAIN T.conns : U.conns[q] = T.conns[q]
             /\ U.apps = Put(T.apps, <<conn.gate, conn.connId>>, p)
<1> DEFINE key == <<conn.gate, conn.connId>>
           new == [conn EXCEPT !.pair = pair]
           created == Put(T.conns, p, conn)
           conns == Put(created, p, new)
           apps == Put(T.apps, key, p)
           pairs == Put(T.pairs, pair, p)
           ports == [port \in Ephemeral |->
                        T.ports[port] + (IF port = pair.localPort THEN 1 ELSE 0)]
           U == AddSockPair(CreateConnection(T, p, conn), p, pair)
<1>1. /\ IsTables(T) /\ AppsAgree(T) /\ PairsAgree(T) /\ PortsAgree(T) /\ IdsApart(T)
      /\ \A port \in Ephemeral : T.ports[port] <= 1
      /\ \A q \in DOMAIN T.conns : IsConnection(T.conns[q], next) /\ ListensOnly(T.conns[q])
  BY DEF TablesOK
<1>2. IsTuple(U, conns, apps, pairs, ports, T.lastPort)
  <2> DEFINE V == [T EXCEPT !.conns = created, !.apps = apps]
  <2>1. V = CreateConnection(T, p, conn)
    BY DEF CreateConnection
  <2>2. IsTuple(V, created, apps, T.pairs, T.ports, T.lastPort)
    <3>1. V = [T EXCEPT !.conns = created, !.apps = apps]
      OBVIOUS
    <3> HIDE DEF created, apps, V
    <3> QED
      BY <1>1, <3>1 DEF IsTables, IsTuple
  <2> HIDE DEF V
  <2>3. /\ V.conns = created /\ V.pairs = T.pairs /\ V.ports = T.ports
    BY <2>2 DEF IsTuple
  <2>4. created[p] = conn
    BY DEF Put
  <2>5. U = [V EXCEPT !.conns = conns, !.pairs = pairs, !.ports = ports]
    BY <2>1, <2>3, <2>4 DEF AddSockPair
  <2> HIDE DEF conns, pairs, ports, apps, created, U
  <2> QED
    BY <2>2, <2>5 DEF IsTuple
<1>3. /\ DOMAIN conns = DOMAIN T.conns \cup {p}
      /\ conns[p] = new
      /\ \A q \in DOMAIN T.conns : conns[q] = T.conns[q]
      /\ DOMAIN apps = DOMAIN T.apps \cup {key}
      /\ apps[key] = p
      /\ \A x \in DOMAIN T.apps \ {key} : apps[x] = T.apps[x]
      /\ DOMAIN pairs = DOMAIN T.pairs \cup {pair}
      /\ pairs[pair] = p
      /\ \A x \in DOMAIN T.pairs : pairs[x] = T.pairs[x]
      /\ DOMAIN ports = Ephemeral
  <2>1. /\ DOMAIN created = DOMAIN T.conns \cup {p}
        /\ \A q \in DOMAIN T.conns : created[q] = T.conns[q]
    BY DEF Put
  <2>2. /\ DOMAIN conns = DOMAIN created \cup {p}
        /\ conns[p] = new
        /\ \A q \in DOMAIN created \ {p} : conns[q] = created[q]
    <3>1. conns = Put(created, p, new)
      OBVIOUS
    <3> HIDE DEF created, new, conns
    <3> QED
      BY <3>1 DEF Put
  <2>3. /\ DOMAIN apps = DOMAIN T.apps \cup {key}
        /\ apps[key] = p
        /\ \A x \in DOMAIN T.apps \ {key} : apps[x] = T.apps[x]
    <3> HIDE DEF key
    <3> QED
      BY DEF Put
  <2>4. /\ DOMAIN pairs = DOMAIN T.pairs \cup {pair}
        /\ pairs[pair] = p
        /\ \A x \in DOMAIN T.pairs : pairs[x] = T.pairs[x]
    BY DEF Put
  <2>5. DOMAIN ports = Ephemeral
    OBVIOUS
  <2> HIDE DEF created, conns, apps, pairs, ports, key, new
  <2> QED
    BY <2>1, <2>2, <2>3, <2>4, <2>5
<1>4. \A port \in Ephemeral :
         ports[port] = T.ports[port] + (IF port = pair.localPort THEN 1 ELSE 0)
  OBVIOUS
<1>5. new.gate = conn.gate /\ new.connId = conn.connId /\ new.pair = pair
  BY DEF Fields
<1>6. IsConnection(new, next) /\ ListensOnly(new)
  BY DEF WithPair
<1> HIDE DEF U, created, conns, apps, pairs, ports, new
<1>7. U.conns = conns /\ U.apps = apps /\ U.pairs = pairs /\ U.ports = ports
      /\ U.lastPort = T.lastPort
  BY <1>2 DEF IsTuple
<1>8. IsTables(U)
  <2>1. IsFiniteSet(DOMAIN conns)
    BY <1>1, <1>3, FS_AddElement DEF IsTables
  <2> QED
    BY <1>1, <1>2, <1>3, <1>7, <2>1 DEF IsTables, IsTuple
<1>9. AppsAgree(U)
  <2>1. ASSUME NEW q \in DOMAIN conns
        PROVE  LET k == <<conns[q].gate, conns[q].connId>>
               IN  k \in DOMAIN apps /\ apps[k] = q
    <3>1. CASE q = p
      BY <1>3, <1>5, <3>1
    <3>2. CASE q # p
      <4> DEFINE k == <<T.conns[q].gate, T.conns[q].connId>>
      <4>1. q \in DOMAIN T.conns /\ conns[q] = T.conns[q] /\ k # key
        BY <1>3, <3>2
      <4>2. k \in DOMAIN T.apps /\ T.apps[k] = q
        BY <1>1, <4>1 DEF AppsAgree
      <4> HIDE DEF key
      <4> QED
        BY <1>3, <4>1, <4>2
    <3> QED
      BY <3>1, <3>2
  <2>2. ASSUME NEW k \in DOMAIN apps
        PROVE  /\ apps[k] \in DOMAIN conns
               /\ k = <<conns[apps[k]].gate, conns[apps[k]].connId>>
    <3>1. CASE k = key
      BY <1>3, <1>5, <3>1
    <3>2. CASE k # key
      <4>1. k \in DOMAIN T.apps /\ apps[k] = T.apps[k]
        BY <1>3, <3>2
      <4>2. /\ T.apps[k] \in DOMAIN T.conns
            /\ k = <<T.conns[T.apps[k]].gate, T.conns[T.apps[k]].connId>>
        BY <1>1, <4>1 DEF AppsAgree
      <4> QED
        BY <1>3, <4>1, <4>2
    <3> QED
      BY <3>1, <3>2
  <2> QED
    BY <1>7, <2>1, <2>2 DEF AppsAgree
<1>10. PairsAgree(U)
  <2>1. ASSUME NEW q \in DOMAIN conns
        PROVE  conns[q].pair \in DOMAIN pairs /\ pairs[conns[q].pair] = q
    BY <1>1, <1>3, <1>5 DEF PairsAgree
  <2>2. ASSUME NEW x \in DOMAIN pairs
        PROVE  pairs[x] \in DOMAIN conns /\ conns[pairs[x]].pair = x
    BY <1>1, <1>3, <1>5 DEF PairsAgree
  <2> QED
    BY <1>7, <2>1, <2>2 DEF PairsAgree
<1>11. IdsApart(U)
  BY <1>1, <1>3, <1>5, <1>7 DEF IdsApart
<1>12. ASSUME NEW port \in Ephemeral
       PROVE  U.ports[port] = Cardinality(Users(U, port)) /\ U.ports[port] <= 1
  <2>1. IsFiniteSet(Users(T, port)) /\ Cardinality(Users(T, port)) \in Nat
    BY <1>1, UsersFinite
  <2>2. T.ports[port] = Cardinality(Users(T, port)) /\ T.ports[port] <= 1
    BY <1>1 DEF PortsAgree
  <2>3. CASE port = pair.localPort
    <3>1. Users(U, port) = Users(T, port) \cup {p} /\ p \notin Users(T, port)
      BY <1>3, <1>5, <1>7, <2>3 DEF Users
    <3>2. Cardinality(Users(T, port) \cup {p}) = Cardinality(Users(T, port)) + 1
      BY <2>1, <3>1, FS_AddElement
    <3>3. T.ports[port] = 0
      BY <2>3
    <3> QED
      BY <1>4, <1>7, <2>2, <2>3, <3>1, <3>2, <3>3
  <2>4. CASE port # pair.localPort
    <3>1. Users(U, port) = Users(T, port)
      BY <1>3, <1>5, <1>7, <2>4 DEF Users
    <3> QED
      BY <1>4, <1>7, <2>1, <2>2, <2>4, <3>1
  <2> QED
    BY <2>3, <2>4
<1>13. \A q \in DOMAIN U.conns : IsConnection(U.conns[q], next) /\ ListensOnly(U.conns[q])
  BY <1>1, <1>3, <1>6, <1>7
<1>14. TablesOK(U, next)
  BY <1>8, <1>9, <1>10, <1>11, <1>12, <1>13 DEF TablesOK, PortsAgree
<1> QED
  BY <1>3, <1>7, <1>14 DEF U, new, apps, WithPair

\* A bound on the ids may be raised.
LEMMA LaterTables ==
  ASSUME NEW T, NEW next \in Nat, TablesOK(T, next), NEW later \in Nat, next <= later
  PROVE  TablesOK(T, later)
<1>1. \A conn : IsConnection(conn, next) => IsConnection(conn, later)
  BY DEF IsConnection
<1> QED
  BY <1>1 DEF TablesOK

\* A connection gets the next id.
RenamedTables(T, p, id) ==
    [T EXCEPT !.conns = Put(@, p, [@[p] EXCEPT !.connId = id]),
              !.apps = Put(Drop(@, <<T.conns[p].gate, T.conns[p].connId>>),
                           <<T.conns[p].gate, id>>, p)]

LEMMA RenamedOK ==
  ASSUME NEW T, NEW next \in Nat \ {0}, TablesOK(T, next), NEW p \in DOMAIN T.conns
  PROVE  LET U == RenamedTables(T, p, next)
             old == <<T.conns[p].gate, T.conns[p].connId>>
             key == <<T.conns[p].gate, next>>
         IN  /\ TablesOK(U, next + 1)
             /\ IsTuple(U, U.conns, U.apps, T.pairs, T.ports, T.lastPort)
             /\ U.conns = Put(T.conns, p, [T.conns[p] EXCEPT !.connId = next])
             /\ U.apps = Put(Drop(T.apps, old), key, p)
             /\ key \notin DOMAIN T.apps
<1> DEFINE conn == T.conns[p]
           old == <<conn.gate, conn.connId>>
           key == <<conn.gate, next>>
           new == [conn EXCEPT !.connId = next]
           conns == Put(T.conns, p, new)
           dropped == Drop(T.apps, old)
           apps == Put(dropped, key, p)
           U == RenamedTables(T, p, next)
<1>1. /\ IsTables(T) /\ AppsAgree(T) /\ PairsAgree(T) /\ PortsAgree(T) /\ IdsApart(T)
      /\ \A port \in Ephemeral : T.ports[port] <= 1
      /\ \A q \in DOMAIN T.conns : IsConnection(T.conns[q], next) /\ ListensOnly(T.conns[q])
  BY DEF TablesOK
<1>2. IsTuple(U, conns, apps, T.pairs, T.ports, T.lastPort)
  <2>1. U = [T EXCEPT !.conns = conns, !.apps = apps]
    BY <1>1 DEF RenamedTables, IsTables
  <2> HIDE DEF conns, apps, U
  <2> QED
    BY <1>1, <2>1 DEF IsTables, IsTuple
<1>3. /\ DOMAIN conns = DOMAIN T.conns
      /\ conns[p] = new
      /\ \A q \in DOMAIN T.conns \ {p} : conns[q] = T.conns[q]
      /\ DOMAIN apps = (DOMAIN T.apps \ {old}) \cup {key}
      /\ apps[key] = p
      /\ \A x \in (DOMAIN T.apps \ {old}) \ {key} : apps[x] = T.apps[x]
  <2>1. /\ DOMAIN dropped = DOMAIN T.apps \ {old}
        /\ \A x \in DOMAIN T.apps \ {old} : dropped[x] = T.apps[x]
    <3> HIDE DEF old
    <3> QED
      BY DEF Drop
  <2>2. /\ DOMAIN conns = DOMAIN T.conns \cup {p}
        /\ conns[p] = new
        /\ \A q \in DOMAIN T.conns \ {p} : conns[q] = T.conns[q]
    BY DEF Put
  <2>3. /\ DOMAIN apps = DOMAIN dropped \cup {key}
        /\ apps[key] = p
        /\ \A x \in DOMAIN dropped \ {key} : apps[x] = dropped[x]
    <3>1. apps = Put(dropped, key, p)
      OBVIOUS
    <3> HIDE DEF dropped, key, apps
    <3> QED
      BY <3>1 DEF Put
  <2> HIDE DEF dropped, key, apps, conns, old
  <2> QED
    BY <2>1, <2>2, <2>3
<1>4. /\ IsConnection(new, next + 1) /\ ListensOnly(new)
      /\ new.gate = conn.gate /\ new.connId = next /\ new.pair = conn.pair
  <2>1. IsConnection(conn, next) /\ ListensOnly(conn)
    BY <1>1
  <2>2. /\ DOMAIN new = Fields /\ new.connId = next
        /\ \A f \in Fields \ {"connId"} : new[f] = conn[f]
    BY <2>1 DEF IsConnection, Fields
  <2>3. /\ new.gate = conn.gate /\ new.pair = conn.pair /\ new.fsm = conn.fsm
        /\ new.timers = conn.timers
    BY <2>2 DEF Fields
  <2> HIDE DEF new
  <2> QED
    BY <2>1, <2>2, <2>3 DEF IsConnection, ListensOnly
<1>5. \A q \in DOMAIN T.conns : T.conns[q].connId < next /\ T.conns[q].connId \in Nat
  BY <1>1 DEF IsConnection
<1>6. key \notin DOMAIN T.apps
  BY <1>1, <1>5 DEF AppsAgree
<1> HIDE DEF U, conns, apps, new, dropped
<1>7. U.conns = conns /\ U.apps = apps /\ U.pairs = T.pairs /\ U.ports = T.ports
      /\ U.lastPort = T.lastPort
  BY <1>2 DEF IsTuple
<1>8. IsTables(U)
  BY <1>1, <1>2, <1>3, <1>7 DEF IsTables, IsTuple
<1>9. AppsAgree(U)
  <2>1. ASSUME NEW q \in DOMAIN conns
        PROVE  LET k == <<conns[q].gate, conns[q].connId>>
               IN  k \in DOMAIN apps /\ apps[k] = q
    <3>1. CASE q = p
      BY <1>3, <1>4, <3>1
    <3>2. CASE q # p
      <4> DEFINE k == <<T.conns[q].gate, T.conns[q].connId>>
      <4>1. conns[q] = T.conns[q] /\ q \in DOMAIN T.conns
        BY <1>3, <3>2
      <4>2. k # old /\ k # key
        BY <1>1, <1>5, <3>2, <4>1 DEF IdsApart
      <4>3. k \in DOMAIN T.apps /\ T.apps[k] = q
        BY <1>1, <4>1 DEF AppsAgree
      <4> HIDE DEF key, old
      <4> QED
        BY <1>3, <4>1, <4>2, <4>3
    <3> QED
      BY <3>1, <3>2
  <2>2. ASSUME NEW k \in DOMAIN apps
        PROVE  /\ apps[k] \in DOMAIN conns
               /\ k = <<conns[apps[k]].gate, conns[apps[k]].connId>>
    <3>1. CASE k = key
      BY <1>3, <1>4, <3>1
    <3>2. CASE k # key
      <4>1. k \in DOMAIN T.apps /\ k # old /\ apps[k] = T.apps[k]
        BY <1>3, <3>2
      <4>2. /\ T.apps[k] \in DOMAIN T.conns
            /\ k = <<T.conns[T.apps[k]].gate, T.conns[T.apps[k]].connId>>
        BY <1>1, <4>1 DEF AppsAgree
      <4>3. T.apps[k] # p
        BY <4>1, <4>2
      <4> QED
        BY <1>3, <4>1, <4>2, <4>3
    <3> QED
      BY <3>1, <3>2
  <2> QED
    BY <1>7, <2>1, <2>2 DEF AppsAgree
<1>10. \A q \in DOMAIN T.conns : conns[q].pair = T.conns[q].pair
  BY <1>3, <1>4
<1>11. PairsAgree(U)
  BY <1>1, <1>3, <1>7, <1>10 DEF PairsAgree
<1>12. IdsApart(U)
  BY <1>1, <1>3, <1>4, <1>5, <1>7 DEF IdsApart
<1>13. PortsAgree(U)
  <2>1. \A port \in Ephemeral : Users(U, port) = Users(T, port)
    BY <1>3, <1>7, <1>10 DEF Users
  <2> QED
    BY <1>1, <1>7, <2>1 DEF PortsAgree
<1>14. \A q \in DOMAIN U.conns : IsConnection(U.conns[q], next + 1) /\ ListensOnly(U.conns[q])
  <2>1. \A q \in DOMAIN T.conns : IsConnection(T.conns[q], next + 1)
    BY <1>1 DEF IsConnection
  <2> QED
    BY <1>1, <1>3, <1>4, <1>7, <2>1
<1>15. TablesOK(U, next + 1)
  BY <1>1, <1>7, <1>8, <1>9, <1>11, <1>12, <1>13, <1>14 DEF TablesOK
<1>16. IsTuple(U, U.conns, U.apps, T.pairs, T.ports, T.lastPort)
  BY <1>2, <1>7
<1> QED
  BY <1>6, <1>7, <1>15, <1>16 DEF U, new, conns, apps, dropped

LEMMA PutsCommute ==
  ASSUME NEW f, NEW k, NEW v, NEW l, NEW w, k # l
  PROVE  Put(Put(f, k, v), l, w) = Put(Put(f, l, w), k, v)
<1>1. DOMAIN f \cup {k} \cup {l} = DOMAIN f \cup {l} \cup {k}
  OBVIOUS
<1> QED
  BY <1>1 DEF Put

LEMMA PutOverDrop ==
  ASSUME NEW f, NEW k, NEW v
  PROVE  Put(Drop(f, k), k, v) = Put(f, k, v)
<1>1. DOMAIN Drop(f, k) \cup {k} = DOMAIN f \cup {k}
  BY DEF Drop
<1>2. \A x \in DOMAIN f \cup {k} : x # k => Drop(f, k)[x] = f[x]
  BY DEF Drop
<1>3. \A x \in DOMAIN f \cup {k} :
         (IF x = k THEN v ELSE Drop(f, k)[x]) = (IF x = k THEN v ELSE f[x])
  BY <1>2
<1> QED
  BY <1>1, <1>3 DEF Put

\* What the connection that listened becomes.
SpunOff(conn, pair, id) == [[conn EXCEPT !.pair = pair] EXCEPT !.connId = id]

\* addForkedConnection: the new connection q takes over the id, p goes on under the next.
IsFork(T, U, p, pair, next, q, newConn) ==
    LET conn == T.conns[p]
        old == <<conn.gate, conn.connId>>
    IN  /\ TablesOK(U, next + 1)
        /\ DOMAIN U.conns = DOMAIN T.conns \cup {q}
        /\ U.conns[p] = SpunOff(conn, pair, next)
        /\ U.conns[q] = WithPair(newConn, newConn.pair)
        /\ \A r \in DOMAIN T.conns \ {p} : U.conns[r] = T.conns[r]
        /\ old \in DOMAIN U.apps
        /\ U.apps[old] = q
        /\ \A key \in DOMAIN T.apps \ {old} : key \in DOMAIN U.apps /\ U.apps[key] = T.apps[key]

LEMMA ForkedTables ==
  ASSUME NEW T, NEW next \in Nat \ {0}, TablesOK(T, next), NEW p \in DOMAIN T.conns, NEW pair,
         pair = T.conns[p].pair \/ pair \notin DOMAIN T.pairs,
         pair.localPort = T.conns[p].pair.localPort,
         pair.remoteAddr \in Host,
         NEW q \in Pointer \ DOMAIN T.conns, NEW newConn,
         DOMAIN newConn = Fields,
         newConn.gate = T.conns[p].gate, newConn.connId = T.conns[p].connId,
         IsConnection(newConn, next), ListensOnly(newConn),
         newConn.pair \notin DOMAIN UpdateSockPair(T, p, pair).pairs,
         newConn.pair.localPort \notin Ephemeral
  PROVE  IsFork(T, AddForkedConnection(T, p, pair, next, q, newConn), p, pair, next, q, newConn)
<1> DEFINE conn == T.conns[p]
           old == <<conn.gate, conn.connId>>
           key == <<conn.gate, next>>
           M == UpdateSockPair(T, p, pair)
           R == RenamedTables(M, p, next)
           W == AddSockPair(CreateConnection(R, q, newConn), q, newConn.pair)
           U == AddForkedConnection(T, p, pair, next, q, newConn)
           listener == WithPair(newConn, newConn.pair)
           moved == [conn EXCEPT !.pair = pair]
           spunOff == [moved EXCEPT !.connId = next]
<1>1. /\ TablesOK(M, next) /\ DOMAIN M.conns = DOMAIN T.conns /\ M.conns[p] = moved
      /\ \A r \in DOMAIN T.conns \ {p} : M.conns[r] = T.conns[r]
      /\ M.apps = T.apps
  BY UpdatedTables
<1>2. /\ IsConnection(conn, next) /\ IdsApart(T) /\ AppsAgree(T)
  BY DEF TablesOK
<1>3. DOMAIN moved = Fields /\ moved.gate = conn.gate /\ moved.connId = conn.connId
  BY <1>2 DEF IsConnection, Fields
<1> HIDE DEF moved, M
<1>4. /\ TablesOK(R, next + 1)
      /\ IsTuple(R, R.conns, R.apps, M.pairs, M.ports, M.lastPort)
      /\ R.conns = Put(M.conns, p, spunOff)
      /\ R.apps = Put(Drop(T.apps, old), key, p)
      /\ key \notin DOMAIN T.apps
  <2>1. /\ TablesOK(R, next + 1)
        /\ IsTuple(R, R.conns, R.apps, M.pairs, M.ports, M.lastPort)
        /\ R.conns = Put(M.conns, p, [M.conns[p] EXCEPT !.connId = next])
        /\ R.apps = Put(Drop(M.apps, <<M.conns[p].gate, M.conns[p].connId>>),
                        <<M.conns[p].gate, next>>, p)
        /\ <<M.conns[p].gate, next>> \notin DOMAIN M.apps
    <3> HIDE DEF R
    <3> QED
      BY <1>1, RenamedOK DEF R
  <2> HIDE DEF R
  <2> QED
    BY <1>1, <1>3, <2>1
<1>5. /\ DOMAIN spunOff = Fields /\ spunOff.connId = next
  BY <1>3 DEF Fields
<1> HIDE DEF R, spunOff
<1>6. /\ DOMAIN R.conns = DOMAIN T.conns /\ R.conns[p] = spunOff
      /\ \A r \in DOMAIN T.conns \ {p} : R.conns[r] = T.conns[r]
  <2>1. /\ DOMAIN R.conns = DOMAIN M.conns \cup {p} /\ R.conns[p] = spunOff
        /\ \A r \in DOMAIN M.conns \ {p} : R.conns[r] = M.conns[r]
    BY <1>4 DEF Put
  <2> QED
    BY <1>1, <2>1
<1>7. /\ TablesOK(W, next + 1)
      /\ DOMAIN W.conns = DOMAIN R.conns \cup {q}
      /\ W.conns[q] = listener
      /\ \A r \in DOMAIN R.conns : W.conns[r] = R.conns[r]
      /\ W.apps = Put(R.apps, <<newConn.gate, newConn.connId>>, q)
  <2>1. q \in Pointer \ DOMAIN R.conns
    BY <1>6
  <2>2. /\ DOMAIN listener = Fields
        /\ \A f \in Fields : listener[f] = newConn[f]
    BY DEF Fields, WithPair
  <2>3. /\ listener.gate = newConn.gate /\ listener.connId = newConn.connId
        /\ listener.pair = newConn.pair /\ listener.fsm = newConn.fsm
        /\ listener.timers = newConn.timers
    BY <2>2 DEF Fields
  <2>4. IsConnection(listener, next + 1) /\ ListensOnly(listener)
    <3> HIDE DEF listener
    <3> QED
      BY <2>2, <2>3 DEF IsConnection, ListensOnly
  <2>5. \A r \in DOMAIN R.conns : R.conns[r].connId # newConn.connId
    <3>1. newConn.connId # next
      BY DEF IsConnection
    <3> QED
      BY <1>2, <1>5, <1>6, <3>1 DEF IdsApart
  <2>6. newConn.pair \notin DOMAIN R.pairs
    BY <1>4 DEF IsTuple, M
  <2>7. next + 1 \in Nat
    OBVIOUS
  <2>8. newConn.pair.localPort \in Ephemeral => R.ports[newConn.pair.localPort] = 0
    OBVIOUS
  <2>9. TablesOK(R, next + 1)
    BY <1>4
  <2> QED
    BY <2>1, <2>4, <2>5, <2>6, <2>7, <2>8, <2>9, AddedTables
<1>8. U = W
  <2> DEFINE created == CreateConnection(M, q, newConn)
             c1 == Put(M.conns, q, newConn)
             a1 == Put(M.apps, old, q)
             c2 == Put(c1, q, listener)
             pairs == Put(M.pairs, newConn.pair, q)
             ports == [port \in Ephemeral |->
                         M.ports[port] + (IF port = newConn.pair.localPort THEN 1 ELSE 0)]
             V == AddSockPair(created, q, newConn.pair)
             d1 == Put(R.conns, q, newConn)
             d2 == Put(d1, q, listener)
  <2>0. IsTuple(M, M.conns, M.apps, M.pairs, M.ports, M.lastPort)
    BY <1>1 DEF TablesOK, IsTables, IsTuple
  <2>1. IsTuple(created, c1, a1, M.pairs, M.ports, M.lastPort)
    <3>1. created = [M EXCEPT !.conns = c1, !.apps = a1]
      BY <2>0 DEF CreateConnection, IsTuple
    <3> HIDE DEF created, c1, a1
    <3> QED
      BY <2>0, <3>1 DEF IsTuple
  <2>2. IsTuple(V, c2, a1, pairs, ports, M.lastPort)
    <3>1. created.conns = c1 /\ created.pairs = M.pairs /\ created.ports = M.ports
      <4> HIDE DEF created
      <4> QED
        BY <2>1 DEF IsTuple
    <3>2. c1[q] = newConn
      BY DEF Put
    <3> HIDE DEF created, c1
    <3>3. V = [created EXCEPT !.conns = c2, !.pairs = pairs, !.ports = ports]
      BY <3>1, <3>2 DEF AddSockPair, WithPair
    <3> HIDE DEF c2, a1, pairs, ports, V
    <3> QED
      BY <2>1, <3>3 DEF IsTuple
  <2>3. V.conns = c2 /\ V.apps = a1 /\ V.pairs = pairs /\ V.ports = ports
        /\ V.lastPort = M.lastPort
    <3> HIDE DEF V, c2, a1, pairs, ports
    <3> QED
      BY <2>2 DEF IsTuple
  <2>4. c2[p] = moved
    <3>1. c1[p] = M.conns[p] /\ p \in DOMAIN c1
      BY <1>1 DEF Put
    <3>2. c2[p] = c1[p]
      <4> HIDE DEF c1, listener
      <4> QED
        BY <3>1 DEF Put
    <3> QED
      BY <1>1, <3>1, <3>2
  <2>5. U = [V EXCEPT !.conns = Put(c2, p, spunOff), !.apps = Put(a1, key, p)]
    <3>1. U = [V EXCEPT !.conns = Put(V.conns, p, [V.conns[p] EXCEPT !.connId = next]),
                        !.apps = Put(V.apps, key, p)]
      BY DEF AddForkedConnection, M
    <3> HIDE DEF V, c2, a1, U
    <3> QED
      BY <2>3, <2>4, <3>1 DEF spunOff
  <2>6. IsTuple(U, Put(c2, p, spunOff), Put(a1, key, p), pairs, ports, M.lastPort)
    <3> DEFINE c3 == Put(c2, p, spunOff)
               a3 == Put(a1, key, p)
    <3>1. U = [V EXCEPT !.conns = c3, !.apps = a3]
      BY <2>5
    <3> HIDE DEF V, U, c2, a1, c3, a3, pairs, ports
    <3>2. IsTuple(U, c3, a3, pairs, ports, M.lastPort)
      BY <2>2, <3>1 DEF IsTuple
    <3> QED
      BY <3>2 DEF c3, a3
  <2>7. IsTuple(W, d2, Put(R.apps, old, q), pairs, ports, M.lastPort)
    <3> DEFINE b == Put(R.apps, old, q)
               made == CreateConnection(R, q, newConn)
    <3>1. R.pairs = M.pairs /\ R.ports = M.ports /\ R.lastPort = M.lastPort
      BY <1>4 DEF IsTuple
    <3>2. made = [R EXCEPT !.conns = d1, !.apps = b]
      BY DEF CreateConnection
    <3>3. IsTuple(made, d1, b, M.pairs, M.ports, M.lastPort)
      <4>1. IsTuple(R, R.conns, R.apps, M.pairs, M.ports, M.lastPort)
        BY <1>4
      <4> HIDE DEF made, d1, b
      <4> DEFINE rc == R.conns
                 ra == R.apps
                 mp == M.pairs
                 mo == M.ports
                 ml == M.lastPort
      <4>2. R = [conns |-> rc, apps |-> ra, pairs |-> mp, ports |-> mo, lastPort |-> ml]
        BY <4>1 DEF IsTuple
      <4>3. made = [conns |-> d1, apps |-> b, pairs |-> mp, ports |-> mo, lastPort |-> ml]
        <5> HIDE DEF rc, ra, mp, mo, ml
        <5>1. made = [[conns |-> rc, apps |-> ra, pairs |-> mp, ports |-> mo, lastPort |-> ml]
                        EXCEPT !.conns = d1, !.apps = b]
          BY <4>2, <3>2
        <5> QED
          BY <5>1
      <4>4. made = [conns |-> d1, apps |-> b, pairs |-> M.pairs, ports |-> M.ports,
                    lastPort |-> M.lastPort]
        BY <4>3
      <4> QED
        BY <4>4 DEF IsTuple
    <3>4. made.conns = d1 /\ made.pairs = M.pairs /\ made.ports = M.ports
      <4> HIDE DEF made, d1, b
      <4> QED
        BY <3>3 DEF IsTuple
    <3>5. d1[q] = newConn
      BY DEF Put
    <3> HIDE DEF made, d1
    <3>6. W = [made EXCEPT !.conns = d2, !.pairs = pairs, !.ports = ports]
      BY <3>4, <3>5 DEF AddSockPair, made, WithPair
    <3> HIDE DEF W, d2, b, pairs, ports
    <3>7. IsTuple(W, d2, b, pairs, ports, M.lastPort)
      BY <3>3, <3>6 DEF IsTuple
    <3> QED
      BY <3>7 DEF b
  <2>8. Put(c2, p, spunOff) = d2
    <3>1. p # q
      OBVIOUS
    <3>2. Put(c2, p, spunOff) = Put(Put(c1, p, spunOff), q, listener)
      <4> HIDE DEF c1, listener
      <4> QED
        BY <3>1, PutsCommute
    <3>3. Put(c1, p, spunOff) = Put(Put(M.conns, p, spunOff), q, newConn)
      BY <3>1, PutsCommute
    <3> QED
      BY <1>4, <3>2, <3>3
  <2>9. Put(a1, key, p) = Put(R.apps, old, q)
    <3>1. old # key
      BY <1>2, <1>4 DEF AppsAgree
    <3> HIDE DEF old, key
    <3>2. Put(R.apps, old, q) = Put(Put(Drop(T.apps, old), old, q), key, p)
      BY <1>4, <3>1, PutsCommute
    <3>3. Put(Drop(T.apps, old), old, q) = Put(T.apps, old, q)
      BY PutOverDrop
    <3> QED
      BY <1>1, <3>2, <3>3
  <2> HIDE DEF U, W, c2, a1, d2, pairs, ports
  <2> QED
    BY <2>6, <2>7, <2>8, <2>9 DEF IsTuple
<1> HIDE DEF U, W, listener
<1>9. /\ old \in DOMAIN U.apps /\ U.apps[old] = q
      /\ \A k \in DOMAIN T.apps \ {old} : k \in DOMAIN U.apps /\ U.apps[k] = T.apps[k]
  <2>1. U.apps = Put(Put(Drop(T.apps, old), key, p), old, q)
    BY <1>4, <1>7, <1>8
  <2> HIDE DEF old, key
  <2> QED
    BY <1>4, <2>1 DEF Put, Drop
<1> QED
  BY <1>6, <1>7, <1>8, <1>9 DEF U, listener, spunOff, moved, SpunOff, IsFork

\* addSockPair of an active open notes the port it has taken.
LEMMA PortNoted ==
  ASSUME NEW T, NEW next \in Nat, TablesOK(T, next), NEW port \in Ephemeral
  PROVE  LET U == [T EXCEPT !.lastPort = port]
         IN  /\ TablesOK(U, next)
             /\ U.conns = T.conns
             /\ U.apps = T.apps
<1> DEFINE U == [T EXCEPT !.lastPort = port]
<1>1. IsTables(T)
  BY DEF TablesOK
<1>2. IsTuple(U, T.conns, T.apps, T.pairs, T.ports, port)
  BY <1>1 DEF IsTables, IsTuple
<1> HIDE DEF U
<1>3. U.conns = T.conns /\ U.apps = T.apps /\ U.pairs = T.pairs /\ U.ports = T.ports
      /\ U.lastPort = port
  BY <1>2 DEF IsTuple
<1>4. IsTables(U)
  BY <1>1, <1>2, <1>3 DEF IsTables, IsTuple
<1>5. AppsAgree(U) /\ PairsAgree(U) /\ PortsAgree(U) /\ IdsApart(U)
  BY <1>3 DEF TablesOK, AppsAgree, PairsAgree, PortsAgree, Users, IdsApart
<1>6. TablesOK(U, next)
  BY <1>3, <1>4, <1>5 DEF TablesOK
<1> QED
  BY <1>3, <1>6 DEF U

\* reset
LEMMA EmptyTables ==
  ASSUME NEW next \in Nat
  PROVE  TablesOK(Empty, next) /\ DOMAIN Empty.conns = {} /\ DOMAIN Empty.pairs = {}
<1> DEFINE zero == [port \in Ephemeral |-> 0]
<1>1. IsTuple(Empty, <<>>, <<>>, <<>>, zero, EPHEMERAL_PORTRANGE_START)
  BY DEF Empty, IsTuple
<1> HIDE DEF zero
<1>2. Empty.conns = <<>> /\ Empty.apps = <<>> /\ Empty.pairs = <<>> /\ Empty.ports = zero
      /\ Empty.lastPort = EPHEMERAL_PORTRANGE_START
  BY <1>1 DEF IsTuple
<1>3. DOMAIN Empty.conns = {} /\ DOMAIN Empty.apps = {} /\ DOMAIN Empty.pairs = {}
  BY <1>2
<1>4. DOMAIN zero = Ephemeral /\ \A port \in Ephemeral : zero[port] = 0
  BY DEF zero
<1>5. IsTables(Empty)
  BY <1>1, <1>2, <1>3, <1>4, FS_EmptySet, PortAssumption DEF IsTables, IsTuple, Ephemeral
<1>6. AppsAgree(Empty) /\ PairsAgree(Empty) /\ IdsApart(Empty)
  BY <1>3 DEF AppsAgree, PairsAgree, IdsApart
<1>7. \A port \in Ephemeral : Users(Empty, port) = {}
  BY <1>3 DEF Users
<1>8. PortsAgree(Empty)
  BY <1>2, <1>4, <1>7, FS_EmptySet DEF PortsAgree
<1> QED
  BY <1>2, <1>3, <1>4, <1>5, <1>6, <1>8 DEF TablesOK

----------------------------------------------------------------------------
(* What is looked up. *)

\* A connection that is found for a segment has its port, and is the caller's own unless
\* the caller is not known; then it is a listener.
LEMMA FoundConn ==
  ASSUME NEW T, NEW next \in Nat, TablesOK(T, next), NEW src \in Host, NEW dest \in Host,
         NEW srcPort, NEW destPort,
         \/ FindConnForSegment(T, src, dest, srcPort, destPort) # NoConn
         \/ Listening(NoHost, destPort) \in DOMAIN T.pairs
         \/ \E addr \in {dest, NoHost} : SockPair(addr, src, destPort, srcPort) \in DOMAIN T.pairs
  PROVE  LET p == FindConnForSegment(T, src, dest, srcPort, destPort)
             pair == SockPair(dest, src, destPort, srcPort)
         IN  /\ p \in DOMAIN T.conns
             /\ T.conns[p].pair.localPort = destPort
             /\ T.conns[p].pair.remoteAddr \in {src, NoHost}
             /\ T.conns[p].pair.remoteAddr = src => T.conns[p].pair.remotePort = srcPort
             /\ T.conns[p].pair = pair \/ pair \notin DOMAIN T.pairs
<1> DEFINE k1 == SockPair(dest, src, destPort, srcPort)
           k2 == SockPair(NoHost, src, destPort, srcPort)
           k3 == Listening(dest, destPort)
           k4 == Listening(NoHost, destPort)
           keys == <<k1, k2, k3, k4>>
           found == {i \in 1 .. 4 : keys[i] \in DOMAIN T.pairs}
           least == CHOOSE i \in found : \A j \in found : i <= j
           p == FindConnForSegment(T, src, dest, srcPort, destPort)
<1>1. /\ k1.localPort = destPort /\ k1.remoteAddr = src /\ k1.remotePort = srcPort
      /\ k2.localPort = destPort /\ k2.remoteAddr = src /\ k2.remotePort = srcPort
      /\ k3.localPort = destPort /\ k3.remoteAddr = NoHost /\ k3.remoteAddr # src
      /\ k4.localPort = destPort /\ k4.remoteAddr = NoHost /\ k4.remoteAddr # src
  BY AddressAssumption DEF SockPair, Listening
<1>2. found # {} /\ p = T.pairs[keys[least]]
  <2>1. found # {} \/ p = NoConn
    BY DEF FindConnForSegment
  <2>2. found # {} => p = T.pairs[keys[least]]
    BY DEF FindConnForSegment
  <2>3. /\ k4 \in DOMAIN T.pairs => 4 \in found
        /\ k1 \in DOMAIN T.pairs => 1 \in found
        /\ k2 \in DOMAIN T.pairs => 2 \in found
    OBVIOUS
  <2> QED
    BY <2>1, <2>2, <2>3
<1> HIDE DEF p, k1, k2, k3, k4
<1>3. keys[1] = k1 /\ keys[2] = k2 /\ keys[3] = k3 /\ keys[4] = k4
  OBVIOUS
<1> HIDE DEF keys
<1>4. \E i \in found : \A j \in found : i <= j
  <2>1. CASE 1 \in found
    BY <2>1
  <2>2. CASE 1 \notin found /\ 2 \in found
    BY <2>2
  <2>3. CASE 1 \notin found /\ 2 \notin found /\ 3 \in found
    BY <2>3
  <2>4. CASE 1 \notin found /\ 2 \notin found /\ 3 \notin found
    BY <1>2, <2>4
  <2> QED
    BY <2>1, <2>2, <2>3, <2>4
<1>5. least \in found /\ \A j \in found : least <= j
  BY <1>4
<1>6. least \in {1, 2, 3, 4} /\ keys[least] \in DOMAIN T.pairs
  BY <1>5
<1>7. keys[least] = k1 \/ k1 \notin DOMAIN T.pairs
  BY <1>3, <1>5, <1>6
<1> HIDE DEF least, found
<1>8. p \in DOMAIN T.conns /\ T.conns[p].pair = keys[least]
  BY <1>2, <1>6 DEF TablesOK, PairsAgree
<1> QED
  BY <1>1, <1>3, <1>6, <1>7, <1>8 DEF p, k1

\* While it listens, every caller the host does not know reaches a listener.
LEMMA ListenerReached ==
  ASSUME NEW T, NEW next \in Nat, TablesOK(T, next), NEW p \in DOMAIN T.conns,
         NEW port, T.conns[p].pair = Listening(NoHost, port),
         NEW src \in Host, NEW dest \in Host, NEW srcPort
  PROVE  LET q == FindConnForSegment(T, src, dest, srcPort, port)
         IN  T.conns[q].pair.remoteAddr # src => T.conns[q].fsm = "LISTEN"
<1> DEFINE q == FindConnForSegment(T, src, dest, srcPort, port)
<1>1. Listening(NoHost, port) \in DOMAIN T.pairs
  BY DEF TablesOK, PairsAgree
<1>2. q \in DOMAIN T.conns /\ T.conns[q].pair.remoteAddr \in {src, NoHost}
  BY <1>1, FoundConn
<1> HIDE DEF q
<1>3. ListensOnly(T.conns[q])
  BY <1>2 DEF TablesOK
<1> QED
  BY <1>2, <1>3 DEF ListensOnly, q

\* Every set of naturals has a least member.
LEMMA LeastNatural ==
  ASSUME NEW S \in SUBSET Nat, S # {}
  PROVE  \E n \in S : \A m \in S : n <= m
<1>1. PICK n \in S : \A m \in S : <<m, n>> \notin OpToRel(<, Nat)
  BY WFMin, NatLessThanWellFounded
<1>2. \A m \in S : ~(m < n)
  BY <1>1 DEF OpToRel
<1> QED
  BY <1>2

\* getEphemeralPort finds a port that is not in use.
LEMMA FreePort ==
  ASSUME NEW T, T.lastPort \in Ephemeral, ~Exhausted(T)
  PROVE  GetEphemeralPort(T) \in Ephemeral /\ T.ports[GetEphemeralPort(T)] = 0
<1> DEFINE size == Cardinality(Ephemeral)
           k == CHOOSE k \in FreePorts(T) : \A l \in FreePorts(T) : k <= l
<1>1. FreePorts(T) \in SUBSET Nat /\ FreePorts(T) # {}
  BY DEF FreePorts, Exhausted
<1>2. k \in FreePorts(T)
  BY <1>1, LeastNatural
<1> HIDE DEF k
<1>3. k \in Nat /\ T.ports[NthPort(T, k)] = 0
  BY <1>1, <1>2 DEF FreePorts
<1>4. size = EPHEMERAL_PORTRANGE_END - EPHEMERAL_PORTRANGE_START /\ size \in Nat \ {0}
  <2> DEFINE first == EPHEMERAL_PORTRANGE_START
             last == EPHEMERAL_PORTRANGE_END - 1
  <2>1. first \in Int /\ last \in Int /\ first <= last
    BY PortAssumption
  <2> HIDE DEF first, last
  <2>2. Cardinality(first .. last) = last - first + 1
    BY <2>1, FS_Interval
  <2> QED
    BY <2>2, PortAssumption DEF Ephemeral, first, last
<1> HIDE DEF size
<1>5. NthPort(T, k) \in Ephemeral
  <2> DEFINE x == T.lastPort - EPHEMERAL_PORTRANGE_START + k
  <2>1. x \in Int
    BY <1>3, PortAssumption DEF Ephemeral
  <2>2. NthPort(T, k) = EPHEMERAL_PORTRANGE_START + (x % size)
    BY DEF NthPort, size
  <2> HIDE DEF x
  <2>3. x % size \in 0 .. size - 1
    BY <1>4, <2>1
  <2> QED
    BY <1>4, <2>2, <2>3, PortAssumption DEF Ephemeral
<1> QED
  BY <1>3, <1>5 DEF GetEphemeralPort, k

\* There is room for another connection while there are ids for one.
LEMMA RoomForConnection ==
  ASSUME NEW w \in Scenarios, NEW T, NEW next \in Nat \ {0}, TablesOK(T, next),
         next <= w.maxId
  PROVE  FreshPointer(T) \in Pointer \ DOMAIN T.conns
<1>1. /\ IsFiniteSet(DOMAIN T.conns) /\ DOMAIN T.conns \subseteq Pointer /\ IdsApart(T)
      /\ \A p \in DOMAIN T.conns : T.conns[p].connId \in 1 .. next - 1
  BY DEF TablesOK, IsTables, IsConnection
<1>2. Pointer \ DOMAIN T.conns # {}
  <2>1. SUFFICES ASSUME Pointer = DOMAIN T.conns PROVE FALSE
    BY <1>1
  <2>2. w.maxId \in Nat /\ w.maxId <= Cardinality(Pointer)
    BY <1>1, <2>1, ScenariosAssumption, PointersAssumption
  <2> DEFINE id == [p \in Pointer |-> T.conns[p].connId]
  <2>3. id \in Injection(Pointer, 1 .. next - 1)
    BY <1>1, <2>1 DEF Injection, IsInjective, IdsApart
  <2>4. /\ IsFiniteSet(1 .. next - 1)
        /\ Cardinality(1 .. next - 1) = IF 1 > next - 1 THEN 0 ELSE next - 1
    <3>1. 1 \in Int /\ next - 1 \in Int
      OBVIOUS
    <3>2. (next - 1) - 1 + 1 = next - 1
      OBVIOUS
    <3> QED
      BY <3>1, <3>2, FS_Interval
  <2>5. Cardinality(Pointer) <= Cardinality(1 .. next - 1)
    BY <2>3, <2>4, FS_Injection
  <2>6. Cardinality(Pointer) \in Nat
    BY <1>1, <2>1, FS_CardinalityType
  <2> QED
    BY <2>2, <2>4, <2>5, <2>6
<1> QED
  BY <1>2 DEF FreshPointer

----------------------------------------------------------------------------
(* The state machine. *)

LEMMA WhereEventsLead ==
  ASSUME NEW state \in States \ {"CLOSED"}, NEW event
  PROVE  LET new == NextState(state, event)
         IN  /\ new \in States
             /\ new \in Waiting => state \in Waiting
  BY DEF NextState, Moves, States, Waiting

LEMMA TimersLeft ==
  ASSUME NEW old, NEW new, NEW armed \in SUBSET Timers
  PROVE  /\ EntryTimers(old, new, armed) \subseteq armed
         /\ new = "CLOSED" /\ (new = old => armed = {}) => EntryTimers(old, new, armed) = {}
  BY DEF EntryTimers

\* Entering LISTEN or SYN_RCVD tells nothing.
LEMMA TellsOnEntry ==
  ASSUME NEW old, NEW new, NEW event
  PROVE  /\ EntryTells(old, new, event) \in Seq(Kinds)
         /\ new \in Waiting => EntryTells(old, new, event) = <<>>
<1>1. EntryTells(old, new, event) \in {<<>>, <<"PEER_CLOSED">>, <<"CLOSED">>}
  BY DEF EntryTells
<1>2. <<>> \in Seq(Kinds) /\ <<"PEER_CLOSED">> \in Seq(Kinds) /\ <<"CLOSED">> \in Seq(Kinds)
  BY DEF Kinds
<1>3. new \in Waiting => EntryTells(old, new, event) = <<>>
  BY DEF EntryTells, Waiting
<1> QED
  BY <1>1, <1>2, <1>3

----------------------------------------------------------------------------
(* What applications are told. *)

LEMMA StillUntold ==
  ASSUME NEW T, NEW U, NEW queue, Untold(T, queue),
         \A q \in DOMAIN U.conns :
            /\ q \in DOMAIN T.conns
            /\ U.conns[q].connId = T.conns[q].connId
            /\ U.conns[q].fsm \in Waiting => T.conns[q].fsm \in Waiting
  PROVE  Untold(U, queue)
  BY DEF Untold

\* The indications on their way once conn has told the kinds of told.
Heard(queue, conn, told) == queue \o [i \in 1 .. Len(told) |-> Indication(conn, told[i])]

\* A connection that is not waiting may tell its application.
LEMMA ToldMore ==
  ASSUME NEW T, NEW next \in Nat, IdsApart(T), NEW queue \in Seq(Indications(next)),
         Untold(T, queue), NEW p \in DOMAIN T.conns, NEW conn,
         conn.gate \in Nat, conn.connId \in 1 .. next - 1, conn.connId = T.conns[p].connId,
         NEW told \in Seq(Kinds),
         told # <<>> => T.conns[p].fsm \notin Waiting
  PROVE  /\ Heard(queue, conn, told) \in Seq(Indications(next))
         /\ Untold(T, Heard(queue, conn, told))
<1> DEFINE more == Heard(queue, conn, told)
           new == [i \in 1 .. Len(told) |-> Indication(conn, told[i])]
<1>1. Len(told) \in Nat /\ \A i \in 1 .. Len(told) : told[i] \in Kinds
  OBVIOUS
<1>2. \A i \in 1 .. Len(told) : /\ Indication(conn, told[i]) \in Indications(next)
                                /\ Indication(conn, told[i]).connId = conn.connId
  BY <1>1 DEF Indication, Indications
<1>3. new \in Seq(Indications(next)) /\ Len(new) = Len(told)
      /\ \A i \in 1 .. Len(told) : new[i].connId = conn.connId
  BY <1>1, <1>2
<1>4. more = queue \o new
  BY DEF Heard
<1> HIDE DEF new, more
<1>5. /\ more \in Seq(Indications(next))
      /\ Len(more) = Len(queue) + Len(new)
      /\ \A i \in 1 .. Len(more) :
            more[i] = IF i <= Len(queue) THEN queue[i] ELSE new[i - Len(queue)]
  <2>1. /\ queue \o new \in Seq(Indications(next))
        /\ Len(queue \o new) = Len(queue) + Len(new)
        /\ \A i \in 1 .. Len(queue \o new) :
              (queue \o new)[i] = IF i <= Len(queue) THEN queue[i] ELSE new[i - Len(queue)]
    BY <1>3, ConcatProperties
  <2> QED
    BY <1>4, <2>1
<1>6. ASSUME NEW i \in 1 .. Len(more), NEW q \in DOMAIN T.conns, T.conns[q].fsm \in Waiting
      PROVE  more[i].connId # T.conns[q].connId
  <2>1. CASE i <= Len(queue)
    <3>1. i \in 1 .. Len(queue) /\ more[i] = queue[i]
      BY <1>5, <2>1
    <3> QED
      BY <1>6, <3>1 DEF Untold
  <2>2. CASE ~(i <= Len(queue))
    <3>1. i - Len(queue) \in 1 .. Len(told) /\ more[i] = new[i - Len(queue)]
      BY <1>1, <1>3, <1>5, <2>2
    <3>2. more[i].connId = T.conns[p].connId /\ told # <<>>
      BY <1>3, <3>1
    <3>3. p # q
      BY <1>6, <3>2
    <3> QED
      BY <3>2, <3>3 DEF IdsApart
  <2> QED
    BY <2>1, <2>2
<1> QED
  BY <1>5, <1>6 DEF Untold, more

----------------------------------------------------------------------------
(* Steps. *)

\* Servers keep the ids of their sockets.
SocketsKept ==
    /\ DOMAIN sockets' = DOMAIN sockets
    /\ \A a \in DOMAIN world.apps : Listener(a) => sockets'[a].connId = sockets[a].connId

LEMMA LaterHost ==
  ASSUME NEW T, NEW queue, NEW isUp, NEW next \in Nat, NEW later \in Nat, next <= later,
         HostOK(T, queue, isUp, next)
  PROVE  HostOK(T, queue, isUp, later)
<1>1. TablesOK(T, later)
  BY LaterTables DEF HostOK
<1>2. Indications(next) \subseteq Indications(later)
  BY DEF Indications
<1>3. queue \in Seq(Indications(later))
  BY <1>2 DEF HostOK
<1> QED
  BY <1>1, <1>3 DEF HostOK

\* A step of one host.
LEMMA OneHost ==
  ASSUME HostsInv, NEW h \in Host, NEW T, NEW queue, NEW isUp \in BOOLEAN,
         world' = world,
         nextId' \in Nat, nextId <= nextId',
         tables' = [tables EXCEPT ![h] = T],
         toApp' = [toApp EXCEPT ![h] = queue],
         up' = [up EXCEPT ![h] = isUp],
         HostOK(T, queue, isUp, nextId'),
         \A s \in wire' : s.src \in Host /\ s.dst \in Host,
         DOMAIN sockets' = DOMAIN sockets,
         \A a \in DOMAIN world.apps : Listener(a) /\ a[1] # h =>
            sockets'[a].connId = sockets[a].connId,
         \A a \in DOMAIN world.apps : Listener(a) /\ a[1] = h /\ isUp =>
            Listens(T, a[2], sockets'[a].connId, world.apps[a].port)
  PROVE  HostsInv'
<1>1. /\ nextId' \in Nat \ {0} /\ DOMAIN sockets' = DOMAIN world.apps
      /\ tables' = [g \in Host |-> tables'[g]] /\ toApp' = [g \in Host |-> toApp'[g]]
      /\ up' \in [Host -> BOOLEAN]
      /\ tables'[h] = T /\ toApp'[h] = queue /\ up'[h] = isUp
      /\ \A g \in Host \ {h} : /\ tables'[g] = tables[g] /\ toApp'[g] = toApp[g]
                               /\ up'[g] = up[g]
  <2>1. DOMAIN tables = Host /\ DOMAIN toApp = Host /\ up \in [Host -> BOOLEAN]
        /\ nextId \in Nat \ {0} /\ DOMAIN sockets = DOMAIN world.apps
    BY DEF HostsInv
  <2>2. /\ tables' = [g \in Host |-> tables'[g]] /\ tables'[h] = T
        /\ \A g \in Host \ {h} : tables'[g] = tables[g]
    BY <2>1
  <2>3. /\ toApp' = [g \in Host |-> toApp'[g]] /\ toApp'[h] = queue
        /\ \A g \in Host \ {h} : toApp'[g] = toApp[g]
    BY <2>1
  <2>4. /\ up' \in [Host -> BOOLEAN] /\ up'[h] = isUp
        /\ \A g \in Host \ {h} : up'[g] = up[g]
    BY <2>1
  <2> QED
    BY <2>1, <2>2, <2>3, <2>4
<1>2. \A g \in Host \ {h} : HostOK(tables[g], toApp[g], up[g], nextId')
  BY LaterHost DEF HostsInv
<1>3. \A g \in Host : HostOK(tables'[g], toApp'[g], up'[g], nextId')
  BY <1>1, <1>2
<1>4. ASSUME NEW a \in DOMAIN world.apps, Listener(a), up'[a[1]]
      PROVE  Listens(tables'[a[1]], a[2], sockets'[a].connId, world.apps[a].port)
  <2>1. a[1] \in Host
    BY ScenariosAssumption DEF HostsInv
  <2>2. CASE a[1] = h
    BY <1>1, <1>4, <2>2
  <2>3. CASE a[1] # h
    <3>1. Listens(tables[a[1]], a[2], sockets[a].connId, world.apps[a].port)
      BY <1>1, <1>4, <2>1, <2>3 DEF HostsInv, HasListener
    <3> QED
      BY <1>1, <1>4, <2>1, <2>3, <3>1
  <2> QED
    BY <2>2, <2>3
<1> QED
  BY <1>1, <1>3, <1>4 DEF HostsInv, HasListener, Listener, AppKind

\* A step that leaves the hosts alone.
LEMMA NoHostMoves ==
  ASSUME HostsInv, SocketsKept,
         UNCHANGED <<world, tables, up, nextId>>, UNCHANGED toApp,
         \A s \in wire' : s.src \in Host /\ s.dst \in Host
  PROVE  HostsInv'
  BY DEF HostsInv, HasListener, Listener, AppKind, SocketsKept

LEMMA FailKeeps ==
  ASSUME HostsInv, SocketsKept, NEW reason, NEW h, Fail(reason, h)
  PROVE  HostsInv'
  BY NoHostMoves DEF Fail, HostsInv

\* What a connection sends goes from its host to its peer.
LEMMA SentGoes ==
  ASSUME NEW h \in Host, NEW pair, pair.remoteAddr \in Host, NEW kind,
         NEW s \in Sent(h, pair, kind)
  PROVE  s.src \in Host /\ s.dst \in Host
<1> DEFINE t == Segment(kind, h, pair.remoteAddr, pair.localPort, pair.remotePort)
<1>1. /\ t.src = h /\ t.dst = pair.remoteAddr
      /\ [t EXCEPT !.copy = 2].src = h /\ [t EXCEPT !.copy = 2].dst = pair.remoteAddr
  BY DEF Segment
<1>2. s = t \/ s = [t EXCEPT !.copy = 2]
  BY DEF Sent
<1> QED
  BY <1>1, <1>2

\* Perform, under what its callers see to: only a connection that is not waiting tells its
\* application, and nothing happens to a listener that would end it.
LEMMA PerformKeeps ==
  ASSUME HostsInv, SocketsKept, NEW h \in Host, up[h], NEW p \in DOMAIN tables[h].conns,
         NEW event, NEW sends, NEW tells \in Seq(Kinds), NEW armed \in SUBSET Timers, NEW st,
         NEW queue \in Seq(Indications(nextId)), Untold(tables[h], queue),
         NEW gone, NEW removes,
         tables[h].conns[p].fsm # "CLOSED",
         tells # <<>> => NextState(tables[h].conns[p].fsm, event) \notin Waiting,
         tables[h].conns[p].pair.remoteAddr = NoHost /\ sends = {} =>
            NextState(tables[h].conns[p].fsm, event) = "LISTEN" /\ armed = {},
         Perform(h, p, event, sends, tells, armed, st, queue, gone, removes)
  PROVE  HostsInv'
<1> DEFINE T == tables[h]
           conn == T.conns[p]
           new == NextState(conn.fsm, event)
           left == EntryTimers(conn.fsm, new, armed)
           after == IF sends = {} THEN st ELSE UpdateRcvWnd(st)
           changed == [conn EXCEPT !.fsm = new, !.timers = left, !.st = after]
           entered == EntryTells(conn.fsm, new, event)
           told == tells \o entered
           conns == Put(T.conns, p, changed)
           moved == WithConns(T, conns)
           U == IF removes /\ new = "CLOSED" THEN RemoveConnection(moved, p) ELSE moved
           more == queue \o [i \in 1 .. Len(told) |-> Indication(conn, told[i])]
<1>1. /\ TablesOK(T, nextId) /\ nextId \in Nat /\ NoHost \notin Host
      /\ IsConnection(conn, nextId) /\ ListensOnly(conn) /\ IdsApart(T)
  BY AddressAssumption DEF HostsInv, HostOK, TablesOK
<1>2. CASE \E reason : Fail(reason, h)
  BY <1>2, FailKeeps
<1>3. ASSUME ~\E reason : Fail(reason, h)
      PROVE  /\ tables' = [tables EXCEPT ![h] = U]
             /\ toApp' = [toApp EXCEPT ![h] = more]
             /\ wire' = (wire \ gone) \cup UNION {Sent(h, conn.pair, k) : k \in sends}
             /\ UNCHANGED <<world, up, nextId>>
             /\ sends # {} => conn.pair.remoteAddr # NoHost
  BY <1>3 DEF Perform, WithConns
<1>4. CASE ~\E reason : Fail(reason, h)
  <2>1. /\ new \in States
        /\ new \in Waiting => conn.fsm \in Waiting
    BY <1>1, WhereEventsLead DEF IsConnection
  <2>2. left \subseteq Timers /\ left \subseteq armed /\ (new = "CLOSED" => left = {})
    BY TimersLeft
  <2>3. conn.pair.remoteAddr = NoHost => new = "LISTEN" /\ left = {}
    BY <1>3, <1>4, <2>2
  <2>4. told \in Seq(Kinds) /\ (told # <<>> => new \notin Waiting)
    <3>1. entered \in Seq(Kinds) /\ (new \in Waiting => entered = <<>>)
      BY TellsOnEntry
    <3> HIDE DEF entered, new
    <3>2. told \in Seq(Kinds)
      BY <3>1, ConcatProperties
    <3>3. tells = <<>> /\ entered = <<>> => told = <<>>
      OBVIOUS
    <3> QED
      BY <3>1, <3>2, <3>3 DEF new
  <2> HIDE DEF new, left, after, entered, told
  <2>5. /\ DOMAIN changed = Fields /\ changed.gate = conn.gate /\ changed.connId = conn.connId
        /\ changed.pair = conn.pair /\ changed.fsm = new /\ changed.timers = left
    BY <1>1 DEF IsConnection, Fields
  <2> HIDE DEF changed
  <2>6. IsConnection(changed, nextId) /\ ListensOnly(changed)
    <3>1. IsConnection(changed, nextId)
      BY <1>1, <2>1, <2>2, <2>5 DEF IsConnection
    <3>2. ListensOnly(changed)
      BY <1>1, <2>1, <2>3, <2>5 DEF ListensOnly
    <3> QED
      BY <3>1, <3>2
  <2>7. /\ DOMAIN conns = DOMAIN T.conns /\ conns[p] = changed
        /\ \A q \in DOMAIN T.conns \ {p} : conns[q] = T.conns[q]
    <3>1. /\ DOMAIN conns = DOMAIN T.conns \cup {p} /\ conns[p] = changed
          /\ \A q \in DOMAIN T.conns \ {p} : conns[q] = T.conns[q]
      <4> DEFINE f == T.conns
      <4>1. conns = Put(f, p, changed)
        OBVIOUS
      <4> HIDE DEF conns, f
      <4>2. /\ DOMAIN conns = DOMAIN f \cup {p} /\ conns[p] = changed
            /\ \A q \in DOMAIN f \ {p} : conns[q] = f[q]
        BY <4>1 DEF Put
      <4> QED
        BY <4>2 DEF f
    <3> QED
      BY <3>1
  <2> HIDE DEF conns
  <2>8. TablesOK(moved, nextId) /\ moved.conns = conns /\ moved.apps = T.apps
    BY <1>1, <2>5, <2>6, <2>7, ChangedTables
  <2> HIDE DEF moved
  <2>9. Untold(moved, queue)
    <3>1. \A q \in DOMAIN moved.conns :
             /\ q \in DOMAIN T.conns
             /\ moved.conns[q].connId = T.conns[q].connId
             /\ moved.conns[q].fsm \in Waiting => T.conns[q].fsm \in Waiting
      BY <2>1, <2>5, <2>7, <2>8
    <3> HIDE DEF T
    <3> QED
      BY <3>1, StillUntold DEF T
  <2>10. more \in Seq(Indications(nextId)) /\ Untold(moved, more)
    <3>1. p \in DOMAIN moved.conns /\ moved.conns[p] = changed /\ IdsApart(moved)
      BY <2>7, <2>8 DEF TablesOK
    <3>2. conn.gate \in Nat /\ conn.connId \in 1 .. nextId - 1
          /\ conn.connId = moved.conns[p].connId
      BY <1>1, <2>5, <3>1 DEF IsConnection
    <3>3. told # <<>> => moved.conns[p].fsm \notin Waiting
      BY <2>4, <2>5, <3>1
    <3>4. nextId \in Nat /\ told \in Seq(Kinds)
      BY <1>1, <2>4
    <3> HIDE DEF conn, T, moved, U, told, changed
    <3>5. more = Heard(queue, conn, told)
      BY DEF Heard
    <3> HIDE DEF more
    <3> QED
      BY <2>9, <3>1, <3>2, <3>3, <3>4, <3>5, ToldMore
  <2> HIDE DEF more
  <2>11. /\ TablesOK(U, nextId) /\ Untold(U, more)
         /\ \A gate, connId, port : Listens(T, gate, connId, port) => Listens(U, gate, connId, port)
    <3>1. \A gate, connId, port : Listens(T, gate, connId, port) =>
             /\ Listens(moved, gate, connId, port)
             /\ new = "CLOSED" => T.apps[<<gate, connId>>] # p
      <4>1. SUFFICES ASSUME NEW gate, NEW connId, NEW port, Listens(T, gate, connId, port)
                     PROVE  /\ Listens(moved, gate, connId, port)
                            /\ new = "CLOSED" => T.apps[<<gate, connId>>] # p
        OBVIOUS
      <4> DEFINE key == <<gate, connId>>
                 q == T.apps[key]
      <4>2. key \in DOMAIN T.apps /\ T.conns[q].pair = Listening(NoHost, port)
        BY <4>1 DEF Listens
      <4>3. q \in DOMAIN T.conns
        BY <1>1, <4>2 DEF TablesOK, AppsAgree
      <4>4. T.conns[q].pair.remoteAddr = NoHost
        BY <4>2 DEF Listening, SockPair
      <4>5. moved.conns[q].pair = T.conns[q].pair
        BY <2>5, <2>7, <2>8, <4>3
      <4>6. new = "CLOSED" => q # p
        BY <2>3, <4>4
      <4> QED
        BY <2>8, <4>2, <4>5, <4>6 DEF Listens
    <3>2. CASE ~(removes /\ new = "CLOSED")
      BY <2>8, <2>10, <3>1, <3>2
    <3>3. CASE removes /\ new = "CLOSED"
      <4> DEFINE V == RemoveConnection(moved, p)
      <4>1. /\ TablesOK(V, nextId)
            /\ DOMAIN V.conns = DOMAIN moved.conns \ {p}
            /\ \A q \in DOMAIN moved.conns \ {p} : V.conns[q] = moved.conns[q]
            /\ \A key \in DOMAIN moved.apps : moved.apps[key] # p =>
                   key \in DOMAIN V.apps /\ V.apps[key] = moved.apps[key]
        <5>1. p \in DOMAIN moved.conns
          BY <2>7, <2>8
        <5> QED
          BY <1>1, <2>8, <5>1, RemovedTables
      <4> HIDE DEF V
      <4>2. Untold(V, more)
        BY <2>10, <4>1 DEF Untold
      <4>3. \A gate, connId, port : Listens(T, gate, connId, port) => Listens(V, gate, connId, port)
        <5>1. SUFFICES ASSUME NEW gate, NEW connId, NEW port, Listens(T, gate, connId, port)
                       PROVE  Listens(V, gate, connId, port)
          OBVIOUS
        <5>2. /\ <<gate, connId>> \in DOMAIN moved.apps
              /\ moved.conns[moved.apps[<<gate, connId>>]].pair = Listening(NoHost, port)
              /\ moved.apps[<<gate, connId>>] # p
          BY <2>8, <3>1, <3>3, <5>1 DEF Listens
        <5>3. moved.apps[<<gate, connId>>] \in DOMAIN moved.conns
          BY <2>8, <5>2 DEF TablesOK, AppsAgree
        <5> QED
          BY <4>1, <5>2, <5>3 DEF Listens
      <4>4. U = V
        BY <3>3 DEF V
      <4> QED
        BY <4>1, <4>2, <4>3, <4>4
    <3> QED
      BY <3>2, <3>3
  <2> HIDE DEF U
  <2>12. HostOK(U, more, up[h], nextId)
    BY <2>10, <2>11 DEF HostOK
  <2>13. \A s \in wire' : s.src \in Host /\ s.dst \in Host
    <3>1. ASSUME NEW k \in sends, NEW s \in Sent(h, conn.pair, k)
          PROVE  s.src \in Host /\ s.dst \in Host
      <4>1. conn.pair.remoteAddr \in Host
        BY <1>1, <1>3, <1>4 DEF IsConnection
      <4> QED
        BY <4>1, SentGoes
    <3> QED
      BY <1>3, <1>4, <3>1 DEF HostsInv
  <2>14. \A a \in DOMAIN world.apps : Listener(a) /\ a[1] = h /\ up[h] =>
            Listens(U, a[2], sockets'[a].connId, world.apps[a].port)
    BY <2>11 DEF HostsInv, HasListener, SocketsKept
  <2>15. up' = [up EXCEPT ![h] = up[h]]
    BY <1>3, <1>4 DEF HostsInv
  <2>16. up[h] \in BOOLEAN
    BY DEF HostsInv
  <2>17. nextId' \in Nat /\ nextId <= nextId' /\ HostOK(U, more, up[h], nextId')
         /\ world' = world
    <3>1. nextId' = nextId /\ world' = world
      BY <1>3, <1>4
    <3>2. nextId' \in Nat /\ nextId <= nextId'
      BY <1>1, <3>1
    <3>3. HostOK(U, more, up[h], nextId')
      BY <2>12, <3>1
    <3> QED
      BY <3>1, <3>2, <3>3
  <2> HIDE DEF T
  <2> QED
    BY <1>3, <1>4, <2>13, <2>14, <2>15, <2>16, <2>17, OneHost DEF SocketsKept
<1> QED
  BY <1>2, <1>4

\* A step that takes indications alone: the applications hear of them, or a host that is
\* down drops the command they lead to.
LEMMA QueueKeeps ==
  ASSUME HostsInv, SocketsKept, NEW h \in Host,
         NEW queue \in Seq(Indications(nextId)), Untold(tables[h], queue),
         toApp' = [toApp EXCEPT ![h] = queue],
         UNCHANGED <<world, tables, up, wire, nextId>>
  PROVE  HostsInv'
<1>1. /\ world' = world /\ nextId' = nextId /\ wire' = wire
      /\ tables' = [tables EXCEPT ![h] = tables[h]] /\ up' = [up EXCEPT ![h] = up[h]]
      /\ up[h] \in BOOLEAN
  BY DEF HostsInv
<1>2. nextId \in Nat /\ nextId <= nextId /\ HostOK(tables[h], queue, up[h], nextId)
  BY DEF HostsInv, HostOK
<1>3. \A a \in DOMAIN world.apps : Listener(a) /\ a[1] = h /\ up[h] =>
         Listens(tables[h], a[2], sockets'[a].connId, world.apps[a].port)
  BY DEF HostsInv, HasListener, SocketsKept
<1>4. \A s \in wire' : s.src \in Host /\ s.dst \in Host
  BY <1>1 DEF HostsInv
<1>5. nextId' \in Nat /\ nextId <= nextId' /\ HostOK(tables[h], queue, up[h], nextId')
  BY <1>1, <1>2
<1>6. /\ DOMAIN sockets' = DOMAIN sockets
      /\ \A a \in DOMAIN world.apps : Listener(a) /\ a[1] # h =>
            sockets'[a].connId = sockets[a].connId
  BY DEF SocketsKept
<1> QED
  BY <1>1, <1>3, <1>4, <1>5, <1>6, OneHost

\* What is left of the indications on their way.
LEMMA RestOfQueue ==
  ASSUME HostsInv, NEW h \in Host, toApp[h] # <<>>
  PROVE  /\ Head(toApp[h]) \in Indications(nextId)
         /\ Tail(toApp[h]) \in Seq(Indications(nextId))
         /\ Untold(tables[h], Tail(toApp[h]))
         /\ \A p \in DOMAIN tables[h].conns : tables[h].conns[p].fsm \in Waiting =>
               Head(toApp[h]).connId # tables[h].conns[p].connId
<1> DEFINE q == toApp[h]
<1>1. q \in Seq(Indications(nextId)) /\ Untold(tables[h], q)
  BY DEF HostsInv, HostOK
<1> HIDE DEF q
<1>2. q # <<>>
  BY DEF q
<1>3. Head(q) \in Indications(nextId) /\ Head(q) = q[1] /\ 1 \in 1 .. Len(q)
  BY <1>1, <1>2
<1>4. /\ Tail(q) \in Seq(Indications(nextId))
      /\ \A i \in 1 .. Len(Tail(q)) : i + 1 \in 1 .. Len(q) /\ Tail(q)[i] = q[i + 1]
  BY <1>1, <1>2
<1>5. Untold(tables[h], Tail(q))
  BY <1>1, <1>4 DEF Untold
<1> QED
  BY <1>1, <1>3, <1>4, <1>5 DEF Untold, q

\* The CLOSE command meets no listener: it is issued by who has been told.
LEMMA CloseKeeps ==
  ASSUME HostsInv, SocketsKept, NEW h \in Host, NEW gate, NEW connId,
         NEW queue \in Seq(Indications(nextId)), Untold(tables[h], queue),
         \A p \in DOMAIN tables[h].conns : tables[h].conns[p].fsm \in Waiting =>
            connId # tables[h].conns[p].connId,
         Close(h, gate, connId, queue)
  PROVE  HostsInv'
<1> DEFINE T == tables[h]
           p == FindConnForApp(T, gate, connId)
           conn == T.conns[p]
           early == conn.fsm \in {"LISTEN", "SYN_SENT"}
           sends == IF early THEN {} ELSE {"FIN"}
           armed == IF early THEN conn.timers ELSE conn.timers \cup {"REXMIT"}
<1>1. TablesOK(T, nextId)
  BY DEF HostsInv, HostOK
<1>2. CASE ~up[h]
  <2>1. /\ toApp' = [toApp EXCEPT ![h] = queue]
        /\ UNCHANGED <<world, tables, up, wire, nextId>>
    BY <1>2 DEF Close
  <2> QED
    BY <2>1, QueueKeeps
<1>3. CASE \E reason : Fail(reason, h)
  BY <1>3, FailKeeps
<1>4. CASE up[h] /\ ~\E reason : Fail(reason, h)
  <2>1. /\ p # NoConn /\ conn.fsm # "CLOSED"
        /\ Perform(h, p, "CLOSE", sends, <<>>, armed, conn.st, queue, {}, TRUE)
    BY <1>4 DEF Close
  <2>2. p \in DOMAIN T.conns /\ conn.connId = connId
    <3>1. <<gate, connId>> \in DOMAIN T.apps /\ p = T.apps[<<gate, connId>>]
      BY <2>1 DEF FindConnForApp
    <3> HIDE DEF p
    <3> QED
      BY <1>1, <3>1 DEF TablesOK, AppsAgree
  <2>3. conn.fsm \notin Waiting
    BY <2>2
  <2>4. IsConnection(conn, nextId) /\ ListensOnly(conn)
    BY <1>1, <2>2 DEF TablesOK
  <2> HIDE DEF p, conn
  <2>5. conn.pair.remoteAddr # NoHost
    BY <2>3, <2>4 DEF ListensOnly, Waiting
  <2>6. armed \in SUBSET Timers
    BY <2>4 DEF IsConnection, Timers
  <2>7. <<>> \in Seq(Kinds)
    OBVIOUS
  <2> HIDE DEF sends, armed, T
  <2> QED
    BY <1>4, <2>1, <2>2, <2>5, <2>6, <2>7, PerformKeeps DEF conn, T
<1> QED
  BY <1>2, <1>3, <1>4

LEMMA ListensAfterAdding ==
  ASSUME NEW T, NEW next \in Nat, TablesOK(T, next), NEW p, NEW gate0, NEW id,
         \A q \in DOMAIN T.conns : T.conns[q].connId # id,
         NEW U, U.apps = Put(T.apps, <<gate0, id>>, p),
         \A q \in DOMAIN T.conns : U.conns[q] = T.conns[q],
         NEW gate, NEW connId, NEW port, Listens(T, gate, connId, port)
  PROVE  Listens(U, gate, connId, port)
<1> DEFINE key == <<gate, connId>>
           new == <<gate0, id>>
<1>1. key \in DOMAIN T.apps /\ T.conns[T.apps[key]].pair = Listening(NoHost, port)
  BY DEF Listens
<1>2. T.apps[key] \in DOMAIN T.conns /\ connId = T.conns[T.apps[key]].connId
  BY <1>1 DEF TablesOK, AppsAgree
<1>3. key # new
  BY <1>2
<1> HIDE DEF key, new
<1>4. key \in DOMAIN U.apps /\ U.apps[key] = T.apps[key]
  BY <1>1, <1>3 DEF Put, new
<1> QED
  BY <1>1, <1>2, <1>4 DEF Listens, key

\* SYN and SYN+ACK too.
LEMMA SynGoes ==
  ASSUME NEW h \in Host, NEW pair, pair.remoteAddr \in Host, NEW kind, NEW st,
         NEW s \in SentSyn(h, pair, kind, st)
  PROVE  s.src \in Host /\ s.dst \in Host
<1> DEFINE t == Segment(kind, h, pair.remoteAddr, pair.localPort, pair.remotePort)
           opts == SynOptions(st, kind = "SYN")
           window == SynWindow(st)
           syn == [t EXCEPT !.opts = opts, !.window = window]
<1>1. s = syn
  BY DEF SentSyn
<1> HIDE DEF opts, window
<1>2. syn.src = h /\ syn.dst = pair.remoteAddr
  BY DEF Segment
<1> QED
  BY <1>1, <1>2

\* OPEN_ACTIVE
LEMMA OpenKeeps ==
  ASSUME HostsInv, SocketsKept, NEW h \in Host, NEW gate \in Nat, NEW app,
         app.peer \in Host, nextId <= world.maxId,
         OpenActive(h, gate, nextId, app)
  PROVE  HostsInv'
<1> DEFINE T == tables[h]
           p == FreshPointer(T)
           st == UpdateRcvWnd(Configure(Unconfigured, world.par[h]))
           syn == WriteSyn(st, TRUE)
           conn == Connection(gate, nextId, Closed, "SYN_SENT", {}, syn)
           port == GetEphemeralPort(T)
           pair == SockPair(NoHost, app.peer, port, app.port)
           A == AddSockPair(CreateConnection(T, p, conn), p, pair)
           U == [A EXCEPT !.lastPort = port]
           next == nextId + 1
           new == WithPair(conn, pair)
<1>1. /\ TablesOK(T, nextId) /\ nextId \in Nat \ {0} /\ next \in Nat /\ T.lastPort \in Ephemeral
      /\ toApp[h] \in Seq(Indications(nextId)) /\ Untold(T, toApp[h])
      /\ world \in Scenarios
  BY DEF HostsInv, HostOK, TablesOK, IsTables
<1>2. CASE ~up[h]
  <2>1. /\ nextId' = next
        /\ UNCHANGED <<world, tables, up, toApp, wire>>
    BY <1>2 DEF OpenActive
  <2>2. nextId' \in Nat /\ nextId <= nextId'
    BY <1>1, <2>1
  <2>3. HostOK(tables[h], toApp[h], up[h], nextId')
    BY <1>1, <2>2, LaterHost DEF HostsInv
  <2>4. /\ tables' = [tables EXCEPT ![h] = tables[h]] /\ toApp' = [toApp EXCEPT ![h] = toApp[h]]
        /\ up' = [up EXCEPT ![h] = up[h]] /\ up[h] \in BOOLEAN
    BY <2>1 DEF HostsInv
  <2>5. \A s \in wire' : s.src \in Host /\ s.dst \in Host
    BY <2>1 DEF HostsInv
  <2>6. world' = world
    BY <2>1
  <2>7. \A a \in DOMAIN world.apps : Listener(a) /\ a[1] = h /\ up[h] =>
           Listens(tables[h], a[2], sockets'[a].connId, world.apps[a].port)
    BY <1>2
  <2> QED
    BY <2>2, <2>3, <2>4, <2>5, <2>6, <2>7, OneHost DEF SocketsKept
<1>3. CASE \E reason : Fail(reason, h)
  BY <1>3, FailKeeps
<1>4. CASE up[h] /\ ~\E reason : Fail(reason, h)
  <2>1. /\ ~Exhausted(T) /\ pair \notin DOMAIN T.pairs
        /\ nextId' = next
        /\ wire' = wire \cup SentSyn(h, pair, "SYN", st)
        /\ UNCHANGED <<world, up, toApp>>
    BY <1>4 DEF OpenActive, InUse
  <2>2. tables' = [tables EXCEPT ![h] = U]
    <3>1. pair.localPort = port
      BY DEF SockPair
    <3>2. tables' = [tables EXCEPT ![h] = [A EXCEPT !.lastPort = pair.localPort]]
      BY <1>4 DEF OpenActive
    <3> HIDE DEF pair, A
    <3> QED
      BY <3>1, <3>2
  <2>3. port \in Ephemeral /\ T.ports[port] = 0
    BY <1>1, <2>1, FreePort
  <2>4. p \in Pointer \ DOMAIN T.conns
    BY <1>1, RoomForConnection
  <2> HIDE DEF p, syn, port
  <2>5. /\ DOMAIN conn = Fields /\ conn.gate = gate /\ conn.connId = nextId
        /\ conn.fsm = "SYN_SENT" /\ conn.timers = {}
    BY DEF Connection, Fields
  <2>6. pair.localPort = port /\ pair.remoteAddr = app.peer
    BY DEF SockPair
  <2> HIDE DEF conn, pair
  <2>7. /\ DOMAIN new = Fields /\ new.gate = gate /\ new.connId = nextId
        /\ new.fsm = "SYN_SENT" /\ new.timers = {} /\ new.pair = pair
    BY <2>5 DEF WithPair, Fields
  <2> HIDE DEF new
  <2>8. IsConnection(new, next) /\ ListensOnly(new)
    <3>1. IsConnection(new, next)
      BY <1>1, <2>6, <2>7 DEF IsConnection, States, Timers
    <3>2. ListensOnly(new)
      BY <2>6, <2>7, AddressAssumption DEF ListensOnly, Waiting
    <3> QED
      BY <3>1, <3>2
  <2>9. \A q \in DOMAIN T.conns : T.conns[q].connId # nextId
    BY <1>1 DEF TablesOK, IsConnection
  <2>10. TablesOK(T, next)
    BY <1>1, LaterTables
  <2> HIDE DEF next
  <2>11. /\ TablesOK(A, next)
         /\ DOMAIN A.conns = DOMAIN T.conns \cup {p}
         /\ A.conns[p] = new
         /\ \A q \in DOMAIN T.conns : A.conns[q] = T.conns[q]
         /\ A.apps = Put(T.apps, <<gate, nextId>>, p)
    <3>1. /\ IsConnection(WithPair(conn, pair), next) /\ ListensOnly(WithPair(conn, pair))
          /\ pair.localPort \in Ephemeral => T.ports[pair.localPort] = 0
          /\ \A q \in DOMAIN T.conns : T.conns[q].connId # conn.connId
      BY <2>3, <2>5, <2>6, <2>8, <2>9 DEF new
    <3> HIDE DEF T
    <3>2. /\ TablesOK(A, next)
          /\ DOMAIN A.conns = DOMAIN T.conns \cup {p}
          /\ A.conns[p] = WithPair(conn, pair)
          /\ \A q \in DOMAIN T.conns : A.conns[q] = T.conns[q]
          /\ A.apps = Put(T.apps, <<conn.gate, conn.connId>>, p)
      BY <1>1, <2>1, <2>4, <2>5, <2>10, <3>1, AddedTables
    <3> QED
      BY <2>5, <3>2 DEF new
  <2> HIDE DEF A
  <2>12. TablesOK(U, next) /\ U.conns = A.conns /\ U.apps = A.apps
    BY <1>1, <2>3, <2>11, PortNoted
  <2> HIDE DEF U
  <2>13. Untold(U, toApp[h])
    BY <1>1, <2>7, <2>11, <2>12 DEF Untold, Waiting
  <2>14. HostOK(U, toApp[h], up[h], next)
    <3>1. Indications(nextId) \subseteq Indications(next)
      BY <1>1 DEF Indications, next
    <3>2. toApp[h] \in Seq(Indications(next))
      BY <1>1, <3>1
    <3> QED
      BY <1>4, <2>12, <2>13, <3>2 DEF HostOK
  <2>15. \A a \in DOMAIN world.apps : Listener(a) /\ a[1] = h /\ up[h] =>
            Listens(U, a[2], sockets'[a].connId, world.apps[a].port)
    <3>1. SUFFICES ASSUME NEW a \in DOMAIN world.apps, Listener(a), a[1] = h, up[h]
                   PROVE  Listens(U, a[2], sockets'[a].connId, world.apps[a].port)
      OBVIOUS
    <3>2. Listens(T, a[2], sockets'[a].connId, world.apps[a].port)
      BY <3>1 DEF HostsInv, HasListener, SocketsKept
    <3>3. U.apps = Put(T.apps, <<gate, nextId>>, p)
          /\ \A q \in DOMAIN T.conns : U.conns[q] = T.conns[q]
      BY <2>11, <2>12
    <3> DEFINE slot == a[2]
               id == sockets'[a].connId
               number == world.apps[a].port
    <3>4. Listens(T, slot, id, number)
      BY <3>2
    <3>5. nextId \in Nat /\ TablesOK(T, nextId)
      BY <1>1
    <3> HIDE DEF T, slot, id, number
    <3>6. Listens(U, slot, id, number)
      BY <2>9, <3>3, <3>4, <3>5, ListensAfterAdding
    <3> QED
      BY <3>6 DEF slot, id, number
  <2>16. \A s \in wire' : s.src \in Host /\ s.dst \in Host
    <3>1. pair.remoteAddr \in Host
      BY <2>6
    <3> HIDE DEF st
    <3> QED
      BY <2>1, <3>1, SynGoes DEF HostsInv
  <2>17. toApp' = [toApp EXCEPT ![h] = toApp[h]] /\ up' = [up EXCEPT ![h] = up[h]]
         /\ up[h] \in BOOLEAN
    BY <2>1 DEF HostsInv
  <2>18. nextId' \in Nat /\ nextId <= nextId' /\ HostOK(U, toApp[h], up[h], nextId')
    <3>1. nextId <= next
      BY <1>1 DEF next
    <3> QED
      BY <1>1, <2>1, <2>14, <3>1
  <2>19. world' = world
    BY <2>1
  <2> QED
    BY <2>2, <2>15, <2>16, <2>17, <2>18, <2>19, OneHost DEF SocketsKept
<1> QED
  BY <1>2, <1>3, <1>4

\* Three fields of a connection change.
InPlace(T, p, fsm, timers, st) ==
    [T EXCEPT !.conns[p].fsm = fsm, !.conns[p].timers = timers, !.conns[p].st = st]

LEMMA ChangedInPlace ==
  ASSUME NEW T, IsTables(T), NEW p \in DOMAIN T.conns, DOMAIN T.conns[p] = Fields,
         NEW fsm, NEW timers, NEW st
  PROVE  LET U == InPlace(T, p, fsm, timers, st)
         IN  /\ U = WithConns(T, U.conns)
             /\ DOMAIN U.conns = DOMAIN T.conns
             /\ DOMAIN U.conns[p] = Fields
             /\ U.conns[p].fsm = fsm /\ U.conns[p].timers = timers
             /\ U.conns[p].gate = T.conns[p].gate /\ U.conns[p].connId = T.conns[p].connId
             /\ U.conns[p].pair = T.conns[p].pair
             /\ \A q \in DOMAIN T.conns \ {p} : U.conns[q] = T.conns[q]
<1> DEFINE conn == T.conns[p]
           changed == [conn EXCEPT !.fsm = fsm, !.timers = timers, !.st = st]
           conns == [T.conns EXCEPT ![p] = changed]
           U == InPlace(T, p, fsm, timers, st)
<1>1. /\ DOMAIN changed = Fields
      /\ changed.fsm = fsm /\ changed.timers = timers
      /\ changed.gate = conn.gate /\ changed.connId = conn.connId /\ changed.pair = conn.pair
  BY DEF Fields
<1>2. U = WithConns(T, conns)
  BY DEF InPlace, WithConns, IsTables
<1> HIDE DEF changed
<1>3. /\ DOMAIN conns = DOMAIN T.conns /\ conns[p] = changed
      /\ \A q \in DOMAIN T.conns \ {p} : conns[q] = T.conns[q]
  OBVIOUS
<1> HIDE DEF conns, U
<1>4. U.conns = conns
  BY <1>2 DEF WithConns, IsTables
<1> QED
  BY <1>1, <1>2, <1>3, <1>4 DEF U

\* LISTEN: the connection that listened takes the call, and its clone listens in its place.
LEMMA AcceptKeeps ==
  ASSUME HostsInv, SocketsKept, NEW h \in Host, up[h], NEW s \in wire,
         NEW p \in DOMAIN tables[h].conns, s.dst = h,
         p = FindConnForSegment(tables[h], s.src, h, s.srcPort, s.destPort),
         tables[h].conns[p].fsm = "LISTEN",
         Accept(h, s, p)
  PROVE  HostsInv'
<1> DEFINE T == tables[h]
           conn == T.conns[p]
           pair == SockPair(h, s.src, s.destPort, s.srcPort)
           st == UpdateRcvWnd(ReadOptions(UpdateSndWnd(Configure(conn.st, world.par[h]), s.window),
                                          s.opts))
           syn == WriteSyn(st, FALSE)
           clone == Clone(conn, s.destPort)
           q == FreshPointer(T)
           F == AddForkedConnection(T, p, pair, nextId, q, clone)
           fsm == NextState(F.conns[p].fsm, "RCV_SYN")
           timers == F.conns[p].timers \cup {"CONN_ESTAB"}
           U == InPlace(F, p, fsm, timers, syn)
           next == nextId + 1
           spunOff == SpunOff(conn, pair, nextId)
           listener == WithPair(clone, clone.pair)
           old == <<conn.gate, conn.connId>>
<1> HIDE DEF st, syn, F, U, listener, spunOff, clone, q, fsm, timers
<1>1. /\ TablesOK(T, nextId) /\ nextId \in Nat \ {0} /\ next \in Nat /\ nextId <= next
      /\ toApp[h] \in Seq(Indications(nextId)) /\ Untold(T, toApp[h])
      /\ world \in Scenarios /\ s.src \in Host
  BY DEF HostsInv, HostOK
<1>2. CASE \E reason : Fail(reason, h)
  BY <1>2, FailKeeps
<1>3. CASE ~\E reason : Fail(reason, h)
  <2>1. /\ nextId <= world.maxId
        /\ clone.pair \notin DOMAIN UpdateSockPair(T, p, pair).pairs
        /\ wire' = (wire \ {s}) \cup SentSyn(h, pair, "SYNACK", st)
        /\ nextId' = next
        /\ UNCHANGED <<world, up, toApp>>
    BY <1>3 DEF Accept, InUse, st, clone
  <2>2. tables' = [tables EXCEPT ![h] = U]
    BY <1>3 DEF Accept, InPlace, st, syn, F, U, clone, q, fsm, timers
  <2>3. /\ IsConnection(conn, nextId) /\ ListensOnly(conn) /\ AppsAgree(T)
    BY <1>1 DEF TablesOK
  <2>4. /\ conn.pair.localPort = s.destPort
        /\ conn.pair = pair \/ pair \notin DOMAIN T.pairs
    <3>1. p # NoConn
      BY <1>1, AddressAssumption DEF TablesOK, IsTables
    <3> HIDE DEF T
    <3> QED
      BY <1>1, <3>1, FoundConn DEF T
  <2>5. /\ pair.localPort = s.destPort /\ pair.remoteAddr = s.src
        /\ s.destPort \notin Ephemeral
    BY <2>3, <2>4 DEF SockPair, ListensOnly, Waiting
  <2>6. q \in Pointer \ DOMAIN T.conns
    BY <1>1, <2>1, RoomForConnection DEF q
  <2>7. /\ DOMAIN clone = Fields /\ clone.gate = conn.gate /\ clone.connId = conn.connId
        /\ clone.pair = Listening(conn.pair.localAddr, s.destPort)
        /\ clone.fsm = "LISTEN" /\ clone.timers = {}
    BY DEF Clone, Connection, Fields, clone
  <2>8. /\ clone.pair.remoteAddr = NoHost /\ clone.pair.localPort = s.destPort
        /\ clone.pair.localAddr = conn.pair.localAddr
    BY <2>7 DEF Listening, SockPair
  <2>9. IsConnection(clone, nextId) /\ ListensOnly(clone)
    BY <2>3, <2>5, <2>7, <2>8 DEF IsConnection, ListensOnly, States
  <2>10. /\ TablesOK(F, next)
         /\ DOMAIN F.conns = DOMAIN T.conns \cup {q}
         /\ F.conns[p] = spunOff
         /\ F.conns[q] = listener
         /\ \A r \in DOMAIN T.conns \ {p} : F.conns[r] = T.conns[r]
         /\ old \in DOMAIN F.apps
         /\ F.apps[old] = q
         /\ \A key \in DOMAIN T.apps \ {old} : key \in DOMAIN F.apps /\ F.apps[key] = T.apps[key]
    <3>1. p \in DOMAIN T.conns /\ pair.remoteAddr \in Host
          /\ pair.localPort = T.conns[p].pair.localPort
          /\ clone.gate = T.conns[p].gate /\ clone.connId = T.conns[p].connId
          /\ clone.pair.localPort \notin Ephemeral
          /\ (pair = T.conns[p].pair \/ pair \notin DOMAIN T.pairs)
      BY <1>1, <2>4, <2>5, <2>7, <2>8
    <3>2. /\ DOMAIN clone = Fields /\ IsConnection(clone, nextId) /\ ListensOnly(clone)
          /\ clone.pair \notin DOMAIN UpdateSockPair(T, p, pair).pairs
          /\ q \in Pointer \ DOMAIN T.conns
          /\ TablesOK(T, nextId) /\ nextId \in Nat \ {0}
      BY <1>1, <2>1, <2>6, <2>7, <2>9
    <3>3. next = nextId + 1
      OBVIOUS
    <3>4. IsFork(T, F, p, pair, nextId, q, clone)
      <4> HIDE DEF T, pair, q
      <4> QED
        BY <3>1, <3>2, ForkedTables DEF F
    <3> HIDE DEF T, pair, next
    <3> QED
      BY <3>3, <3>4 DEF IsFork, spunOff, listener
  <2>11. /\ DOMAIN spunOff = Fields /\ spunOff.gate = conn.gate /\ spunOff.connId = nextId
         /\ spunOff.pair = pair /\ spunOff.fsm = "LISTEN" /\ spunOff.timers = conn.timers
    BY <2>3 DEF IsConnection, Fields, SpunOff, spunOff
  <2>12. /\ DOMAIN listener = Fields /\ listener.connId = conn.connId
         /\ listener.pair = clone.pair /\ listener.fsm = "LISTEN"
    BY <2>7 DEF WithPair, Fields, listener
  <2>13. fsm = "SYN_RCVD" /\ timers = conn.timers \cup {"CONN_ESTAB"}
    <3>1. NextState("LISTEN", "RCV_SYN") = "SYN_RCVD"
      BY DEF NextState, Moves
    <3>2. F.conns[p].fsm = "LISTEN" /\ F.conns[p].timers = conn.timers
      BY <2>10, <2>11
    <3> QED
      BY <3>1, <3>2 DEF fsm, timers
  <2>14. p \in DOMAIN F.conns /\ p # q /\ IsTables(F)
    BY <2>6, <2>10 DEF TablesOK
  <2>15. /\ U = WithConns(F, U.conns)
         /\ DOMAIN U.conns = DOMAIN F.conns
         /\ DOMAIN U.conns[p] = Fields
         /\ U.conns[p].fsm = fsm /\ U.conns[p].timers = timers
         /\ U.conns[p].gate = conn.gate /\ U.conns[p].connId = nextId
         /\ U.conns[p].pair = pair
         /\ \A r \in DOMAIN F.conns \ {p} : U.conns[r] = F.conns[r]
    <3>1. /\ U = WithConns(F, U.conns)
          /\ DOMAIN U.conns = DOMAIN F.conns
          /\ DOMAIN U.conns[p] = Fields
          /\ U.conns[p].fsm = fsm /\ U.conns[p].timers = timers
          /\ U.conns[p].gate = F.conns[p].gate /\ U.conns[p].connId = F.conns[p].connId
          /\ U.conns[p].pair = F.conns[p].pair
          /\ \A r \in DOMAIN F.conns \ {p} : U.conns[r] = F.conns[r]
      <4>1. DOMAIN F.conns[p] = Fields
        BY <2>10, <2>11
      <4> QED
        BY <2>14, <4>1, ChangedInPlace DEF U
    <3> QED
      BY <2>10, <2>11, <3>1
  <2>16. /\ DOMAIN U.conns = DOMAIN T.conns \cup {q} /\ U.conns[q] = listener
         /\ \A r \in DOMAIN T.conns \ {p} : U.conns[r] = T.conns[r]
    <3> HIDE DEF T
    <3>1. DOMAIN U.conns = DOMAIN T.conns \cup {q}
      BY <2>10, <2>15
    <3>2. U.conns[q] = listener
      BY <2>10, <2>14, <2>15
    <3>3. \A r \in DOMAIN T.conns \ {p} : U.conns[r] = T.conns[r]
      BY <2>10, <2>15
    <3> QED
      BY <3>1, <3>2, <3>3
  <2> HIDE DEF pair
  <2>17. IsConnection(U.conns[p], next) /\ ListensOnly(U.conns[p])
    <3>1. IsConnection(U.conns[p], next)
      <4>1. conn.gate \in Nat /\ conn.timers \subseteq Timers
        BY <2>3 DEF IsConnection
      <4>2. fsm \in States /\ fsm # "CLOSED"
        BY <2>13 DEF States
      <4>3. timers \subseteq Timers
        BY <2>13, <4>1 DEF Timers
      <4>4. nextId \in 1 .. next - 1
        BY <1>1
      <4>5. pair.remoteAddr \in Host
        BY <1>1, <2>5
      <4> HIDE DEF conn, next
      <4> QED
        BY <2>15, <4>1, <4>2, <4>3, <4>4, <4>5 DEF IsConnection
    <3>2. ListensOnly(U.conns[p])
      BY <1>1, <2>5, <2>13, <2>15, AddressAssumption DEF ListensOnly
    <3> QED
      BY <3>1, <3>2
  <2>18. TablesOK(U, next) /\ U.apps = F.apps
    <3> DEFINE conns == U.conns
               changed == conns[p]
    <3>1. /\ changed.gate = F.conns[p].gate /\ changed.connId = F.conns[p].connId
          /\ changed.pair = F.conns[p].pair
          /\ DOMAIN conns = DOMAIN F.conns
          /\ \A r \in DOMAIN F.conns \ {p} : conns[r] = F.conns[r]
          /\ IsConnection(changed, next) /\ ListensOnly(changed)
          /\ conns[p] = changed
      BY <2>10, <2>11, <2>15, <2>17
    <3>2. next \in Nat /\ TablesOK(F, next) /\ p \in DOMAIN F.conns
      BY <1>1, <2>10, <2>14
    <3> HIDE DEF conns, changed, next
    <3>3. TablesOK(WithConns(F, conns), next) /\ WithConns(F, conns).apps = F.apps
      BY <3>1, <3>2, ChangedTables
    <3> QED
      BY <2>15, <3>3 DEF conns
  <2>19. Untold(U, toApp[h])
    <3>1. ASSUME NEW i \in 1 .. Len(toApp[h]), NEW r \in DOMAIN U.conns,
                 U.conns[r].fsm \in Waiting
          PROVE  toApp[h][i].connId # U.conns[r].connId
      <4>1. toApp[h][i] \in Indications(nextId)
        BY <1>1
      <4>2. toApp[h][i].connId # nextId
        BY <1>1, <4>1 DEF Indications
      <4>3. CASE r = p
        BY <2>15, <4>2, <4>3
      <4>4. CASE r = q
        <5>1. U.conns[r].connId = conn.connId
          BY <2>12, <2>16, <4>4
        <5> QED
          BY <1>1, <5>1 DEF Untold, Waiting
      <4>5. CASE r # p /\ r # q
        <5>1. r \in DOMAIN T.conns /\ U.conns[r] = T.conns[r]
          BY <2>16, <4>5
        <5> QED
          BY <1>1, <3>1, <5>1 DEF Untold
      <4> QED
        BY <4>3, <4>4, <4>5
    <3> QED
      BY <3>1 DEF Untold
  <2>20. ASSUME NEW gate, NEW connId, NEW port, Listens(T, gate, connId, port)
         PROVE  Listens(U, gate, connId, port)
    <3> DEFINE key == <<gate, connId>>
               r == T.apps[key]
    <3>1. key \in DOMAIN T.apps /\ T.conns[r].pair = Listening(NoHost, port)
      BY <2>20 DEF Listens
    <3>2. r \in DOMAIN T.conns /\ key = <<T.conns[r].gate, T.conns[r].connId>>
      BY <2>3, <3>1 DEF AppsAgree
    <3>3. CASE r = p
      <4>1. key = old
        BY <3>2, <3>3
      <4>2. conn.pair = Listening(NoHost, port)
        BY <3>1, <3>3
      <4>3. conn.pair.localAddr = NoHost /\ conn.pair.localPort = port
        BY <4>2 DEF Listening, SockPair
      <4>4. clone.pair = Listening(NoHost, port)
        BY <2>4, <2>7, <4>3
      <4>5. U.conns[q] = listener
        BY <2>16
      <4>6. key \in DOMAIN U.apps /\ U.apps[key] = q
        BY <2>10, <2>18, <4>1
      <4>7. U.conns[U.apps[key]].pair = Listening(NoHost, port)
        BY <2>12, <4>4, <4>5, <4>6
      <4> QED
        BY <4>6, <4>7 DEF Listens
    <3>4. CASE r # p
      <4>1. key # old
        <5> HIDE DEF T, conn
        <5>1. old \in DOMAIN T.apps => T.apps[old] = p
          BY <2>3 DEF AppsAgree, conn, T
        <5> QED
          BY <3>1, <3>4, <5>1
      <4>2. key \in DOMAIN U.apps /\ U.apps[key] = r
        <5> HIDE DEF T, old
        <5>1. key \in DOMAIN F.apps /\ F.apps[key] = T.apps[key]
          BY <2>10, <3>1, <4>1
        <5> QED
          BY <2>18, <5>1
      <4>3. U.conns[r] = T.conns[r]
        BY <2>16, <3>2, <3>4
      <4> QED
        BY <3>1, <4>2, <4>3 DEF Listens
    <3> QED
      BY <3>3, <3>4
  <2>21. \A a \in DOMAIN world.apps : Listener(a) /\ a[1] = h /\ up[h] =>
            Listens(U, a[2], sockets'[a].connId, world.apps[a].port)
    <3>1. SUFFICES ASSUME NEW a \in DOMAIN world.apps, Listener(a), a[1] = h, up[h]
                   PROVE  Listens(U, a[2], sockets'[a].connId, world.apps[a].port)
      OBVIOUS
    <3>2. Listens(T, a[2], sockets'[a].connId, world.apps[a].port)
      BY <3>1 DEF HostsInv, HasListener, SocketsKept
    <3> QED
      BY <2>20, <3>2
  <2>22. \A t \in wire' : t.src \in Host /\ t.dst \in Host
    <3>1. pair.remoteAddr \in Host
      BY <1>1, <2>5
    <3> QED
      BY <2>1, <3>1, SynGoes DEF HostsInv
  <2>23. HostOK(U, toApp[h], up[h], next)
    <3>1. Indications(nextId) \subseteq Indications(next)
      BY <1>1 DEF Indications
    <3>2. toApp[h] \in Seq(Indications(next))
      BY <1>1, <3>1
    <3> QED
      BY <2>18, <2>19, <3>2 DEF HostOK
  <2>24. toApp' = [toApp EXCEPT ![h] = toApp[h]] /\ up' = [up EXCEPT ![h] = up[h]]
         /\ up[h] \in BOOLEAN
    BY <2>1 DEF HostsInv
  <2>25. nextId' \in Nat /\ nextId <= nextId' /\ HostOK(U, toApp[h], up[h], nextId')
    BY <1>1, <2>1, <2>23
  <2>26. world' = world
    BY <2>1
  <2> QED
    BY <2>2, <2>21, <2>22, <2>24, <2>25, <2>26, OneHost DEF SocketsKept
<1> QED
  BY <1>2, <1>3

LEMMA ToldOne ==
  ASSUME NEW T, NEW next \in Nat, IdsApart(T), NEW queue \in Seq(Indications(next)),
         Untold(T, queue), NEW p \in DOMAIN T.conns, NEW conn,
         conn.gate \in Nat, conn.connId \in 1 .. next - 1, conn.connId = T.conns[p].connId,
         NEW kind \in Kinds, T.conns[p].fsm \notin Waiting
  PROVE  LET more == Append(queue, Indication(conn, kind))
         IN  more \in Seq(Indications(next)) /\ Untold(T, more)
<1> DEFINE new == Indication(conn, kind)
           more == Append(queue, new)
<1>1. new \in Indications(next) /\ new.connId = conn.connId
  BY DEF Indication, Indications
<1> HIDE DEF new
<1>2. /\ more \in Seq(Indications(next))
      /\ Len(more) = Len(queue) + 1 /\ Len(queue) \in Nat
      /\ \A i \in 1 .. Len(queue) : more[i] = queue[i]
      /\ more[Len(queue) + 1] = new
  BY <1>1
<1> HIDE DEF more
<1>3. ASSUME NEW i \in 1 .. Len(more), NEW q \in DOMAIN T.conns, T.conns[q].fsm \in Waiting
      PROVE  more[i].connId # T.conns[q].connId
  <2>1. CASE i \in 1 .. Len(queue)
    BY <1>2, <1>3, <2>1 DEF Untold
  <2>2. CASE i = Len(queue) + 1
    BY <1>1, <1>2, <1>3, <2>2 DEF IdsApart
  <2> QED
    BY <1>2, <2>1, <2>2
<1> QED
  BY <1>2, <1>3 DEF Untold, more, new

\* A step in which a connection p, which has a peer and waits for none, changes but keeps
\* its gate and id, and may tell its application.
LEMMA ChangeKeeps ==
  ASSUME HostsInv, SocketsKept, NEW h \in Host, up[h], NEW p \in DOMAIN tables[h].conns,
         NEW U, TablesOK(U, nextId),
         DOMAIN U.conns = DOMAIN tables[h].conns, U.apps = tables[h].apps,
         \A q \in DOMAIN U.conns \ {p} : U.conns[q] = tables[h].conns[q],
         U.conns[p].connId = tables[h].conns[p].connId,
         tables[h].conns[p].fsm # "LISTEN", U.conns[p].fsm \notin Waiting,
         NEW conn, conn.gate \in Nat, conn.connId = tables[h].conns[p].connId,
         NEW kind \in Kinds,
         tables' = [tables EXCEPT ![h] = U],
         toApp' = [toApp EXCEPT ![h] = Append(@, Indication(conn, kind))],
         \A s \in wire' : s.src \in Host /\ s.dst \in Host,
         UNCHANGED <<world, up, nextId>>
  PROVE  HostsInv'
<1> DEFINE T == tables[h]
           queue == toApp[h]
           more == Append(queue, Indication(conn, kind))
<1>1. /\ TablesOK(T, nextId) /\ nextId \in Nat /\ queue \in Seq(Indications(nextId))
      /\ Untold(T, queue)
  BY DEF HostsInv, HostOK
<1>2. /\ IdsApart(U) /\ conn.connId \in 1 .. nextId - 1 /\ conn.connId = U.conns[p].connId
      /\ p \in DOMAIN U.conns
  BY <1>1 DEF TablesOK, IsConnection
<1>3. Untold(U, queue)
  BY <1>1 DEF Untold
<1>4. more \in Seq(Indications(nextId)) /\ Untold(U, more)
  <2> HIDE DEF queue
  <2> QED
    BY <1>1, <1>2, <1>3, ToldOne
<1>5. toApp' = [toApp EXCEPT ![h] = more]
  OBVIOUS
<1> HIDE DEF more
<1>6. ASSUME NEW gate, NEW connId, NEW port, Listens(T, gate, connId, port)
      PROVE  Listens(U, gate, connId, port)
  <2> DEFINE r == T.apps[<<gate, connId>>]
  <2>1. /\ <<gate, connId>> \in DOMAIN T.apps
        /\ T.conns[r].pair = Listening(NoHost, port)
    BY <1>6 DEF Listens
  <2>2. r \in DOMAIN T.conns
    BY <1>1, <2>1 DEF TablesOK, AppsAgree
  <2>3. T.conns[r].pair.remoteAddr = NoHost
    BY <2>1 DEF Listening, SockPair
  <2>4. T.conns[r].fsm = "LISTEN"
    BY <1>1, <2>2, <2>3 DEF TablesOK, ListensOnly
  <2>5. r # p
    BY <2>4
  <2> QED
    BY <2>1, <2>2, <2>5 DEF Listens
<1>7. HostOK(U, more, up[h], nextId)
  BY <1>4 DEF HostOK
<1>8. \A a \in DOMAIN world.apps : Listener(a) /\ a[1] = h /\ up[h] =>
         Listens(U, a[2], sockets'[a].connId, world.apps[a].port)
  BY <1>6 DEF HostsInv, HasListener, SocketsKept
<1>9. /\ up' = [up EXCEPT ![h] = up[h]] /\ up[h] \in BOOLEAN /\ world' = world
      /\ nextId' = nextId
  BY DEF HostsInv
<1>10. nextId' \in Nat /\ nextId <= nextId' /\ HostOK(U, more, up[h], nextId')
  <2>1. nextId' \in Nat /\ nextId <= nextId'
    BY <1>1, <1>9
  <2> QED
    BY <1>7, <1>9, <2>1
<1> QED
  BY <1>5, <1>8, <1>9, <1>10, OneHost DEF SocketsKept

\* A host with connections is up.
LEMMA ConnectedIsUp ==
  ASSUME HostsInv, NEW h \in Host, NEW p \in DOMAIN tables[h].conns
  PROVE  up[h]
  BY EmptyTables DEF HostsInv, HostOK

\* The last symbol.
LEMMA LastSymbolKeeps ==
  ASSUME HostsInv, NEW h \in Host, NEW p, LastSymbol(h, p)
  PROVE  HostsInv'
<1> DEFINE T == tables[h]
           conn == T.conns[p]
           changed == [conn EXCEPT !.done = TRUE]
           conns == [T.conns EXCEPT ![p] = changed]
           U == WithConns(T, conns)
<1>1. /\ TablesOK(T, nextId) /\ nextId \in Nat
      /\ DOMAIN tables = Host
  BY DEF HostsInv, HostOK
<1>2. /\ p \in DOMAIN T.conns /\ conn.fsm = "ESTABLISHED"
      /\ toApp' = [toApp EXCEPT ![h] = Append(@, Indication(conn, "PEER_CLOSED"))]
      /\ wire' = wire
      /\ UNCHANGED <<world, up, nextId>>
      /\ sockets' = sockets
  BY DEF LastSymbol
<1>3. tables' = [tables EXCEPT ![h] = U]
  <2>1. IsTables(T)
    BY <1>1 DEF TablesOK
  <2>2. tables' = [tables EXCEPT ![h].conns[p].done = TRUE]
    BY DEF LastSymbol
  <2> QED
    BY <2>1, <2>2 DEF WithConns, IsTables
<1>4. IsConnection(conn, nextId) /\ ListensOnly(conn)
  BY <1>1, <1>2 DEF TablesOK
<1>5. /\ DOMAIN changed = Fields /\ changed.gate = conn.gate /\ changed.connId = conn.connId
      /\ changed.pair = conn.pair /\ changed.fsm = conn.fsm /\ changed.timers = conn.timers
  BY <1>4 DEF IsConnection, Fields
<1> HIDE DEF changed
<1>6. IsConnection(changed, nextId) /\ ListensOnly(changed)
  BY <1>4, <1>5 DEF IsConnection, ListensOnly
<1>7. /\ DOMAIN conns = DOMAIN T.conns /\ conns[p] = changed
      /\ \A q \in DOMAIN T.conns \ {p} : conns[q] = T.conns[q]
  BY <1>2
<1> HIDE DEF conns
<1>8. TablesOK(U, nextId) /\ U.conns = conns /\ U.apps = T.apps
  BY <1>1, <1>2, <1>5, <1>6, <1>7, ChangedTables
<1> HIDE DEF U
<1>9. /\ DOMAIN U.conns = DOMAIN T.conns /\ U.conns[p].connId = conn.connId
      /\ U.conns[p].fsm \notin Waiting
      /\ \A q \in DOMAIN U.conns \ {p} : U.conns[q] = T.conns[q]
      /\ conn.fsm # "LISTEN" /\ conn.gate \in Nat
  BY <1>2, <1>4, <1>5, <1>7, <1>8 DEF Waiting, IsConnection
<1>10. up[h] /\ SocketsKept /\ "PEER_CLOSED" \in Kinds
  BY <1>2, ConnectedIsUp DEF SocketsKept, Kinds
<1>11. \A s \in wire' : s.src \in Host /\ s.dst \in Host
  BY <1>2 DEF HostsInv
<1> HIDE DEF conn
<1> QED
  BY <1>2, <1>3, <1>8, <1>9, <1>10, <1>11, ChangeKeeps DEF conn

\* SYN_SENT
LEMMA SynSentKeeps ==
  ASSUME HostsInv, NEW h \in Host, NEW s \in wire, s.dst = h,
         NEW p \in DOMAIN tables[h].conns, RcvInSynSent(h, s, p)
  PROVE  HostsInv'
<1> DEFINE T == tables[h]
           conn == T.conns[p]
           pair == SockPair(h, s.src, s.destPort, s.srcPort)
           V == UpdateSockPair(T, p, pair)
           moved == V.conns[p]
           st == UpdateRcvWnd(ReadOptions(UpdateSndWnd(moved.st, s.window), s.opts))
           fsm == NextState(moved.fsm, "RCV_SYN_ACK")
           changed == [moved EXCEPT !.fsm = fsm, !.st = st]
           conns == [V.conns EXCEPT ![p] = changed]
           U == WithConns(V, conns)
<1>1. /\ TablesOK(T, nextId) /\ nextId \in Nat /\ s.src \in Host
      /\ toApp[h] \in Seq(Indications(nextId)) /\ Untold(T, toApp[h])
  BY DEF HostsInv, HostOK
<1>2. /\ p = FindConnForSegment(T, s.src, h, s.srcPort, s.destPort)
      /\ conn.fsm = "SYN_SENT" /\ up[h] /\ sockets' = sockets
  BY DEF RcvInSynSent, Arrives, appVars
<1>3. IsConnection(conn, nextId) /\ ListensOnly(conn)
  BY <1>1 DEF TablesOK
<1>4. SocketsKept
  BY <1>2 DEF SocketsKept
<1>5. /\ conn.pair.localPort = s.destPort
      /\ conn.pair = pair \/ pair \notin DOMAIN T.pairs
  <2>1. p # NoConn
    BY <1>1, AddressAssumption DEF TablesOK, IsTables
  <2> HIDE DEF T
  <2> QED
    BY <1>1, <1>2, <2>1, FoundConn DEF T
<1>6. pair.localPort = conn.pair.localPort /\ pair.remoteAddr = s.src
  BY <1>5 DEF SockPair
<1> HIDE DEF pair
<1>7. /\ TablesOK(V, nextId)
      /\ DOMAIN V.conns = DOMAIN T.conns
      /\ moved = [conn EXCEPT !.pair = pair]
      /\ \A q \in DOMAIN T.conns \ {p} : V.conns[q] = T.conns[q]
      /\ V.apps = T.apps
  BY <1>1, <1>5, <1>6, UpdatedTables
<1>8. /\ DOMAIN moved = Fields /\ moved.gate = conn.gate /\ moved.connId = conn.connId
      /\ moved.pair = pair /\ moved.fsm = conn.fsm /\ moved.timers = conn.timers
  BY <1>3, <1>7 DEF IsConnection, Fields
<1>9. CASE \E reason : Fail(reason, h)
  BY <1>4, <1>9, FailKeeps
<1>10. CASE s.kind = "SYNACK" /\ ~\E reason : Fail(reason, h)
  <2>1. /\ tables' = [tables EXCEPT ![h] =
               [V EXCEPT !.conns[p].fsm = fsm, !.conns[p].st = st]]
        /\ wire' = (wire \ {s}) \cup Sent(h, moved.pair, "FIRSTACK")
        /\ toApp' = [toApp EXCEPT ![h] = Append(@, Indication(moved, "ESTABLISHED"))]
        /\ UNCHANGED <<world, up, nextId>>
    BY <1>10 DEF RcvInSynSent, pair
  <2>2. tables' = [tables EXCEPT ![h] = U]
    <3>1. IsTables(V)
      BY <1>7 DEF TablesOK
    <3> HIDE DEF V, st, fsm
    <3>2. [V EXCEPT !.conns[p].fsm = fsm, !.conns[p].st = st] = U
      BY <3>1 DEF WithConns, IsTables
    <3> QED
      BY <2>1, <3>2
  <2>3. /\ DOMAIN changed = Fields /\ changed.gate = conn.gate /\ changed.connId = conn.connId
        /\ changed.pair = pair /\ changed.fsm = "ESTABLISHED" /\ changed.timers = conn.timers
    <3>1. fsm = "ESTABLISHED"
      BY <1>2, <1>8 DEF NextState, Moves
    <3> HIDE DEF moved, st, fsm
    <3> QED
      BY <1>8, <3>1 DEF Fields
  <2> HIDE DEF changed, V
  <2>4. IsConnection(changed, nextId) /\ ListensOnly(changed)
    BY <1>1, <1>3, <1>6, <2>3, AddressAssumption
    DEF IsConnection, ListensOnly, States, Waiting
  <2>5. /\ DOMAIN conns = DOMAIN V.conns /\ conns[p] = changed
        /\ \A q \in DOMAIN V.conns \ {p} : conns[q] = V.conns[q]
    BY <1>7
  <2> HIDE DEF conns
  <2>6. TablesOK(U, nextId) /\ U.conns = conns /\ U.apps = V.apps
    <3>1. /\ changed.gate = V.conns[p].gate /\ changed.connId = V.conns[p].connId
          /\ changed.pair = V.conns[p].pair /\ p \in DOMAIN V.conns
      BY <1>7, <1>8, <2>3
    <3>2. TablesOK(V, nextId) /\ nextId \in Nat
      BY <1>1, <1>7
    <3> QED
      BY <2>4, <2>5, <3>1, <3>2, ChangedTables
  <2> HIDE DEF U
  <2>7. /\ DOMAIN U.conns = DOMAIN T.conns /\ U.conns[p].connId = conn.connId
        /\ U.conns[p].fsm \notin Waiting /\ U.apps = T.apps
        /\ \A q \in DOMAIN U.conns \ {p} : U.conns[q] = T.conns[q]
        /\ conn.fsm # "LISTEN" /\ moved.gate \in Nat /\ moved.connId = conn.connId
        /\ "ESTABLISHED" \in Kinds
    <3>1. conn.gate \in Nat /\ conn.fsm # "LISTEN"
      BY <1>2, <1>3 DEF IsConnection
    <3>2. U.conns[p] = changed /\ U.apps = T.apps /\ DOMAIN U.conns = DOMAIN T.conns
      BY <1>7, <2>5, <2>6
    <3>3. \A q \in DOMAIN U.conns \ {p} : U.conns[q] = T.conns[q]
      BY <1>7, <2>5, <2>6
    <3>4. moved.gate \in Nat /\ moved.connId = conn.connId
      BY <1>8, <3>1
    <3>5. U.conns[p].connId = conn.connId /\ U.conns[p].fsm \notin Waiting
      BY <2>3, <3>2 DEF Waiting
    <3>6. "ESTABLISHED" \in Kinds
      BY DEF Kinds
    <3> QED
      BY <3>1, <3>2, <3>3, <3>4, <3>5, <3>6
  <2>8. \A t \in wire' : t.src \in Host /\ t.dst \in Host
    <3>1. moved.pair.remoteAddr \in Host
      BY <1>1, <1>6, <1>8
    <3> HIDE DEF moved
    <3> QED
      BY <2>1, <3>1, SentGoes DEF HostsInv
  <2>9. /\ up[h] /\ TablesOK(U, nextId)
        /\ toApp' = [toApp EXCEPT ![h] = Append(@, Indication(moved, "ESTABLISHED"))]
        /\ UNCHANGED <<world, up, nextId>>
    BY <1>2, <2>1, <2>6
  <2> HIDE DEF moved
  <2> QED
    BY <1>4, <2>2, <2>7, <2>8, <2>9, ChangeKeeps
<1>11. CASE s.kind # "SYNACK" /\ ~\E reason : Fail(reason, h)
  <2>1. \/ Perform(h, p, "RCV_RST", {}, <<"CONNECTION_RESET">>, moved.timers, moved.st,
                   toApp[h], {s}, TRUE)
        \/ Perform(h, p, "IGNORE", {}, <<>>, moved.timers, moved.st, toApp[h], {s}, TRUE)
    BY <1>11 DEF RcvInSynSent, pair
  <2>2. /\ NextState(conn.fsm, "RCV_RST") \notin Waiting
        /\ conn.pair.remoteAddr # NoHost /\ conn.fsm # "CLOSED"
    BY <1>2, <1>3 DEF NextState, Moves, ListensOnly, Waiting
  <2>3. /\ moved.timers \in SUBSET Timers /\ <<>> \in Seq(Kinds)
        /\ <<"CONNECTION_RESET">> \in Seq(Kinds)
    BY <1>3, <1>8 DEF IsConnection, Kinds
  <2> HIDE DEF moved
  <2> QED
    BY <1>1, <1>2, <1>4, <2>1, <2>2, <2>3, PerformKeeps
<1> QED
  BY <1>9, <1>10, <1>11

\* processSegment1stThru8th
LEMMA ElsewhereKeeps ==
  ASSUME HostsInv, NEW h \in Host, NEW s \in wire, NEW p \in DOMAIN tables[h].conns,
         RcvElsewhere(h, s, p)
  PROVE  HostsInv'
<1> DEFINE T == tables[h]
           conn == T.conns[p]
           o == CASE s.kind = "FIN" -> FinOutcome(conn.fsm, conn.timers)
                  [] s.kind # "FIN" /\ conn.fsm = "ESTABLISHED" ->
                        Outcome("IGNORE", <<>>, <<>>, conn.timers)
                  [] OTHER -> OtherOutcome(conn.fsm, conn.timers)
           sends == {o.sends[i] : i \in 1 .. Len(o.sends)}
<1>1. /\ TablesOK(T, nextId) /\ toApp[h] \in Seq(Indications(nextId)) /\ Untold(T, toApp[h])
  BY DEF HostsInv, HostOK
<1>2. IsConnection(conn, nextId) /\ ListensOnly(conn) /\ up[h]
  BY <1>1, ConnectedIsUp DEF TablesOK
<1>3. /\ conn.fsm \notin {"SYN_SENT", "CLOSED"}
      /\ Perform(h, p, o.event, sends, o.tells, o.timers, conn.st, toApp[h], {s}, TRUE)
      /\ SocketsKept
  BY DEF RcvElsewhere, appVars, SocketsKept
<1> HIDE DEF conn
<1>4. conn.timers \in SUBSET Timers /\ conn.fsm \in States
  BY <1>2 DEF IsConnection
<1>5. /\ o.timers \in SUBSET Timers
      /\ o.tells \in Seq(Kinds)
      /\ o.tells # <<>> => NextState(conn.fsm, o.event) \notin Waiting
      /\ conn.fsm = "LISTEN" /\ sends = {} =>
            NextState(conn.fsm, o.event) = "LISTEN" /\ o.timers = conn.timers
  <2>0. <<>> \in Seq(Kinds) /\ <<"ESTABLISHED">> \in Seq(Kinds)
    BY DEF Kinds
  <2>1. CASE s.kind = "FIN"
    <3>1. o = FinOutcome(conn.fsm, conn.timers)
      BY <2>1
    <3> HIDE DEF o
    <3>2. /\ o.timers \in SUBSET Timers /\ o.tells = <<>>
          /\ o.sends = <<"ACK">> \/ o.sends = <<"ACK", "ACK">>
      BY <1>4, <3>1 DEF FinOutcome, Outcome, Timers
    <3>3. Len(<<"ACK">>) = 1 /\ Len(<<"ACK", "ACK">>) = 2
      OBVIOUS
    <3>4. 1 \in 1 .. Len(o.sends)
      <4>1. CASE o.sends = <<"ACK">>
        BY <3>3, <4>1
      <4>2. CASE o.sends = <<"ACK", "ACK">>
        BY <3>3, <4>2
      <4> QED
        BY <3>2, <4>1, <4>2
    <3>5. sends # {}
      BY <3>4
    <3> QED
      BY <2>0, <3>2, <3>5
  <2>2. CASE s.kind # "FIN" /\ conn.fsm = "ESTABLISHED"
    <3>1. o = Outcome("IGNORE", <<>>, <<>>, conn.timers)
      BY <2>2
    <3> HIDE DEF o
    <3>2. o.timers = conn.timers /\ o.tells = <<>>
      BY <3>1 DEF Outcome
    <3> QED
      BY <1>4, <2>0, <2>2, <3>2
  <2>3. CASE s.kind # "FIN" /\ conn.fsm # "ESTABLISHED"
    <3>1. o = OtherOutcome(conn.fsm, conn.timers)
      BY <2>3
    <3> HIDE DEF o
    <3>2. o.timers \in SUBSET Timers
      BY <1>4, <3>1 DEF OtherOutcome, Outcome, Timers
    <3>3. CASE conn.fsm = "SYN_RCVD"
      <4>1. o.tells = <<"ESTABLISHED">> /\ o.event = "RCV_ACK"
        BY <3>1, <3>3 DEF OtherOutcome, Outcome
      <4>2. NextState(conn.fsm, o.event) \notin Waiting
        BY <3>3, <4>1 DEF NextState, Moves, Waiting
      <4> QED
        BY <2>0, <3>2, <3>3, <4>1, <4>2
    <3>4. CASE conn.fsm # "SYN_RCVD"
      <4>1. o.tells = <<>>
        BY <3>1, <3>4 DEF OtherOutcome, Outcome
      <4>2. conn.fsm = "LISTEN" => o.event = "IGNORE" /\ o.timers = conn.timers
        BY <3>1 DEF OtherOutcome, Outcome
      <4>3. conn.fsm = "LISTEN" => NextState(conn.fsm, "IGNORE") = "LISTEN"
        BY DEF NextState, Moves
      <4> QED
        BY <2>0, <3>2, <4>1, <4>2, <4>3
    <3> QED
      BY <3>3, <3>4
  <2> QED
    BY <2>1, <2>2, <2>3
<1> HIDE DEF o, sends
<1>6. conn.pair.remoteAddr = NoHost /\ sends = {} =>
         NextState(conn.fsm, o.event) = "LISTEN" /\ o.timers = {}
  BY <1>2, <1>5 DEF ListensOnly
<1> QED
  BY <1>1, <1>2, <1>3, <1>5, <1>6, PerformKeeps DEF conn

\* Timers run for connections that have a peer.
LEMMA TimerKeeps ==
  ASSUME HostsInv, NEW h \in Host, NEW p, TimerFires(h, p)
  PROVE  HostsInv'
<1> DEFINE T == tables[h]
           conn == T.conns[p]
<1>1. p \in DOMAIN T.conns /\ SocketsKept
  BY DEF TimerFires, appVars, SocketsKept
<1>2. /\ TablesOK(T, nextId) /\ toApp[h] \in Seq(Indications(nextId)) /\ Untold(T, toApp[h])
  BY DEF HostsInv, HostOK
<1>3. IsConnection(conn, nextId) /\ ListensOnly(conn) /\ up[h]
  BY <1>1, <1>2, ConnectedIsUp DEF TablesOK
<1>4. PICK timer, event, tells :
         /\ timer \in conn.timers
         /\ Perform(h, p, event, {}, tells, conn.timers \ {timer}, conn.st, toApp[h], {}, FALSE)
         /\ tells = <<>> \/ (tells = <<"TIMED_OUT">> /\ event = "ABORT")
  BY DEF TimerFires
<1>5. /\ conn.fsm # "CLOSED" /\ conn.pair.remoteAddr # NoHost
      /\ conn.timers \ {timer} \in SUBSET Timers
  <2>1. timer \in conn.timers
    BY <1>4
  <2> QED
    BY <1>3, <2>1 DEF IsConnection, ListensOnly
<1>6. tells \in Seq(Kinds)
  <2>1. <<>> \in Seq(Kinds) /\ <<"TIMED_OUT">> \in Seq(Kinds)
    BY DEF Kinds
  <2> QED
    BY <1>4, <2>1
<1>7. NextState(conn.fsm, "ABORT") \notin Waiting
  BY DEF NextState, Moves, Waiting
<1> HIDE DEF conn
<1>8. tells # <<>> => NextState(conn.fsm, event) \notin Waiting
  BY <1>4, <1>7
<1> DEFINE armed == conn.timers \ {timer}
<1>9. /\ Perform(h, p, event, {}, tells, armed, conn.st, toApp[h], {}, FALSE)
      /\ armed \in SUBSET Timers
  BY <1>4, <1>5
<1> HIDE DEF armed
<1> QED
  BY <1>1, <1>2, <1>3, <1>5, <1>6, <1>8, <1>9, PerformKeeps DEF conn

\* Segments that are answered or lost.
LEMMA AnswerKeeps ==
  ASSUME HostsInv, NEW s \in wire, NEW kinds, Answer(s, kinds)
  PROVE  HostsInv'
<1>1. /\ wire' = (wire \ {s}) \cup UNION {Reply(s, k) : k \in kinds}
      /\ UNCHANGED <<world, tables, up, nextId>> /\ toApp' = toApp /\ sockets' = sockets
  BY DEF Answer
<1>2. \A k : \A t \in Reply(s, k) : t.src = s.dst /\ t.dst = s.src
  BY DEF Reply, Segment
<1>3. \A t \in wire' : t.src \in Host /\ t.dst \in Host
  BY <1>1, <1>2 DEF HostsInv
<1>4. SocketsKept
  BY <1>1 DEF SocketsKept
<1> QED
  BY <1>1, <1>3, <1>4, NoHostMoves

\* An application and its host.
LEMMA AppAt ==
  ASSUME world \in Scenarios, NEW a \in DOMAIN world.apps
  PROVE  /\ a \in Host \X Nat
         /\ AppKind(a) = "client" => ~Listener(a) /\ world.apps[a].peer \in Host
         /\ AppKind(a) # "client" => Listener(a)
         /\ Listener(a) => \A b \in DOMAIN world.apps : Listener(b) /\ b[1] = a[1] => b = a
<1> DEFINE w == world
<1>1. w \in Scenarios
  OBVIOUS
<1> HIDE DEF w
<1>2. /\ DOMAIN w.apps \subseteq Host \X Nat
      /\ \A b \in DOMAIN w.apps :
            /\ w.apps[b].kind \in {"client", "sink", "echo", "threads"}
            /\ w.apps[b].kind = "client" => w.apps[b].peer \in Host
            /\ w.apps[b].kind # "client" =>
                  \A c \in DOMAIN w.apps \ {b} : c[1] = b[1] => w.apps[c].kind = "client"
  BY <1>1, ScenariosAssumption
<1> QED
  BY <1>2 DEF w, AppKind, Listener

\* A step of a client touches no server's socket.
LEMMA ClientsOwn ==
  ASSUME HostsInv, NEW a \in DOMAIN world.apps, AppKind(a) = "client", NEW socket,
         sockets' = [sockets EXCEPT ![a] = socket]
  PROVE  SocketsKept
<1>1. ~Listener(a)
  BY AppAt DEF HostsInv
<1> QED
  BY <1>1 DEF SocketsKept, HostsInv

LEMMA ConsumeKeeps ==
  ASSUME HostsInv, SocketsKept, NEW h \in Host, toApp[h] # <<>>, Consume(h)
  PROVE  HostsInv'
<1> DEFINE rest == Tail(toApp[h])
<1>1. rest \in Seq(Indications(nextId)) /\ Untold(tables[h], rest)
  BY RestOfQueue
<1>2. toApp' = [toApp EXCEPT ![h] = rest] /\ UNCHANGED <<world, tables, up, wire, nextId>>
  BY DEF Consume
<1> HIDE DEF rest
<1> QED
  BY <1>1, <1>2, QueueKeeps

\* An application that closes a connection has been told about it.
LEMMA TakeAndClose ==
  ASSUME HostsInv, SocketsKept, NEW h \in Host, toApp[h] # <<>>,
         LET i == Head(toApp[h]) IN Close(h, i.gate, i.connId, Tail(toApp[h]))
  PROVE  HostsInv'
<1> DEFINE rest == Tail(toApp[h])
           i == Head(toApp[h])
<1>1. /\ rest \in Seq(Indications(nextId)) /\ Untold(tables[h], rest)
      /\ \A p \in DOMAIN tables[h].conns : tables[h].conns[p].fsm \in Waiting =>
            i.connId # tables[h].conns[p].connId
      /\ Close(h, i.gate, i.connId, rest)
  BY RestOfQueue
<1> HIDE DEF rest, i
<1> QED
  BY <1>1, CloseKeeps

LEMMA AppKeeps ==
  ASSUME HostsInv, NEW a \in DOMAIN world.apps, NEW h, h = a[1], AppStep(h, a)
  PROVE  HostsInv'
<1>1. h \in Host
  BY AppAt DEF HostsInv
<1>2. \/ /\ AppKind(a) = "client"
         /\ sockets' = [sockets EXCEPT ![a] = ClientAfter(@, Head(toApp[h]).kind)]
      \/ UNCHANGED sockets
  BY DEF AppStep, ClientReceives, SinkReceives, EchoReceives, ThreadReceives, Receives, appVars
<1>3. SocketsKept
  BY <1>2, ClientsOwn DEF SocketsKept
<1>4. /\ toApp[h] # <<>>
      /\ \/ \E reason : Fail(reason, h)
         \/ LET i == Head(toApp[h]) IN Close(h, i.gate, i.connId, Tail(toApp[h]))
         \/ Consume(h)
  BY DEF AppStep, ClientReceives, SinkReceives, EchoReceives, ThreadReceives, Receives
<1> QED
  BY <1>1, <1>3, <1>4, FailKeeps, TakeAndClose, ConsumeKeeps

LEMMA ClientKeeps ==
  ASSUME HostsInv, NEW a \in DOMAIN world.apps, ClientConnects(a) \/ StopTimePasses(a)
  PROVE  HostsInv'
<1> DEFINE app == world.apps[a]
<1>1. AppKind(a) = "client"
  BY DEF ClientConnects, StopTimePasses
<1>2. a[1] \in Host /\ a[2] \in Nat /\ app.peer \in Host
  BY <1>1, AppAt DEF HostsInv
<1>3. CASE ClientConnects(a)
  <2>1. SocketsKept
    BY <1>1, <1>3, ClientsOwn DEF ClientConnects
  <2>2. nextId <= world.maxId /\ OpenActive(a[1], a[2], nextId, app)
    BY <1>3 DEF ClientConnects
  <2> HIDE DEF app
  <2> QED
    BY <1>2, <2>1, <2>2, OpenKeeps
<1>4. CASE StopTimePasses(a)
  <2>1. ~Listener(a)
    BY <1>1, AppAt DEF HostsInv
  <2>2. sockets' = [sockets EXCEPT ![a].over = TRUE]
    BY <1>4 DEF StopTimePasses
  <2>3. SocketsKept
    BY <2>1, <2>2 DEF SocketsKept, HostsInv
  <2>4. UNCHANGED <<world, tables, up, nextId>> /\ toApp' = toApp /\ wire' = wire
    BY <1>4 DEF StopTimePasses
  <2>5. \A s \in wire' : s.src \in Host /\ s.dst \in Host
    BY <2>4 DEF HostsInv
  <2> QED
    BY <2>3, <2>4, <2>5, NoHostMoves
<1> QED
  BY <1>3, <1>4

\* Segments.
LEMMA SegmentKeeps ==
  ASSUME HostsInv, NEW s \in wire,
         RcvSegment(s.dst, s) \/ RcvWhileDown(s) \/ LoseSegment(s)
  PROVE  HostsInv'
<1> DEFINE h == s.dst
<1>1. h \in Host
  BY DEF HostsInv
<1>2. CASE \E kinds : Answer(s, kinds)
  BY <1>2, AnswerKeeps
<1>3. ASSUME NEW p \in DOMAIN tables[h].conns, RcvInListen(h, s, p), ~\E kinds : Answer(s, kinds)
      PROVE  HostsInv'
  <2>1. /\ up[h] /\ tables[h].conns[p].fsm = "LISTEN" /\ Accept(h, s, p)
        /\ p = FindConnForSegment(tables[h], s.src, h, s.srcPort, s.destPort)
    BY <1>3 DEF RcvInListen, Arrives
  <2>2. SocketsKept
    BY <1>3 DEF RcvInListen, SocketsKept, appVars
  <2> QED
    BY <1>1, <2>1, <2>2, AcceptKeeps
<1>4. ASSUME NEW p \in DOMAIN tables[h].conns, RcvInSynSent(h, s, p)
      PROVE  HostsInv'
  BY <1>1, <1>4, SynSentKeeps
<1>5. ASSUME NEW p \in DOMAIN tables[h].conns, RcvWhileClosed(h, s, p)
      PROVE  HostsInv'
  BY <1>1, <1>5, FailKeeps DEF RcvWhileClosed, SocketsKept, appVars
<1>6. ASSUME NEW p \in DOMAIN tables[h].conns, RcvElsewhere(h, s, p)
      PROVE  HostsInv'
  BY <1>1, <1>6, ElsewhereKeeps
<1> QED
  BY <1>2, <1>3, <1>4, <1>5, <1>6 DEF RcvSegment, RcvUnknown, RcvWhileDown, LoseSegment

----------------------------------------------------------------------------
(* Listeners are opened in tables that are empty. *)

LEMMA ListenOpens ==
  ASSUME world \in Scenarios, NEW a \in DOMAIN world.apps, Listener(a),
         NEW id \in Nat \ {0}, id <= world.maxId
  PROVE  LET U == Listen(Empty, a, id)
         IN  TablesOK(U, id + 1) /\ Listens(U, a[2], id, world.apps[a].port)
<1> DEFINE p == FreshPointer(Empty)
           port == world.apps[a].port
           pair == Listening(NoHost, port)
           st == Configure(Unconfigured, world.par[a[1]])
           conn == Connection(a[2], id, Closed, "LISTEN", {}, st)
           U == Listen(Empty, a, id)
<1>1. a[2] \in Nat /\ port \notin Ephemeral
  <2>1. AppKind(a) # "client" /\ a[2] \in Nat
    BY AppAt DEF Listener
  <2> QED
    BY <2>1, ScenariosAssumption DEF AppKind
<1> HIDE DEF st, port
<1>2. /\ TablesOK(Empty, id) /\ TablesOK(Empty, id + 1)
      /\ DOMAIN Empty.conns = {} /\ DOMAIN Empty.pairs = {}
  BY EmptyTables
<1>3. p \in Pointer \ DOMAIN Empty.conns
  BY <1>2, RoomForConnection
<1>4. /\ DOMAIN conn = Fields /\ conn.gate = a[2] /\ conn.connId = id
      /\ DOMAIN WithPair(conn, pair) = Fields /\ WithPair(conn, pair).gate = a[2]
      /\ WithPair(conn, pair).connId = id /\ WithPair(conn, pair).fsm = "LISTEN"
      /\ WithPair(conn, pair).timers = {} /\ WithPair(conn, pair).pair = pair
  BY DEF Connection, Fields, WithPair
<1>5. pair.remoteAddr = NoHost /\ pair.localPort = port
  BY DEF Listening, SockPair
<1>6. U = AddSockPair(CreateConnection(Empty, p, conn), p, pair)
  BY DEF Listen, st, port
<1> HIDE DEF U, p, conn, pair
<1>7. IsConnection(WithPair(conn, pair), id + 1)
  BY <1>1, <1>4, <1>5 DEF IsConnection, States, Timers
<1>8. ListensOnly(WithPair(conn, pair))
  BY <1>1, <1>4, <1>5 DEF ListensOnly
<1>9. pair \notin DOMAIN Empty.pairs /\ pair.localPort \notin Ephemeral
      /\ \A q \in DOMAIN Empty.conns : Empty.conns[q].connId # conn.connId
  BY <1>1, <1>2, <1>5
<1>10. id + 1 \in Nat
  OBVIOUS
<1>11. /\ TablesOK(U, id + 1)
       /\ U.conns[p] = WithPair(conn, pair)
       /\ U.apps = Put(Empty.apps, <<conn.gate, conn.connId>>, p)
  BY <1>2, <1>3, <1>4, <1>6, <1>7, <1>8, <1>9, <1>10, AddedTables
<1>12. Listens(U, a[2], id, port)
  BY <1>4, <1>11 DEF Listens, Put, pair
<1> QED
  BY <1>11, <1>12 DEF U, port

\* Nothing is on its way to the applications of a host that has just started.
LEMMA QuietHost ==
  ASSUME NEW T, NEW next \in Nat, TablesOK(T, next), NEW queue, queue = <<>>,
         NEW isUp, isUp
  PROVE  HostOK(T, queue, isUp, next)
<1>1. <<>> \in Seq(Indications(next)) /\ Untold(T, <<>>)
  BY DEF Untold
<1> QED
  BY <1>1 DEF HostOK

\* Every host starts with the listener of its server, if it has one.
LEMMA InitKeeps ==
  ASSUME Init
  PROVE  HostsInv
<1> DEFINE n == Cardinality(DOMAIN world.apps)
<1>1. world \in Scenarios /\ nextId = n + 1
  BY DEF Init
<1>2. /\ n \in Nat /\ n <= world.maxId /\ world.maxId \in Nat
      /\ \A a \in DOMAIN world.apps : world.apps[a].id \in 1 .. n
  <2>1. /\ IsFiniteSet(DOMAIN world.apps) /\ n <= world.maxId /\ world.maxId \in Nat
        /\ \A a \in DOMAIN world.apps : world.apps[a].id \in 1 .. n
    BY <1>1, ScenariosAssumption
  <2> QED
    BY <2>1, FS_CardinalityType
<1> HIDE DEF n
<1>3. ASSUME NEW h \in Host
      PROVE  /\ TablesOK(tables[h], nextId)
             /\ \A a \in DOMAIN world.apps : Listener(a) /\ a[1] = h => HasListener(a)
  <2> DEFINE listeners == {a \in AppsOf(h) : Listener(a)}
             it == CHOOSE a \in listeners : TRUE
  <2>1. tables[h] = IF listeners = {} THEN Empty ELSE Listen(Empty, it, world.apps[it].id)
    BY <1>3 DEF Init
  <2>2. \A a \in DOMAIN world.apps : Listener(a) /\ a[1] = h => a \in listeners
    BY DEF AppsOf
  <2>3. CASE listeners = {}
    <3>1. nextId \in Nat /\ tables[h] = Empty
      BY <1>1, <1>2, <2>1, <2>3
    <3> QED
      BY <2>2, <2>3, <3>1, EmptyTables
  <2>4. CASE listeners # {}
    <3>1. it \in listeners
      BY <2>4
    <3>2. it \in DOMAIN world.apps /\ Listener(it) /\ it[1] = h
      BY <3>1 DEF AppsOf
    <3> HIDE DEF listeners, it
    <3> DEFINE id == world.apps[it].id
    <3>3. id \in 1 .. n
      BY <1>2, <3>2
    <3>4. sockets[it].connId = id
      BY <3>2 DEF Init, ListeningSocket, ListenOn, BindSocket, RenewSocket
    <3>5. tables[h] = Listen(Empty, it, id)
      BY <2>1, <2>4
    <3> HIDE DEF id
    <3>6. id \in Nat \ {0} /\ id <= world.maxId /\ id + 1 \in Nat /\ id + 1 <= nextId
          /\ nextId \in Nat
      BY <1>1, <1>2, <3>3
    <3>7. TablesOK(tables[h], id + 1) /\ Listens(tables[h], it[2], id, world.apps[it].port)
      BY <1>1, <3>2, <3>5, <3>6, ListenOpens
    <3>8. TablesOK(tables[h], nextId)
      BY <3>6, <3>7, LaterTables
    <3>9. \A a \in DOMAIN world.apps : Listener(a) /\ a[1] = h => a = it
      BY <1>1, <3>2, AppAt
    <3> QED
      BY <3>2, <3>4, <3>7, <3>8, <3>9 DEF HasListener
  <2> QED
    BY <2>3, <2>4
<1>4. /\ tables = [h \in Host |-> tables[h]] /\ up \in [Host -> BOOLEAN]
      /\ toApp = [h \in Host |-> toApp[h]] /\ DOMAIN sockets = DOMAIN world.apps
      /\ wire = {}
      /\ \A h \in Host : up[h] = TRUE /\ toApp[h] = <<>>
  BY DEF Init
<1>5. nextId \in Nat \ {0}
  BY <1>1, <1>2
<1>6. \A h \in Host : HostOK(tables[h], toApp[h], up[h], nextId)
  BY <1>3, <1>4, <1>5, QuietHost
<1>7. \A a \in DOMAIN world.apps : a[1] \in Host
  BY <1>1, AppAt
<1> QED
  BY <1>1, <1>3, <1>4, <1>5, <1>6, <1>7 DEF HostsInv

----------------------------------------------------------------------------
(* Lifecycle operations. *)

\* The sockets of another host's servers stay, and here too but when a host starts.
OthersKept(h) ==
    /\ DOMAIN sockets' = DOMAIN sockets
    /\ \A a \in DOMAIN world.apps : Listener(a) /\ a[1] # h =>
          sockets'[a].connId = sockets[a].connId

LEMMA RefusalKeeps ==
  ASSUME HostsInv, NEW reason, NEW h, RefuseOperation(reason, h), world' = world
  PROVE  HostsInv'
<1>1. /\ UNCHANGED <<world, tables, up, nextId>> /\ toApp' = toApp /\ wire' = wire
      /\ SocketsKept
  BY DEF RefuseOperation, SocketsKept
<1>2. \A s \in wire' : s.src \in Host /\ s.dst \in Host
  BY <1>1 DEF HostsInv
<1> QED
  BY <1>1, <1>2, NoHostMoves

\* The tables of a host that goes down are reset.
LEMMA DownKeeps ==
  ASSUME HostsInv, NEW h \in Host, GoesDown(h), world' = world, OthersKept(h)
  PROVE  HostsInv'
<1>1. /\ nextId' = nextId /\ wire' = wire /\ nextId \in Nat
      /\ toApp' = [toApp EXCEPT ![h] = toApp[h]]
      /\ tables' = [tables EXCEPT ![h] = Empty] /\ up' = [up EXCEPT ![h] = FALSE]
  BY DEF GoesDown, HostsInv
<1>2. HostOK(Empty, toApp[h], FALSE, nextId)
  <2>1. toApp[h] \in Seq(Indications(nextId))
    BY DEF HostsInv, HostOK
  <2>2. TablesOK(Empty, nextId) /\ DOMAIN Empty.conns = {}
    BY <1>1, EmptyTables
  <2> QED
    BY <2>1, <2>2 DEF HostOK, Untold
<1>3. nextId' \in Nat /\ nextId <= nextId'
  BY <1>1
<1>4. HostOK(Empty, toApp[h], FALSE, nextId')
  BY <1>1, <1>2, <1>3, LaterHost
<1>5. \A s \in wire' : s.src \in Host /\ s.dst \in Host
  BY <1>1 DEF HostsInv
<1> QED
  BY <1>1, <1>3, <1>4, <1>5, OneHost DEF OthersKept

LEMMA CrashKeeps ==
  ASSUME HostsInv, NEW h \in Host, Crash(h) \/ Shutdown(h)
  PROVE  HostsInv'
<1>1. world' = world /\ DOMAIN sockets = DOMAIN world.apps
  BY DEF Crash, Shutdown, Operates, HostsInv
<1>2. CASE \E reason : RefuseOperation(reason, h)
  BY <1>1, <1>2, RefusalKeeps
<1>3. CASE ~\E reason : RefuseOperation(reason, h)
  <2>1. GoesDown(h)
    BY <1>3 DEF Crash, Shutdown
  <2>2. /\ DOMAIN sockets' = DOMAIN sockets
        /\ \A a \in DOMAIN sockets : a[1] # h => sockets'[a] = sockets[a]
    BY <1>1, <1>3 DEF Crash, Shutdown, ClientsOf, AppsOf
  <2>3. OthersKept(h)
    BY <1>1, <2>2 DEF OthersKept
  <2> QED
    BY <1>1, <2>1, <2>3, DownKeeps
<1> QED
  BY <1>2, <1>3

LEMMA UpKeeps ==
  ASSUME HostsInv, NEW h \in Host, NEW T, NEW quiet, quiet = <<>>, NEW on \in BOOLEAN, on,
         world' = world, nextId' \in Nat, nextId <= nextId', TablesOK(T, nextId'),
         tables' = [tables EXCEPT ![h] = T],
         toApp' = [toApp EXCEPT ![h] = quiet],
         up' = [up EXCEPT ![h] = on],
         \A s \in wire' : s.src \in Host /\ s.dst \in Host,
         OthersKept(h),
         \A a \in DOMAIN world.apps : Listener(a) /\ a[1] = h =>
            Listens(T, a[2], sockets'[a].connId, world.apps[a].port)
  PROVE  HostsInv'
<1>1. HostOK(T, quiet, on, nextId')
  BY QuietHost
<1>2. \A a \in DOMAIN world.apps : Listener(a) /\ a[1] = h /\ on =>
         Listens(T, a[2], sockets'[a].connId, world.apps[a].port)
  OBVIOUS
<1> QED
  BY <1>1, <1>2, OneHost DEF OthersKept

\* A host that starts opens the listener of its server, with a new id.
LEMMA StartKeeps ==
  ASSUME HostsInv, NEW h \in Host, Start(h)
  PROVE  HostsInv'
<1> DEFINE listeners == AppsOf(h) \ ClientsOf(h)
           it == CHOOSE a \in listeners : TRUE
<1>1. /\ world' = world /\ DOMAIN sockets = DOMAIN world.apps /\ ~up[h] /\ toApp[h] = <<>>
      /\ nextId \in Nat \ {0} /\ world \in Scenarios
      /\ listeners # {} => nextId <= world.maxId
  BY DEF Start, Operates, HostsInv
<1>2. CASE \E reason : RefuseOperation(reason, h)
  BY <1>1, <1>2, RefusalKeeps
<1>3. CASE ~\E reason : RefuseOperation(reason, h)
  <2> DEFINE on == TRUE
             quiet == toApp[h]
  <2>1. /\ up' = [up EXCEPT ![h] = on]
        /\ nextId' = nextId + Cardinality(listeners)
        /\ tables' = [tables EXCEPT ![h] = IF listeners = {} THEN @ ELSE Listen(@, it, nextId)]
        /\ sockets' = [a \in DOMAIN sockets |->
                         CASE a \in ClientsOf(h) -> ClientStarted(sockets[a])
                           [] a \in listeners -> ListeningSocket(nextId)
                           [] OTHER -> sockets[a]]
    BY <1>3 DEF Start
  <2>2. tables[h] = Empty
    BY <1>1 DEF HostsInv, HostOK
  <2>3. /\ \A a \in DOMAIN world.apps : a \in listeners <=> Listener(a) /\ a[1] = h
        /\ listeners \in SUBSET DOMAIN world.apps
    BY <1>1, AppAt DEF ClientsOf, AppsOf
  <2>4. OthersKept(h)
    BY <1>1, <2>1 DEF OthersKept, ClientsOf, AppsOf
  <2>5. \A a \in listeners : sockets'[a].connId = nextId
    <3>1. ASSUME NEW a \in listeners
          PROVE  sockets'[a] = ListeningSocket(nextId)
      BY <1>1, <2>1, <2>3
    <3>2. ListeningSocket(nextId).connId = nextId
      BY DEF ListeningSocket, ListenOn, BindSocket, RenewSocket
    <3> QED
      BY <3>1, <3>2
  <2>6. on \in BOOLEAN /\ on /\ quiet = <<>>
    BY <1>1
  <2>7. toApp' = [toApp EXCEPT ![h] = quiet]
    BY <1>3 DEF Start, HostsInv
  <2>8. \A s \in wire' : s.src \in Host /\ s.dst \in Host
    BY <1>3 DEF Start, HostsInv
  <2> HIDE DEF on, quiet
  <2>9. CASE listeners = {}
    <3>1. Cardinality(listeners) = 0
      BY <2>9, FS_EmptySet
    <3>2. nextId' = nextId /\ nextId' \in Nat /\ nextId <= nextId'
      BY <1>1, <2>1, <3>1
    <3>3. tables' = [tables EXCEPT ![h] = Empty]
      BY <2>1, <2>2, <2>9
    <3>4. TablesOK(Empty, nextId')
      BY <3>2, EmptyTables
    <3>5. \A a \in DOMAIN world.apps : ~(Listener(a) /\ a[1] = h)
      BY <2>3, <2>9
    <3> HIDE DEF listeners
    <3> QED
      BY <1>1, <2>1, <2>4, <2>6, <2>7, <2>8, <3>2, <3>3, <3>4, <3>5, UpKeeps
  <2>10. CASE listeners # {}
    <3>1. it \in listeners
      BY <2>10
    <3>2. it \in DOMAIN world.apps /\ Listener(it) /\ it[1] = h
      BY <2>3, <3>1
    <3>3. listeners = {it}
      BY <1>1, <2>3, <3>1, <3>2, AppAt
    <3> HIDE DEF listeners, it
    <3>4. Cardinality(listeners) = 1
      BY <3>3, FS_Singleton
    <3>5. nextId' = nextId + 1 /\ nextId' \in Nat /\ nextId <= nextId'
      BY <1>1, <2>1, <3>4
    <3> DEFINE U == Listen(Empty, it, nextId)
    <3>6. tables' = [tables EXCEPT ![h] = U]
      BY <2>1, <2>2, <2>10
    <3>7. TablesOK(U, nextId + 1) /\ Listens(U, it[2], nextId, world.apps[it].port)
      BY <1>1, <2>10, <3>2, ListenOpens
    <3> HIDE DEF U
    <3>8. TablesOK(U, nextId')
      BY <3>5, <3>7
    <3>9. \A a \in DOMAIN world.apps : Listener(a) /\ a[1] = h =>
             Listens(U, a[2], sockets'[a].connId, world.apps[a].port)
      BY <2>3, <2>5, <3>3, <3>7
    <3> QED
      BY <1>1, <2>1, <2>4, <2>6, <2>7, <2>8, <3>5, <3>6, <3>8, <3>9, UpKeeps
  <2> QED
    BY <2>9, <2>10
<1> QED
  BY <1>2, <1>3

----------------------------------------------------------------------------
(* The theorems. *)

LEMMA NextKeeps ==
  ASSUME HostsInv, [Next]_vars
  PROVE  HostsInv'
<1>1. ASSUME NEW a \in DOMAIN world.apps,
             ClientConnects(a) \/ StopTimePasses(a) \/ AppStep(a[1], a)
      PROVE  HostsInv'
  BY <1>1, ClientKeeps, AppKeeps
<1>2. ASSUME NEW s \in wire, RcvSegment(s.dst, s) \/ RcvWhileDown(s) \/ LoseSegment(s)
      PROVE  HostsInv'
  BY <1>2, SegmentKeeps
<1>3. ASSUME NEW h \in Host, Crash(h) \/ Shutdown(h)
      PROVE  HostsInv'
  BY <1>3, CrashKeeps
<1>4. ASSUME NEW h \in Host, Start(h)
      PROVE  HostsInv'
  BY <1>4, StartKeeps
<1>5. ASSUME NEW h \in Host, NEW p \in Pointer, LastSymbol(h, p) \/ TimerFires(h, p)
      PROVE  HostsInv'
  BY <1>5, LastSymbolKeeps, TimerKeeps
<1>6. CASE UNCHANGED vars
  <2>1. UNCHANGED <<world, tables, up, nextId>> /\ toApp' = toApp /\ wire' = wire
        /\ SocketsKept
    BY <1>6 DEF vars, SocketsKept
  <2>2. \A s \in wire' : s.src \in Host /\ s.dst \in Host
    BY <2>1 DEF HostsInv
  <2> QED
    BY <2>1, <2>2, NoHostMoves
<1> QED
  BY <1>1, <1>2, <1>3, <1>4, <1>5, <1>6 DEF Next

LEMMA HostsHold == Spec => []HostsInv
<1>1. Init => HostsInv
  BY InitKeeps
<1>2. HostsInv /\ [Next]_vars => HostsInv'
  BY NextKeeps
<1> QED
  BY <1>1, <1>2, PTL DEF Spec

\* Through forks, removals, timeouts, resets, crashes and restarts rqAppConnMap, rqConnMap
\* and usedEphemeralPorts describe the connections of their host, and nothing else.
THEOREM TablesHold == Spec => []TablesAgree
<1>1. ASSUME NEW T, NEW next, TablesOK(T, next)
      PROVE  Agree(T)
  <2>1. AppsAgree(T) /\ PairsAgree(T) /\ PortsAgree(T)
    BY <1>1 DEF TablesOK
  <2>2. \A p \in DOMAIN T.conns :
           /\ FindConnForApp(T, T.conns[p].gate, T.conns[p].connId) = p
           /\ InUse(T, T.conns[p].pair) /\ T.pairs[T.conns[p].pair] = p
    BY <2>1 DEF AppsAgree, PairsAgree, FindConnForApp, InUse
  <2> QED
    BY <2>1, <2>2 DEF AppsAgree, PairsAgree, PortsAgree, Users, Agree
<1>2. HostsInv => TablesAgree
  BY <1>1 DEF HostsInv, HostOK, TablesAgree
<1> QED
  BY <1>2, HostsHold, PTL

LEMMA PortsAreApart ==
  ASSUME HostsInv
  PROVE  PortsApart
<1>1. ASSUME NEW h \in Host,
             NEW p \in DOMAIN tables[h].conns, NEW q \in DOMAIN tables[h].conns, p # q,
             tables[h].conns[p].pair.localPort = tables[h].conns[q].pair.localPort,
             tables[h].conns[p].pair.localPort \in Ephemeral
      PROVE  FALSE
  <2> DEFINE T == tables[h]
             port == T.conns[p].pair.localPort
             users == Users(T, port)
  <2>1. /\ IsTables(T) /\ T.ports[port] = Cardinality(users) /\ T.ports[port] <= 1
    BY <1>1 DEF HostsInv, HostOK, TablesOK, PortsAgree
  <2>2. p \in users /\ q \in users
    BY <1>1 DEF Users
  <2>3. IsFiniteSet(users) /\ Cardinality(users) \in Nat
    BY <2>1, UsersFinite
  <2> HIDE DEF users, port
  <2>4. IsFiniteSet({p}) /\ Cardinality({p}) = 1
    BY FS_Singleton
  <2> DEFINE one == {p}
  <2>5. Cardinality({p} \cup {q}) = 2 /\ {p} \cup {q} \in SUBSET users
    <3>1. q \notin one /\ IsFiniteSet(one) /\ Cardinality(one) = 1
      BY <1>1, <2>4
    <3> HIDE DEF one
    <3>2. Cardinality(one \cup {q}) = Cardinality(one) + 1
      BY <3>1, FS_AddElement
    <3>3. Cardinality(one \cup {q}) = 2
      BY <3>1, <3>2
    <3> QED
      BY <2>2, <3>3 DEF one
  <2>6. Cardinality({p} \cup {q}) <= Cardinality(users)
    BY <2>3, <2>5, FS_Subset
  <2> QED
    BY <2>1, <2>3, <2>5, <2>6
<1> QED
  BY <1>1 DEF PortsApart

\* getEphemeralPort gives each connection of a host a port of its own.
THEOREM PortsHold == Spec => []PortsApart
BY PortsAreApart, HostsHold, PTL

\* A server that is up has its listener under the id of its socket, however often it has
\* been forked, and every caller the host does not know reaches a listener.
THEOREM ListenerHolds == Spec => []ListenerKept
<1>1. ASSUME HostsInv, NEW a \in DOMAIN world.apps, Listener(a), up[a[1]]
      PROVE  LET T == tables[a[1]]
                 p == FindConnForApp(T, a[2], sockets[a].connId)
             IN  /\ p # NoConn
                 /\ T.conns[p].fsm = "LISTEN"
                 /\ T.conns[p].pair = Listening(NoHost, world.apps[a].port)
                 /\ \A h \in Host, port \in Ephemeral :
                       LET q == FindConnForSegment(T, h, a[1], port, world.apps[a].port)
                       IN  T.conns[q].pair.remoteAddr # h => T.conns[q].fsm = "LISTEN"
  <2> DEFINE T == tables[a[1]]
             key == <<a[2], sockets[a].connId>>
             p == T.apps[key]
             listens == world.apps[a].port
  <2>1. a[1] \in Host /\ HasListener(a)
    BY <1>1, AppAt DEF HostsInv
  <2>2. TablesOK(T, nextId) /\ nextId \in Nat
    BY <1>1, <2>1 DEF HostsInv, HostOK
  <2>3. key \in DOMAIN T.apps /\ T.conns[p].pair = Listening(NoHost, listens)
    BY <2>1 DEF HasListener, Listens
  <2>4. FindConnForApp(T, a[2], sockets[a].connId) = p
    BY <2>3 DEF FindConnForApp
  <2> HIDE DEF T, key, listens
  <2>5. p \in DOMAIN T.conns /\ p \in Pointer
    BY <2>2, <2>3 DEF TablesOK, AppsAgree, IsTables
  <2>6. T.conns[p].pair.remoteAddr = NoHost
    BY <2>3 DEF Listening, SockPair
  <2>7. T.conns[p].fsm = "LISTEN" /\ p # NoConn
    BY <2>2, <2>5, <2>6, AddressAssumption DEF TablesOK, ListensOnly
  <2> HIDE DEF p
  <2>8. \A h \in Host, port \in Ephemeral :
           LET q == FindConnForSegment(T, h, a[1], port, listens)
           IN  T.conns[q].pair.remoteAddr # h => T.conns[q].fsm = "LISTEN"
    BY <2>1, <2>2, <2>3, <2>5, ListenerReached
  <2> QED
    BY <2>3, <2>4, <2>7, <2>8 DEF T, listens
<1>2. HostsInv => ListenerKept
  BY <1>1 DEF ListenerKept
<1> QED
  BY <1>2, HostsHold, PTL

=============================================================================
