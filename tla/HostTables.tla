----------------------------- MODULE HostTables -----------------------------
(***************************************************************************)
(* The tables of a RaptorQ module, which carry all connections of a host:  *)
(*                                                                         *)
(*   conns  the RQConnection objects, by pointer                           *)
(*   apps   rqAppConnMap: application gate and connection id to pointer    *)
(*   pairs  rqConnMap: socket pair to pointer                              *)
(*   ports  usedEphemeralPorts, a multiset                                 *)
(*   lastPort  lastEphemeralPort                                           *)
(*                                                                         *)
(* A connection is a record with at least gate, connId and pair (its own   *)
(* localAddr, remoteAddr, localPort and remotePort).                       *)
(***************************************************************************)
EXTENDS Integers, FiniteSets

CONSTANTS
    Host,
    Pointer,     \* where connections live; large enough for those alive at once
    NoHost,      \* the unspecified address
    NoConn,      \* the null pointer
    EPHEMERAL_PORTRANGE_START,
    EPHEMERAL_PORTRANGE_END

ASSUME AddressAssumption == NoHost \notin Host /\ NoConn \notin Pointer
ASSUME PortAssumption ==
    /\ EPHEMERAL_PORTRANGE_START \in Nat
    /\ EPHEMERAL_PORTRANGE_END \in Nat
    /\ EPHEMERAL_PORTRANGE_START < EPHEMERAL_PORTRANGE_END

Ephemeral == EPHEMERAL_PORTRANGE_START .. EPHEMERAL_PORTRANGE_END - 1

\* A finite map with k at v, and without k.
Put(f, k, v) == [x \in DOMAIN f \cup {k} |-> IF x = k THEN v ELSE f[x]]
Drop(f, k) == [x \in DOMAIN f \ {k} |-> f[x]]

SockPair(localAddr, remoteAddr, localPort, remotePort) ==
    [localAddr |-> localAddr, remoteAddr |-> remoteAddr,
     localPort |-> localPort, remotePort |-> remotePort]

\* The key of a listener, and the addresses of a connection that is not open.
Listening(localAddr, localPort) == SockPair(localAddr, NoHost, localPort, -1)
Closed == SockPair(NoHost, NoHost, -1, -1)

\* reset
Empty ==
    [conns |-> <<>>, apps |-> <<>>, pairs |-> <<>>,
     ports |-> [port \in Ephemeral |-> 0],
     lastPort |-> EPHEMERAL_PORTRANGE_START]

FreshPointer(T) == CHOOSE p \in Pointer : p \notin DOMAIN T.conns

----------------------------------------------------------------------------
FindConnForApp(T, gate, connId) ==
    IF <<gate, connId>> \in DOMAIN T.apps THEN T.apps[<<gate, connId>>] ELSE NoConn

\* Fully qualified first, then without the local address, then the listeners.
FindConnForSegment(T, srcAddr, destAddr, srcPort, destPort) ==
    LET keys == << SockPair(destAddr, srcAddr, destPort, srcPort),
                   SockPair(NoHost, srcAddr, destPort, srcPort),
                   Listening(destAddr, destPort),
                   Listening(NoHost, destPort) >>
        found == {i \in 1 .. 4 : keys[i] \in DOMAIN T.pairs}
    IN  IF found = {} THEN NoConn
        ELSE T.pairs[keys[CHOOSE i \in found : \A j \in found : i <= j]]

----------------------------------------------------------------------------
\* The k-th port of getEphemeralPort's search, which wraps.
NthPort(T, k) ==
    EPHEMERAL_PORTRANGE_START
        + ((T.lastPort - EPHEMERAL_PORTRANGE_START + k) % Cardinality(Ephemeral))

\* Wrong: ports in use are not skipped.
AnyPorts(T) == 1 .. Cardinality(Ephemeral)

FreePorts(T) == {k \in 1 .. Cardinality(Ephemeral) : T.ports[NthPort(T, k)] = 0}

Exhausted(T) == FreePorts(T) = {}

GetEphemeralPort(T) ==
    NthPort(T, CHOOSE k \in FreePorts(T) : \A l \in FreePorts(T) : k <= l)

----------------------------------------------------------------------------
\* createConnection, with the entry handleMessage makes for it.
CreateConnection(T, p, conn) ==
    [T EXCEPT !.conns = Put(@, p, conn),
              !.apps = Put(@, <<conn.gate, conn.connId>>, p)]

\* addSockPair's complaint.
InUse(T, pair) == pair \in DOMAIN T.pairs

AddSockPair(T, p, pair) ==
    [T EXCEPT !.conns = Put(@, p, [@[p] EXCEPT !.pair = pair]),
              !.pairs = Put(@, pair, p),
              !.ports = [port \in Ephemeral |-> @[port] + (IF port = pair.localPort THEN 1 ELSE 0)]]

\* Wrong: the old entry stays.
UpdateSockPairKept(T, p, pair) ==
    [T EXCEPT !.conns = Put(@, p, [@[p] EXCEPT !.pair = pair]),
              !.pairs = Put(@, pair, p)]

UpdateSockPair(T, p, pair) ==
    [T EXCEPT !.conns = Put(@, p, [@[p] EXCEPT !.pair = pair]),
              !.pairs = Put(Drop(@, T.conns[p].pair), pair, p)]

\* Wrong: the spun-off connection keeps the id and the clone gets the new one.
AddForkedKeepsId(T, p, pair, newId, q, newConn) ==
    AddSockPair(CreateConnection(UpdateSockPair(T, p, pair), q, [newConn EXCEPT !.connId = newId]),
                q, newConn.pair)

\* addForkedConnection: conn becomes the spun-off connection and gets a new id, newConn, a
\* clone at q, goes on listening with the old one.
AddForkedConnection(T, p, pair, newId, q, newConn) ==
    LET conn == T.conns[p]
        moved == AddSockPair(CreateConnection(UpdateSockPair(T, p, pair), q, newConn), q,
                             newConn.pair)
    IN  [moved EXCEPT !.conns = Put(@, p, [@[p] EXCEPT !.connId = newId]),
                      !.apps = Put(@, <<conn.gate, newId>>, p)]

\* Wrong: the port stays in use.
RemoveKeepsPort(T, p) ==
    LET conn == T.conns[p]
    IN  [T EXCEPT !.conns = Drop(@, p),
                  !.apps = Drop(@, <<conn.gate, conn.connId>>),
                  !.pairs = Drop(@, conn.pair)]

RemoveConnection(T, p) ==
    LET conn == T.conns[p]
    IN  [T EXCEPT !.conns = Drop(@, p),
                  !.apps = Drop(@, <<conn.gate, conn.connId>>),
                  !.pairs = Drop(@, conn.pair),
                  !.ports = [port \in Ephemeral |->
                      IF port = conn.pair.localPort /\ @[port] > 0 THEN @[port] - 1 ELSE @[port]]]

----------------------------------------------------------------------------
\* Both maps and the port set tell the truth about every connection, and nothing else: an
\* entry that outlives its connection would be a dangling pointer.
Agree(T) ==
    /\ \A key \in DOMAIN T.apps :
          /\ T.apps[key] \in DOMAIN T.conns
          /\ key = <<T.conns[T.apps[key]].gate, T.conns[T.apps[key]].connId>>
    /\ \A pair \in DOMAIN T.pairs :
          /\ T.pairs[pair] \in DOMAIN T.conns
          /\ pair = T.conns[T.pairs[pair]].pair
    /\ \A p \in DOMAIN T.conns :
          LET conn == T.conns[p]
          IN  /\ FindConnForApp(T, conn.gate, conn.connId) = p
              /\ conn.pair # Closed => InUse(T, conn.pair) /\ T.pairs[conn.pair] = p
    /\ \A port \in Ephemeral :
          T.ports[port] = Cardinality({p \in DOMAIN T.conns : T.conns[p].pair.localPort = port})

=============================================================================
