------------------------ MODULE UndisturbedCalls_proofs ------------------------
(***************************************************************************)
(* Calls that nothing disturbs: while no host has restarted and no client  *)
(* uses a port twice, every SYN is answered, nobody closes a connection    *)
(* that is gone, and no client is told a window of 0.                      *)
(*                                                                         *)
(* A call is what a client has to do with its server from one of its       *)
(* ports: the connections at both ends and the segments between them.      *)
(* The invariant says which states, together, a call can be in, and that   *)
(* every connection and every segment belongs to one call at most, so that *)
(* a step moves one call and leaves the others alone.                      *)
(***************************************************************************)
EXTENDS HostCalls_proofs

Clients == {a \in DOMAIN world.apps : AppKind(a) = "client"}

Peer(a) == world.apps[a].peer
PeerPort(a) == world.apps[a].port

\* Somebody listens at a port of host h.
Serves(h, port) ==
    \E b \in DOMAIN world.apps : Listener(b) /\ b[1] = h /\ world.apps[b].port = port

Served(a) == Serves(Peer(a), PeerPort(a))

----------------------------------------------------------------------------
(* The call of client a from a port. *)

\* The socket pairs of its ends: a client does not know its own address at first.
ClientKeys(a, port) ==
    {SockPair(NoHost, Peer(a), port, PeerPort(a)), SockPair(a[1], Peer(a), port, PeerPort(a))}
ServerKeys(a, port) == {SockPair(Peer(a), a[1], PeerPort(a), port)}

InCall(a, port, h, pair) ==
    \/ h = a[1] /\ pair \in ClientKeys(a, port)
    \/ h = Peer(a) /\ pair \in ServerKeys(a, port)

\* Segments, to the server and to the client.
Upward(a, port, s) ==
    s.src = a[1] /\ s.srcPort = port /\ s.dst = Peer(a) /\ s.destPort = PeerPort(a)
Downward(a, port, s) ==
    s.src = Peer(a) /\ s.srcPort = PeerPort(a) /\ s.dst = a[1] /\ s.destPort = port

Carries(a, port, s) == Upward(a, port, s) \/ Downward(a, port, s)

\* The states of the connections with some keys, one at most, and the kinds of segments on
\* their way.
StatesAt(C, keys) == {C[p].fsm : p \in {q \in DOMAIN C : C[q].pair \in keys}}
KindsUp(a, port, net) == {s.kind : s \in {t \in net : Upward(a, port, t)}}
KindsDown(a, port, net) == {s.kind : s \in {t \in net : Downward(a, port, t)}}

Call(a, port) ==
    [client |-> StatesAt(tables[a[1]].conns, ClientKeys(a, port)),
     server |-> StatesAt(tables[Peer(a)].conns, ServerKeys(a, port)),
     up |-> KindsUp(a, port, wire),
     down |-> KindsDown(a, port, wire)]

\* The phases of a call: the SYN is out; it is answered, in time or not; the client is
\* established; both are; the server has closed; the client has, or is gone.  A server that
\* gave up waiting for the third segment listens, and resets whoever sends it.
Calling(k) == k.client = {"SYN_SENT"} /\ k.server = {} /\ k.up \subseteq {"SYN"} /\ k.down = {}
Answered(k) ==
    /\ k.client = {"SYN_SENT"} /\ k.server \in {{"SYN_RCVD"}, {"LISTEN"}}
    /\ k.up = {} /\ k.down \subseteq {"SYNACK"}
Opening(k) ==
    /\ k.client = {"ESTABLISHED"} /\ k.up \subseteq {"FIRSTACK"}
    /\ \/ k.server = {"SYN_RCVD"} /\ k.down = {}
       \/ k.server = {"LISTEN"} /\ k.down \subseteq {"RST"}
Opened(k) ==
    k.client = {"ESTABLISHED"} /\ k.server = {"ESTABLISHED"} /\ k.up = {} /\ k.down = {}
Ending(k) ==
    /\ k.client \in {{"ESTABLISHED"}, {"CLOSE_WAIT"}}
    /\ k.server \in {{"FIN_WAIT_1"}, {"FIN_WAIT_2"}, {"CLOSED"}}
    /\ k.up \subseteq {"ACK"} /\ k.down \subseteq {"FIN"}
Over(k) ==
    /\ k.client \in {{"LAST_ACK"}, {"CLOSED"}, {}}
    /\ k.server \in {{"FIN_WAIT_1"}, {"FIN_WAIT_2"}, {"CLOSING"}, {"TIME_WAIT"}, {"CLOSED"}, {}}
    /\ k.up \subseteq {"FIN", "ACK", "RST"} /\ k.down \subseteq {"FIN", "ACK"}

Fits(k) == Calling(k) \/ Answered(k) \/ Opening(k) \/ Opened(k) \/ Ending(k) \/ Over(k)

Unused(k) == k.client = {} /\ k.server = {} /\ k.up = {} /\ k.down = {}

\* A call where nobody listens is reset, and may be made again from the same port.
Refused(k) ==
    /\ k.client \in {{"SYN_SENT"}, {}} /\ k.server = {}
    /\ k.up \subseteq {"SYN"} /\ k.down \subseteq {"RSTACK"}

----------------------------------------------------------------------------
(* The invariant. *)

\* A client that does not call again: it has not been told to, will not be, and has no
\* connection left that could fail.
Quiet(a, queue) ==
    \A i \in 1 .. Len(queue) : queue[i].gate = a[2] => queue[i].kind \notin Failures

AllClosed(C) == \A p \in DOMAIN C : C[p].pair.localPort \in Ephemeral => C[p].fsm = "CLOSED"

Finished(a) ==
    sockets[a].timer # "CONNECT" /\ Quiet(a, toApp[a[1]]) /\ AllClosed(tables[a[1]].conns)

\* The segments of the handshake are sent once in a call.
Once == {"SYN", "SYNACK", "FIRSTACK"}

Alike(a, port, s, t) ==
    \/ Upward(a, port, s) /\ Upward(a, port, t)
    \/ Downward(a, port, s) /\ Downward(a, port, t)

OneEach(a, port) ==
    \A s, t \in wire : s.kind = t.kind /\ s.kind \in Once /\ Alike(a, port, s, t) => s = t

Awaited(k) == "SYN_SENT" \in k.client /\ ~world.loses => k.up # {} \/ k.down # {}

\* A port whose call has ended at the client is not used for a second call of a server.
CallFits(a, port) ==
    LET k == Call(a, port)
    IN  /\ Served(a) => /\ Fits(k)
                        /\ k.client = {} => Unused(k) \/ Finished(a)
                        /\ OneEach(a, port)
        /\ ~Served(a) => Refused(k)
        /\ Awaited(k)

CallsFit == \A a \in Clients, port \in Ephemeral : CallFits(a, port)

\* States in which no FIN has been sent: there is nothing to send again.
Unclosed == {"LISTEN", "SYN_SENT", "SYN_RCVD", "ESTABLISHED", "CLOSE_WAIT"}

OfCall(h, pair) ==
    \/ pair.remoteAddr = NoHost
    \/ \E a \in Clients, port \in Ephemeral : InCall(a, port, h, pair)

\* What is true of every connection and of every segment.
ConnShape(h, conn) ==
    /\ OfCall(h, conn.pair)
    /\ conn.pair.localPort \notin Ephemeral => Serves(h, conn.pair.localPort)
    /\ conn.fsm \in Unclosed => "REXMIT" \notin conn.timers
    /\ conn.pair.localPort \in Ephemeral /\ conn.fsm \notin {"SYN_SENT", "CLOSED"} =>
          conn.st.snd_wnd > 0

SegmentShape(s) ==
    /\ \E a \in Clients, port \in Ephemeral : Carries(a, port, s)
    /\ s.kind = "SYNACK" => s.window > 0

Shapes ==
    /\ \A h \in Host : up[h]
    /\ \A h \in Host : \A p \in DOMAIN tables[h].conns : ConnShape(h, tables[h].conns[p])
    /\ \A s \in wire : SegmentShape(s)

\* A connection its application is yet to close.
AwaitsClose(conn) ==
    IF conn.pair.localPort \in Ephemeral THEN conn.fsm = "CLOSE_WAIT"
    ELSE conn.fsm = "ESTABLISHED" /\ conn.done

Closes(Q, i, id) == Q[i].kind = "PEER_CLOSED" /\ Q[i].connId = id

\* An application is told to close a connection once, and the connection awaits it.
Pending(C, Q) ==
    /\ \A i \in 1 .. Len(Q) : Q[i].kind = "PEER_CLOSED" =>
          \E p \in DOMAIN C :
             C[p].gate = Q[i].gate /\ C[p].connId = Q[i].connId /\ AwaitsClose(C[p])
    /\ \A i, j \in 1 .. Len(Q) :
          Q[i].kind = "PEER_CLOSED" /\ Q[j].kind = "PEER_CLOSED" /\ Q[i].connId = Q[j].connId
             => i = j

Pends == \A h \in Host : Pending(tables[h].conns, toApp[h])

CallsInv ==
    PortsServeOnce => /\ ClosesInTime
                      /\ Shapes
                      /\ Running => CallsFit /\ Pends

----------------------------------------------------------------------------
(* Calls are apart: a connection and a segment belong to one call at most. *)

LEMMA CallersAre ==
  ASSUME world \in Scenarios, PortsServeOnce, NEW a \in Clients
  PROVE  /\ a \in DOMAIN world.apps /\ a[1] \in Host /\ a = <<a[1], a[2]>>
         /\ Peer(a) \in Host /\ PeerPort(a) \notin Ephemeral
         /\ a[1] # NoHost /\ Peer(a) # NoHost
         /\ ~Listener(a)
         /\ \A b \in Clients : b[1] = a[1] => b = a
<1>1. a \in DOMAIN world.apps /\ AppKind(a) = "client"
  BY DEF Clients
<1>2. a \in Host \X Nat /\ world.apps[a].peer \in Host /\ ~Listener(a)
  BY <1>1, AppAt
<1> QED
  BY <1>1, <1>2, AddressAssumption DEF Clients, PortsServeOnce, Peer, PeerPort

LEMMA KeysOf ==
  ASSUME NEW a, NEW port, NEW pair
  PROVE  /\ pair \in ClientKeys(a, port) =>
               /\ pair.localPort = port /\ pair.remotePort = PeerPort(a)
               /\ pair.remoteAddr = Peer(a) /\ pair.localAddr \in {NoHost, a[1]}
         /\ pair \in ServerKeys(a, port) =>
               /\ pair.localPort = PeerPort(a) /\ pair.remotePort = port
               /\ pair.remoteAddr = a[1] /\ pair.localAddr = Peer(a)
BY DEF ClientKeys, ServerKeys, SockPair

LEMMA KeysApart ==
  ASSUME world \in Scenarios, PortsServeOnce, NEW a \in Clients, NEW port \in Ephemeral,
         NEW b \in Clients, NEW q \in Ephemeral, NEW h, NEW pair,
         InCall(a, port, h, pair) \/ pair.remoteAddr = NoHost
  PROVE  /\ h = b[1] /\ pair \in ClientKeys(b, q) => a = b /\ port = q /\ h = a[1]
         /\ h = Peer(b) /\ pair \in ServerKeys(b, q) => a = b /\ port = q /\ h = Peer(a)
         /\ pair \notin ClientKeys(b, q) \/ pair \notin ServerKeys(b, q)
<1>1. /\ \A c \in {a, b} : Peer(c) # NoHost /\ c[1] # NoHost /\ PeerPort(c) \notin Ephemeral
      /\ a[1] = b[1] => a = b
  BY CallersAre
<1>2. /\ pair \in ClientKeys(b, q) => pair.localPort = q /\ pair.remoteAddr = Peer(b)
      /\ pair \in ServerKeys(b, q) =>
            /\ pair.localPort = PeerPort(b) /\ pair.remotePort = q /\ pair.remoteAddr = b[1]
  BY KeysOf
<1>3. CASE pair.remoteAddr = NoHost
  BY <1>1, <1>2, <1>3
<1>4. CASE h = a[1] /\ pair \in ClientKeys(a, port)
  <2>1. pair.localPort = port /\ pair.remoteAddr = Peer(a)
    BY <1>4, KeysOf
  <2> QED
    BY <1>1, <1>2, <1>4, <2>1
<1>5. CASE h = Peer(a) /\ pair \in ServerKeys(a, port)
  <2>1. pair.localPort = PeerPort(a) /\ pair.remotePort = port /\ pair.remoteAddr = a[1]
    BY <1>5, KeysOf
  <2> QED
    BY <1>1, <1>2, <1>5, <2>1
<1> QED
  BY <1>3, <1>4, <1>5 DEF InCall

LEMMA SegmentsApart ==
  ASSUME world \in Scenarios, PortsServeOnce, NEW a \in Clients, NEW port \in Ephemeral,
         NEW b \in Clients, NEW q \in Ephemeral, NEW s, Carries(a, port, s), Carries(b, q, s)
  PROVE  a = b /\ port = q /\ ~(Upward(a, port, s) /\ Downward(a, port, s))
<1>1. /\ \A c \in {a, b} : PeerPort(c) \notin Ephemeral
      /\ a[1] = b[1] => a = b
  BY CallersAre
<1> QED
  BY <1>1 DEF Carries, Upward, Downward

\* The states of the connections with some keys.
LEMMA StatesSame ==
  ASSUME NEW C, NEW D, NEW keys,
         \A p \in DOMAIN C : C[p].pair \in keys =>
            p \in DOMAIN D /\ D[p].pair \in keys /\ D[p].fsm = C[p].fsm,
         \A p \in DOMAIN D : D[p].pair \in keys =>
            p \in DOMAIN C /\ C[p].pair \in keys
  PROVE  StatesAt(D, keys) = StatesAt(C, keys)
BY DEF StatesAt

LEMMA StatesOne ==
  ASSUME NEW C, NEW keys, NEW p \in DOMAIN C, C[p].pair \in keys,
         \A q \in DOMAIN C : C[q].pair \in keys => q = p
  PROVE  StatesAt(C, keys) = {C[p].fsm}
BY DEF StatesAt

LEMMA StatesNone ==
  ASSUME NEW C, NEW keys
  PROVE  StatesAt(C, keys) = {} <=> \A p \in DOMAIN C : C[p].pair \notin keys
BY DEF StatesAt

\* An end of a call has one connection.
LEMMA OneConn ==
  ASSUME HostsInv, NEW a, NEW port \in Ephemeral, NEW h \in Host,
         NEW keys \in {ClientKeys(a, port), ServerKeys(a, port)},
         NEW p \in DOMAIN tables[h].conns, NEW q \in DOMAIN tables[h].conns,
         tables[h].conns[p].pair \in keys, tables[h].conns[q].pair \in keys
  PROVE  p = q
<1> DEFINE T == tables[h]
<1>1. PairsAgree(T)
  BY DEF HostsInv, HostOK, TablesOK
<1>2. CASE keys = ClientKeys(a, port)
  <2>1. T.conns[p].pair.localPort = port /\ T.conns[q].pair.localPort = port
    BY <1>2, KeysOf
  <2> QED
    BY <2>1, PortsAreApart DEF PortsApart
<1>3. CASE keys = ServerKeys(a, port)
  <2>1. T.conns[p].pair = T.conns[q].pair
    BY <1>3 DEF ServerKeys
  <2> QED
    BY <1>1, <2>1 DEF PairsAgree
<1> QED
  BY <1>2, <1>3

----------------------------------------------------------------------------
(* A step takes place in one call: the others stay as they were. *)

LEMMA SameWorld ==
  ASSUME world' = world
  PROVE  /\ Clients' = Clients
         /\ \A a : /\ Peer(a)' = Peer(a) /\ PeerPort(a)' = PeerPort(a)
                   /\ Served(a)' <=> Served(a)
         /\ \A a, port : /\ ClientKeys(a, port)' = ClientKeys(a, port)
                         /\ ServerKeys(a, port)' = ServerKeys(a, port)
         /\ \A a, port, s : /\ Upward(a, port, s)' <=> Upward(a, port, s)
                            /\ Downward(a, port, s)' <=> Downward(a, port, s)
         /\ \A h, port : Serves(h, port)' <=> Serves(h, port)
         /\ \A h, pair : OfCall(h, pair)' <=> OfCall(h, pair)
BY DEF Clients, AppKind, Peer, PeerPort, Served, Serves, ClientKeys, ServerKeys, Upward, Downward,
       OfCall, InCall, Listener

Within(a, port, h, pair) == InCall(a, port, h, pair) \/ pair.remoteAddr = NoHost

Alters(C, D, p) ==
    ~(p \in DOMAIN C /\ p \in DOMAIN D /\ D[p].pair = C[p].pair /\ D[p].fsm = C[p].fsm)

\* Connections C of h become D, in a call and where nobody calls.
OnlyIn(a, port, h, C, D) ==
    /\ \A p \in DOMAIN C : Alters(C, D, p) => Within(a, port, h, C[p].pair)
    /\ \A p \in DOMAIN D : Alters(C, D, p) => Within(a, port, h, D[p].pair)

WireOnlyIn(a, port) ==
    \A s : ~(s \in wire <=> s \in wire') => Carries(a, port, s)

LEMMA OthersStay ==
  ASSUME HostsInv, PortsServeOnce, world' = world, NEW h \in Host, NEW U,
         tables' = [tables EXCEPT ![h] = U],
         NEW a \in Clients, NEW port \in Ephemeral,
         OnlyIn(a, port, h, tables[h].conns, U.conns), WireOnlyIn(a, port),
         NEW b \in Clients, NEW q \in Ephemeral, ~(a = b /\ port = q)
  PROVE  /\ Call(b, q)' = Call(b, q)
         /\ OneEach(b, q) => OneEach(b, q)'
<1> DEFINE C == tables[h].conns
           D == U.conns
<1>1. world \in Scenarios /\ DOMAIN tables = Host /\ b[1] \in Host /\ Peer(b) \in Host
  <2>1. world \in Scenarios /\ tables = [g \in Host |-> tables[g]]
    BY DEF HostsInv
  <2> QED
    BY <2>1, CallersAre
<1>2. \A g \in Host : tables'[g] = IF g = h THEN U ELSE tables[g]
  BY <1>1
<1>3. ASSUME NEW g, NEW keys,
             \/ g = b[1] /\ keys = ClientKeys(b, q)
             \/ g = Peer(b) /\ keys = ServerKeys(b, q)
      PROVE  StatesAt(tables'[g].conns, keys) = StatesAt(tables[g].conns, keys)
  <2>1. CASE g # h
    BY <1>1, <1>2, <1>3, <2>1
  <2>2. CASE g = h
    <3>1. \A pair : Within(a, port, h, pair) => pair \notin keys
      BY <1>1, <1>3, <2>2, KeysApart DEF Within
    <3>2. \A p \in DOMAIN C : C[p].pair \in keys => ~Alters(C, D, p)
      BY <3>1 DEF OnlyIn
    <3>3. \A p \in DOMAIN D : D[p].pair \in keys => ~Alters(C, D, p)
      BY <3>1 DEF OnlyIn
    <3> HIDE DEF C, D
    <3>4. StatesAt(D, keys) = StatesAt(C, keys)
      BY <3>2, <3>3, StatesSame DEF Alters
    <3> QED
      BY <1>1, <1>2, <1>3, <2>2, <3>4 DEF C, D
  <2> QED
    BY <2>1, <2>2
<1>4. \A s : Upward(b, q, s) \/ Downward(b, q, s) => (s \in wire' <=> s \in wire)
  BY <1>1, SegmentsApart DEF WireOnlyIn, Carries
<1>5. KindsUp(b, q, wire') = KindsUp(b, q, wire) /\ KindsDown(b, q, wire') = KindsDown(b, q, wire)
  BY <1>4 DEF KindsUp, KindsDown
<1>6. Call(b, q)' = Call(b, q)
  <2>1. /\ Peer(b)' = Peer(b) /\ ClientKeys(b, q)' = ClientKeys(b, q)
        /\ ServerKeys(b, q)' = ServerKeys(b, q)
        /\ KindsUp(b, q, wire)' = KindsUp(b, q, wire')
        /\ KindsDown(b, q, wire)' = KindsDown(b, q, wire')
    BY SameWorld DEF KindsUp, KindsDown
  <2>2. /\ StatesAt(tables'[b[1]].conns, ClientKeys(b, q))
           = StatesAt(tables[b[1]].conns, ClientKeys(b, q))
        /\ StatesAt(tables'[Peer(b)].conns, ServerKeys(b, q))
           = StatesAt(tables[Peer(b)].conns, ServerKeys(b, q))
    BY <1>3
  <2> QED
    BY <1>5, <2>1, <2>2 DEF Call
<1>7. ASSUME OneEach(b, q)
      PROVE  OneEach(b, q)'
  BY <1>4, <1>7, SameWorld DEF OneEach, Alike
<1> QED
  BY <1>6, <1>7

\* What has been proved of every call but one holds of every call.
LEMMA CallsMove ==
  ASSUME HostsInv, PortsServeOnce, CallsFit, world' = world, NEW h \in Host, NEW U,
         tables' = [tables EXCEPT ![h] = U],
         NEW a \in Clients, NEW port \in Ephemeral,
         OnlyIn(a, port, h, tables[h].conns, U.conns), WireOnlyIn(a, port),
         \A b \in Clients : Finished(b) => Finished(b)',
         CallFits(a, port)'
  PROVE  CallsFit'
<1>1. ASSUME NEW b \in Clients, NEW q \in Ephemeral, ~(a = b /\ port = q)
      PROVE  CallFits(b, q)'
  <2> DEFINE k == Call(b, q)
  <2>1. Call(b, q)' = k /\ (OneEach(b, q) => OneEach(b, q)')
    BY <1>1, OthersStay
  <2>2. (Served(b)' <=> Served(b)) /\ CallFits(b, q)
    BY SameWorld DEF CallsFit
  <2>3. /\ (Fits(Call(b, q)))' <=> Fits(k)
        /\ (Unused(Call(b, q)))' <=> Unused(k)
        /\ (Refused(Call(b, q)))' <=> Refused(k)
        /\ (Awaited(Call(b, q)))' <=> Awaited(k)
    <3> DEFINE m == Call(b, q)'
    <3>1. m = k
      BY <2>1
    <3>2. /\ (Fits(Call(b, q)))' <=> Fits(m)
          /\ (Unused(Call(b, q)))' <=> Unused(m)
          /\ (Refused(Call(b, q)))' <=> Refused(m)
          /\ (Awaited(Call(b, q)))' <=> Awaited(m)
      BY DEF Fits, Unused, Refused, Awaited, Calling, Answered, Opening, Opened, Ending, Over
    <3> HIDE DEF m, k
    <3> QED
      BY <3>1, <3>2
  <2> QED
    BY <1>1, <2>1, <2>2, <2>3 DEF CallFits
<1> QED
  BY <1>1, SameWorld DEF CallsFit

----------------------------------------------------------------------------
(* What a step does to its own call. *)

\* Connection p turns, or leaves.
OneTurns(C, D, p) ==
    /\ p \in DOMAIN C
    /\ DOMAIN D \subseteq DOMAIN C
    /\ DOMAIN C \ {p} \subseteq DOMAIN D
    /\ \A q \in DOMAIN D \ {p} : D[q] = C[q]

StateIn(D, p) == IF p \in DOMAIN D THEN {D[p].fsm} ELSE {}

Turned(h, U, p) ==
    world' = world /\ tables' = [tables EXCEPT ![h] = U] /\ OneTurns(tables[h].conns, U.conns, p)

TurnsTo(a, port, h, C, D, p) ==
    /\ /\ h = a[1] /\ C[p].pair \in ClientKeys(a, port)
       /\ p \in DOMAIN D => D[p].pair \in ClientKeys(a, port)
       => /\ Call(a, port).client = {C[p].fsm}
          /\ Call(a, port)'.client = StateIn(D, p)
          /\ Call(a, port)'.server = Call(a, port).server
    /\ /\ h = Peer(a) /\ C[p].pair \in ServerKeys(a, port)
       /\ p \in DOMAIN D => D[p].pair \in ServerKeys(a, port)
       => /\ Call(a, port).server = {C[p].fsm}
          /\ Call(a, port)'.server = StateIn(D, p)
          /\ Call(a, port)'.client = Call(a, port).client

\* It is at one end of the call: the other end stays.
LEMMA EndTurned ==
  ASSUME HostsInv, PortsServeOnce, NEW h \in Host, NEW U, NEW p, Turned(h, U, p),
         NEW a \in Clients, NEW port \in Ephemeral
  PROVE  TurnsTo(a, port, h, tables[h].conns, U.conns, p)
<1>0. /\ world' = world /\ tables' = [tables EXCEPT ![h] = U]
      /\ OneTurns(tables[h].conns, U.conns, p)
  BY DEF Turned
<1> DEFINE C == tables[h].conns
           D == U.conns
           k == Call(a, port)
           clients == ClientKeys(a, port)
           servers == ServerKeys(a, port)
<1>1. world \in Scenarios /\ DOMAIN tables = Host /\ a[1] \in Host /\ Peer(a) \in Host
  <2>1. world \in Scenarios /\ tables = [g \in Host |-> tables[g]]
    BY DEF HostsInv
  <2> QED
    BY <2>1, CallersAre
<1>2. \A g \in Host : tables'[g] = IF g = h THEN U ELSE tables[g]
  BY <1>0, <1>1
<1>3. /\ k.client = StatesAt(tables[a[1]].conns, clients)
      /\ k.server = StatesAt(tables[Peer(a)].conns, servers)
      /\ Call(a, port)'.client = StatesAt(tables'[a[1]].conns, clients)
      /\ Call(a, port)'.server = StatesAt(tables'[Peer(a)].conns, servers)
  BY <1>0, SameWorld DEF Call
<1>4. \A pair : pair \notin clients \/ pair \notin servers
  <2>1. PeerPort(a) # port
    BY <1>1, CallersAre
  <2> QED
    BY <2>1, KeysOf
<1>5. ASSUME NEW keys \in {clients, servers}, C[p].pair \in keys
      PROVE  /\ StatesAt(C, keys) = {C[p].fsm}
             /\ (p \in DOMAIN D /\ D[p].pair \notin keys) \/ StatesAt(D, keys) = StateIn(D, p)
  <2>1. \A q \in DOMAIN C : C[q].pair \in keys => q = p
    BY <1>0, <1>5, OneConn DEF OneTurns
  <2>2. \A q \in DOMAIN D : D[q].pair \in keys => q = p
    BY <1>0, <2>1 DEF OneTurns
  <2> HIDE DEF C, D, clients, servers
  <2>3. StatesAt(C, keys) = {C[p].fsm}
    BY <1>0, <1>5, <2>1, StatesOne DEF OneTurns, C
  <2>4. ASSUME p \in DOMAIN D, D[p].pair \in keys
        PROVE  StatesAt(D, keys) = {D[p].fsm}
    BY <2>2, <2>4, StatesOne
  <2>5. ASSUME p \notin DOMAIN D
        PROVE  StatesAt(D, keys) = {}
    BY <2>2, <2>5, StatesNone
  <2> QED
    BY <2>3, <2>4, <2>5 DEF StateIn
<1>6. ASSUME NEW keys, C[p].pair \notin keys, p \in DOMAIN D => D[p].pair \notin keys
      PROVE  StatesAt(D, keys) = StatesAt(C, keys)
  <2> HIDE DEF C, D
  <2>1. \A q \in DOMAIN C : C[q].pair \in keys => q \in DOMAIN D /\ D[q] = C[q]
    BY <1>0, <1>6 DEF OneTurns, C, D
  <2>2. \A q \in DOMAIN D : D[q].pair \in keys => q \in DOMAIN C /\ D[q] = C[q]
    BY <1>0, <1>6 DEF OneTurns, C, D
  <2> QED
    BY <2>1, <2>2, StatesSame
<1>7. ASSUME h = a[1], C[p].pair \in clients, p \in DOMAIN D => D[p].pair \in clients
      PROVE  /\ k.client = {C[p].fsm}
             /\ Call(a, port)'.client = StateIn(D, p) /\ Call(a, port)'.server = k.server
  <2>1. StatesAt(C, clients) = {C[p].fsm} /\ StatesAt(D, clients) = StateIn(D, p)
    BY <1>5, <1>7
  <2>2. StatesAt(D, servers) = StatesAt(C, servers)
    BY <1>4, <1>6, <1>7
  <2> HIDE DEF k, clients, servers
  <2> QED
    BY <1>1, <1>2, <1>3, <1>7, <2>1, <2>2
<1>8. ASSUME h = Peer(a), C[p].pair \in servers, p \in DOMAIN D => D[p].pair \in servers
      PROVE  /\ k.server = {C[p].fsm}
             /\ Call(a, port)'.server = StateIn(D, p) /\ Call(a, port)'.client = k.client
  <2>1. StatesAt(C, servers) = {C[p].fsm} /\ StatesAt(D, servers) = StateIn(D, p)
    BY <1>5, <1>8
  <2>2. StatesAt(D, clients) = StatesAt(C, clients)
    BY <1>4, <1>6, <1>8
  <2> HIDE DEF k, clients, servers
  <2> QED
    BY <1>1, <1>2, <1>3, <1>8, <2>1, <2>2
<1> QED
  BY <1>7, <1>8 DEF TurnsTo

LEMMA EndTurns ==
  ASSUME HostsInv, PortsServeOnce, world' = world, NEW h \in Host, NEW U,
         tables' = [tables EXCEPT ![h] = U], NEW p, OneTurns(tables[h].conns, U.conns, p),
         NEW a \in Clients, NEW port \in Ephemeral
  PROVE  LET C == tables[h].conns
             D == U.conns
             k == Call(a, port)
         IN  /\ h = a[1] /\ C[p].pair \in ClientKeys(a, port)
                /\ (p \in DOMAIN D => D[p].pair \in ClientKeys(a, port)) =>
                   /\ k.client = {C[p].fsm}
                   /\ Call(a, port)'.client = StateIn(D, p) /\ Call(a, port)'.server = k.server
             /\ h = Peer(a) /\ C[p].pair \in ServerKeys(a, port)
                /\ (p \in DOMAIN D => D[p].pair \in ServerKeys(a, port)) =>
                   /\ k.server = {C[p].fsm}
                   /\ Call(a, port)'.server = StateIn(D, p) /\ Call(a, port)'.client = k.client
<1>1. Turned(h, U, p)
  BY DEF Turned
<1>2. TurnsTo(a, port, h, tables[h].conns, U.conns, p)
  BY <1>1, EndTurned
<1> QED
  BY <1>2 DEF TurnsTo

\* Segments of kinds ups and downs are sent, gone is taken out of the network.
Sends(a, port, gone, ups, downs) ==
    /\ \A t \in wire' : t \notin wire =>
          \/ Upward(a, port, t) /\ t.kind \in ups
          \/ Downward(a, port, t) /\ t.kind \in downs
    /\ \A t \in gone : t \in wire /\ t \notin wire' /\ Carries(a, port, t)
    /\ \A t \in wire : t \in gone \/ t \in wire'
    /\ \A kind \in ups : \E t \in wire' : Upward(a, port, t) /\ t.kind = kind
    /\ \A kind \in downs : \E t \in wire' : Downward(a, port, t) /\ t.kind = kind
    /\ \A s, t \in wire' :
          s \notin wire /\ t \notin wire /\ s.kind \in Once /\ s.kind = t.kind => s = t

Flows(old, new, gone, sent) ==
    new \subseteq old \cup sent /\ sent \subseteq new /\ old \ gone \subseteq new

\* A segment that is sent once is gone when it has arrived.
Spent(new, gone, sent) == \A kind \in gone : kind \in Once /\ kind \notin sent => kind \notin new

LEMMA KindsAre ==
  ASSUME NEW a, NEW port, NEW net, NEW kind
  PROVE  /\ kind \in KindsUp(a, port, net) <=> \E t \in net : Upward(a, port, t) /\ t.kind = kind
         /\ kind \in KindsDown(a, port, net) <=> \E t \in net : Downward(a, port, t) /\ t.kind = kind
BY DEF KindsUp, KindsDown

LEMMA CallKinds ==
  ASSUME world' = world, NEW a, NEW port
  PROVE  LET k == Call(a, port)
         IN  /\ k.up = KindsUp(a, port, wire) /\ k.down = KindsDown(a, port, wire)
             /\ k'.up = KindsUp(a, port, wire') /\ k'.down = KindsDown(a, port, wire')
BY SameWorld DEF Call, KindsUp, KindsDown

LEMMA WireFlows ==
  ASSUME HostsInv, PortsServeOnce, world' = world, NEW a \in Clients, NEW port \in Ephemeral,
         NEW gone, NEW ups, NEW downs, Sends(a, port, gone, ups, downs)
  PROVE  LET k == Call(a, port)
             goneUp == KindsUp(a, port, gone)
             goneDown == KindsDown(a, port, gone)
         IN  /\ WireOnlyIn(a, port)
             /\ Flows(k.up, k'.up, goneUp, ups) /\ Flows(k.down, k'.down, goneDown, downs)
             /\ OneEach(a, port) => Spent(k'.up, goneUp, ups) /\ Spent(k'.down, goneDown, downs)
             /\ OneEach(a, port)
                /\ ups \cap k.up \cap Once = {} /\ downs \cap k.down \cap Once = {}
                   => OneEach(a, port)'
<1> DEFINE k == Call(a, port)
           goneUp == KindsUp(a, port, gone)
           goneDown == KindsDown(a, port, gone)
<1>1. \A s : ~(Upward(a, port, s) /\ Downward(a, port, s))
  <2>1. world \in Scenarios
    BY DEF HostsInv
  <2> QED
    BY <2>1, SegmentsApart DEF Carries
<1>2. WireOnlyIn(a, port)
  BY DEF WireOnlyIn, Sends, Carries
<1>3. /\ k.up = KindsUp(a, port, wire) /\ k.down = KindsDown(a, port, wire)
      /\ k'.up = KindsUp(a, port, wire') /\ k'.down = KindsDown(a, port, wire')
  BY CallKinds
<1>4. Flows(KindsUp(a, port, wire), KindsUp(a, port, wire'), goneUp, ups)
  BY <1>1, KindsAre DEF Flows, Sends
<1>5. Flows(KindsDown(a, port, wire), KindsDown(a, port, wire'), goneDown, downs)
  BY <1>1, KindsAre DEF Flows, Sends
<1>6. ASSUME OneEach(a, port), NEW kind \in Once
      PROVE  /\ kind \in goneUp /\ kind \notin ups => kind \notin KindsUp(a, port, wire')
             /\ kind \in goneDown /\ kind \notin downs => kind \notin KindsDown(a, port, wire')
  BY <1>1, <1>6, KindsAre DEF OneEach, Alike, Sends
<1>7. ASSUME OneEach(a, port), ups \cap k.up \cap Once = {}, downs \cap k.down \cap Once = {}
      PROVE  OneEach(a, port)'
  <2>1. ASSUME NEW s \in wire', NEW t \in wire', s.kind = t.kind, s.kind \in Once,
               Alike(a, port, s, t)
        PROVE  s = t
    <3>1. CASE s \in wire /\ t \in wire
      BY <1>7, <2>1, <3>1 DEF OneEach
    <3>2. CASE s \notin wire /\ t \notin wire
      BY <2>1, <3>2 DEF Sends
    <3>3. ASSUME NEW u \in {s, t}, NEW v \in {s, t}, u \in wire, v \notin wire
          PROVE  FALSE
      <4>1. u.kind = v.kind /\ u.kind \in Once /\ v \in wire'
            /\ \/ Upward(a, port, u) /\ Upward(a, port, v)
               \/ Downward(a, port, u) /\ Downward(a, port, v)
        BY <2>1, <3>3 DEF Alike
      <4>2. CASE Upward(a, port, u) /\ Upward(a, port, v)
        <5>1. v.kind \in ups /\ u.kind \in k.up
          BY <1>1, <1>3, <3>3, <4>1, <4>2, KindsAre DEF Sends
        <5> QED
          BY <1>7, <4>1, <5>1
      <4>3. CASE Downward(a, port, u) /\ Downward(a, port, v)
        <5>1. v.kind \in downs /\ u.kind \in k.down
          BY <1>1, <1>3, <3>3, <4>1, <4>3, KindsAre DEF Sends
        <5> QED
          BY <1>7, <4>1, <5>1
      <4> QED
        BY <4>1, <4>2, <4>3
    <3> QED
      BY <3>1, <3>2, <3>3
  <2> QED
    BY <2>1, SameWorld DEF OneEach, Alike
<1> HIDE DEF k, goneUp, goneDown
<1>8. OneEach(a, port) => Spent(k'.up, goneUp, ups) /\ Spent(k'.down, goneDown, downs)
  BY <1>3, <1>6 DEF Spent
<1> QED
  BY <1>2, <1>3, <1>4, <1>5, <1>7, <1>8 DEF k, goneUp, goneDown

----------------------------------------------------------------------------
(* The stages of a call. *)

\* Who can hear what.
LEMMA ClientMayHear ==
  ASSUME NEW k, Fits(k), NEW fsm, k.client = {fsm}, fsm # "CLOSED", NEW kind \in k.down
  PROVE  \/ fsm = "SYN_SENT" /\ kind = "SYNACK" /\ Answered(k)
         \/ fsm = "ESTABLISHED" /\ kind = "RST" /\ Opening(k)
         \/ fsm \in {"ESTABLISHED", "CLOSE_WAIT"} /\ kind = "FIN" /\ Ending(k)
         \/ fsm = "LAST_ACK" /\ kind \in {"FIN", "ACK"} /\ Over(k)
<1>1. CASE Calling(k) \/ Opened(k)
  BY <1>1 DEF Calling, Opened
<1>2. CASE Answered(k)
  BY <1>2 DEF Answered
<1>3. CASE Opening(k)
  BY <1>3 DEF Opening
<1>4. CASE Ending(k)
  BY <1>4 DEF Ending
<1>5. CASE Over(k)
  BY <1>5 DEF Over
<1> QED
  BY <1>1, <1>2, <1>3, <1>4, <1>5 DEF Fits

LEMMA ServerMayHear ==
  ASSUME NEW k, Fits(k), NEW fsm, k.server = {fsm}, fsm # "CLOSED", NEW kind \in k.up
  PROVE  \/ fsm \in {"SYN_RCVD", "LISTEN"} /\ kind = "FIRSTACK" /\ Opening(k)
         \/ fsm \in {"FIN_WAIT_1", "FIN_WAIT_2"} /\ kind = "ACK" /\ Ending(k)
         \/ fsm \in {"FIN_WAIT_1", "FIN_WAIT_2", "CLOSING", "TIME_WAIT"}
            /\ kind \in {"FIN", "ACK", "RST"} /\ Over(k)
<1>1. CASE Calling(k) \/ Opened(k) \/ Answered(k)
  BY <1>1 DEF Calling, Opened, Answered
<1>3. CASE Opening(k)
  BY <1>3 DEF Opening
<1>4. CASE Ending(k)
  BY <1>4 DEF Ending
<1>5. CASE Over(k)
  BY <1>5 DEF Over
<1> QED
  BY <1>1, <1>3, <1>4, <1>5 DEF Fits

LEMMA ListenerMayHear ==
  ASSUME NEW k, Fits(k), k.server = {}, NEW kind \in k.up
  PROVE  \/ kind = "SYN" /\ Calling(k)
         \/ kind \in {"FIN", "ACK", "RST"} /\ Over(k)
BY DEF Fits, Calling, Answered, Opening, Opened, Ending, Over

LEMMA NobodyMayHear ==
  ASSUME NEW k, Fits(k), k.client = {}, NEW kind \in k.down
  PROVE  kind \in {"FIN", "ACK"} /\ Over(k)
BY DEF Fits, Calling, Answered, Opening, Opened, Ending, Over

\* Segments that get lost change no stage.
LEMMA LosesFits ==
  ASSUME NEW k, NEW new, new.client = k.client, new.server = k.server,
         new.up \subseteq k.up, new.down \subseteq k.down
  PROVE  /\ Fits(k) => Fits(new)
         /\ Unused(k) => Unused(new)
         /\ Refused(k) => Refused(new)
<1>1. /\ Calling(k) => Calling(new)
      /\ Answered(k) => Answered(new)
      /\ Opened(k) => Opened(new)
  BY DEF Calling, Answered, Opened
<1>2. Opening(k) => Opening(new)
  BY DEF Opening
<1>3. /\ Ending(k) => Ending(new)
      /\ Over(k) => Over(new)
  BY DEF Ending, Over
<1> QED
  BY <1>1, <1>2, <1>3 DEF Fits, Unused, Refused

\* The client calls, and the listener takes the call.
LEMMA CallsFits ==
  ASSUME NEW k, NEW new, k.client = {}, new.client = {"SYN_SENT"}, new.server = k.server,
         new.up \subseteq k.up \cup {"SYN"}, new.down \subseteq k.down
  PROVE  (Unused(k) => Fits(new)) /\ (Refused(k) => Refused(new))
BY DEF Unused, Fits, Calling, Refused

LEMMA AcceptsFits ==
  ASSUME NEW k, NEW new, Calling(k), new.client = k.client, new.server = {"SYN_RCVD"},
         new.up \subseteq k.up, Spent(new.up, {"SYN"}, {}),
         new.down \subseteq k.down \cup {"SYNACK"}
  PROVE  Fits(new)
<1>1. new.up = {}
  BY DEF Calling, Spent, Once
<1> QED
  BY <1>1 DEF Fits, Calling, Answered

LEMMA AnsweredFits ==
  ASSUME NEW k, NEW new, Answered(k), new.client = {"ESTABLISHED"}, new.server = k.server,
         new.up \subseteq k.up \cup {"FIRSTACK"},
         new.down \subseteq k.down, Spent(new.down, {"SYNACK"}, {})
  PROVE  Fits(new)
<1>1. new.down = {}
  BY DEF Answered, Spent, Once
<1> QED
  BY <1>1 DEF Fits, Answered, Opening

\* The server hears that its answer has arrived: the call is open, or it has given up.
LEMMA OpensFits ==
  ASSUME NEW k, NEW new, Opening(k), new.client = k.client,
         new.up \subseteq k.up, Spent(new.up, {"FIRSTACK"}, {}),
         \/ k.server = {"SYN_RCVD"} /\ new.server = {"ESTABLISHED"} /\ new.down \subseteq k.down
         \/ k.server = {"LISTEN"} /\ new.server = {"LISTEN"} /\ new.down \subseteq k.down \cup {"RST"}
  PROVE  Fits(new)
<1>1. new.up = {}
  BY DEF Opening, Spent, Once
<1>2. "SYN_RCVD" # "LISTEN"
  OBVIOUS
<1> QED
  BY <1>1 DEF Fits, Opening, Opened

\* Where the end of a call may lead its ends.
ClientLeads ==
    {<<"ESTABLISHED", "CLOSE_WAIT">>, <<"ESTABLISHED", "ESTABLISHED">>,
     <<"CLOSE_WAIT", "CLOSE_WAIT">>}

LEMMA ClientEnds ==
  ASSUME NEW k, NEW new, new.server = k.server,
         NEW old, NEW fsm, k.client = {old}, new.client = {fsm},
         \/ Ending(k) /\ <<old, fsm>> \in ClientLeads /\ new.up \subseteq k.up \cup {"ACK"}
         \/ /\ Ending(k) /\ old = "CLOSE_WAIT" /\ fsm = "LAST_ACK"
            /\ new.up \subseteq k.up \cup {"FIN"}
         \/ /\ Over(k) /\ fsm \in {"LAST_ACK", "CLOSED"}
            /\ new.up \subseteq k.up \cup {"ACK"},
         new.down \subseteq k.down
  PROVE  Fits(new)
<1>1. CASE Ending(k) /\ <<old, fsm>> \in ClientLeads /\ new.up \subseteq k.up \cup {"ACK"}
  <2>1. fsm \in {"ESTABLISHED", "CLOSE_WAIT"}
    BY <1>1 DEF ClientLeads
  <2> QED
    BY <1>1, <2>1 DEF Fits, Ending
<1>2. CASE /\ Ending(k) /\ old = "CLOSE_WAIT" /\ fsm = "LAST_ACK"
           /\ new.up \subseteq k.up \cup {"FIN"}
  BY <1>2 DEF Fits, Ending, Over
<1>3. CASE /\ Over(k) /\ fsm \in {"LAST_ACK", "CLOSED"}
           /\ new.up \subseteq k.up \cup {"ACK"}
  BY <1>3 DEF Fits, Over
<1> QED
  BY <1>1, <1>2, <1>3

\* The client's connection has been removed.
LEMMA ClientLeaves ==
  ASSUME NEW k, NEW new, new.server = k.server, Over(k), new.client = {},
         new.up \subseteq k.up \cup {"RST"}, new.down \subseteq k.down
  PROVE  Fits(new)
BY DEF Fits, Over

LEMMA ServerEnds ==
  ASSUME NEW k, NEW new, new.client = k.client, NEW fsm, new.server = {fsm},
         \/ Opened(k) /\ fsm = "FIN_WAIT_1" /\ new.down \subseteq k.down \cup {"FIN"}
         \/ /\ Ending(k) /\ fsm \in {"FIN_WAIT_1", "FIN_WAIT_2", "CLOSED"}
            /\ new.down \subseteq k.down
         \/ /\ Over(k) /\ fsm \in {"FIN_WAIT_1", "FIN_WAIT_2", "CLOSING", "TIME_WAIT", "CLOSED"}
            /\ new.down \subseteq k.down \cup {"ACK"},
         new.up \subseteq k.up
  PROVE  Fits(new)
<1>1. CASE Opened(k) /\ fsm = "FIN_WAIT_1" /\ new.down \subseteq k.down \cup {"FIN"}
  BY <1>1 DEF Fits, Opened, Ending
<1>2. CASE /\ Ending(k) /\ fsm \in {"FIN_WAIT_1", "FIN_WAIT_2", "CLOSED"}
           /\ new.down \subseteq k.down
  BY <1>2 DEF Fits, Ending
<1>3. CASE /\ Over(k)
           /\ fsm \in {"FIN_WAIT_1", "FIN_WAIT_2", "CLOSING", "TIME_WAIT", "CLOSED"}
           /\ new.down \subseteq k.down \cup {"ACK"}
  BY <1>3 DEF Fits, Over
<1> QED
  BY <1>1, <1>2, <1>3

LEMMA ServerLeaves ==
  ASSUME NEW k, NEW new, new.client = k.client, Over(k), new.server = {},
         new.up \subseteq k.up, new.down \subseteq k.down \cup {"ACK"}
  PROVE  Fits(new)
BY DEF Fits, Over

\* A server gives up waiting for the end of the handshake.
LEMMA ServerWaits ==
  ASSUME NEW k, NEW new, Fits(k), new.client = k.client,
         k.server = {"SYN_RCVD"}, new.server = {"LISTEN"},
         new.up \subseteq k.up, new.down \subseteq k.down
  PROVE  Fits(new)
<1>1. Answered(k) \/ Opening(k)
  BY DEF Fits, Calling, Opened, Ending, Over
<1>2. CASE Answered(k)
  BY <1>2 DEF Fits, Answered
<1>3. CASE Opening(k)
  BY <1>3 DEF Fits, Opening
<1> QED
  BY <1>1, <1>2, <1>3

----------------------------------------------------------------------------
(* What remains of a step: its host, and no more. *)

\* The calls of a simulation that runs.
Undisturbed ==
    HostsInv /\ TypesInv /\ AppsInv /\ DataInv /\ PortsServeOnce /\ CallsInv /\ Running

Expected == {"NOT_OPEN", "DUPLICATE_CLOSE", "none"}

LEMMA ShapesStay ==
  ASSUME HostsInv, Shapes, world' = world, up' = up, NEW h \in Host, NEW U,
         tables' = [tables EXCEPT ![h] = U],
         \A p \in DOMAIN U.conns : ConnShape(h, U.conns[p]),
         \A s \in wire' : s \in wire \/ SegmentShape(s)
  PROVE  Shapes'
<1>1. \A g \in Host : tables'[g] = IF g = h THEN U ELSE tables[g]
  <2>1. tables = [g \in Host |-> tables[g]]
    BY DEF HostsInv
  <2> QED
    BY <2>1
<1>2. \A g \in Host : \A p \in DOMAIN tables'[g].conns : ConnShape(g, tables'[g].conns[p])
  BY <1>1 DEF Shapes
<1>3. \A s \in wire' : SegmentShape(s)
  BY DEF Shapes
<1>4. \A g \in Host : \A p \in DOMAIN tables'[g].conns : ConnShape(g, tables[g].conns[p])'
  BY <1>2, SameWorld DEF ConnShape
<1>5. \A s \in wire' : SegmentShape(s)'
  BY <1>3, SameWorld DEF SegmentShape, Carries
<1> QED
  BY <1>4, <1>5 DEF Shapes

LEMMA FailsQuietly ==
  ASSUME Undisturbed, NEW h, NEW reason, reason \notin Expected, Fail(reason, h)
  PROVE  CallsInv'
<1>1. /\ world' = world /\ up' = up /\ tables' = tables /\ wire' = wire
      /\ error'.reason = reason
  BY DEF Fail
<1>2. Shapes /\ PortsServeOnce
  BY DEF Undisturbed, CallsInv
<1>3. Shapes'
  <2>1. \A g \in Host : \A p \in DOMAIN tables[g].conns : ConnShape(g, tables[g].conns[p])'
    BY <1>1, <1>2, SameWorld DEF ConnShape, Shapes
  <2>2. \A s \in wire' : SegmentShape(s)'
    BY <1>1, <1>2, SameWorld DEF SegmentShape, Carries, Shapes
  <2> QED
    BY <1>1, <1>2, <2>1, <2>2 DEF Shapes
<1>4. ClosesInTime' /\ ~Running'
  BY <1>1 DEF ClosesInTime, Running, Expected
<1> QED
  BY <1>3, <1>4 DEF CallsInv

\* A step of host h in the call of a from port.
LEMMA CallsGoOn ==
  ASSUME Undisturbed, world' = world, up' = up, error' = error, NEW h \in Host, NEW U, NEW Q,
         tables' = [tables EXCEPT ![h] = U], toApp' = [toApp EXCEPT ![h] = Q],
         \A p \in DOMAIN U.conns : ConnShape(h, U.conns[p]),
         \A s \in wire' : s \in wire \/ SegmentShape(s),
         Pending(U.conns, Q),
         NEW a \in Clients, NEW port \in Ephemeral,
         OnlyIn(a, port, h, tables[h].conns, U.conns), WireOnlyIn(a, port),
         \A b \in Clients : Finished(b) => Finished(b)',
         CallFits(a, port)'
  PROVE  CallsInv'
<1>1. HostsInv /\ PortsServeOnce /\ Shapes /\ CallsFit /\ Pends /\ ClosesInTime
  BY DEF Undisturbed, CallsInv
<1>2. Shapes'
  BY <1>1, ShapesStay
<1>3. CallsFit'
  BY <1>1, CallsMove
<1>4. Pends'
  <2>1. tables = [g \in Host |-> tables[g]] /\ toApp = [g \in Host |-> toApp[g]]
    BY <1>1 DEF HostsInv
  <2>2. \A g \in Host : /\ tables'[g] = IF g = h THEN U ELSE tables[g]
                        /\ toApp'[g] = IF g = h THEN Q ELSE toApp[g]
    BY <2>1
  <2>3. \A g \in Host : Pending(tables'[g].conns, toApp'[g])
    BY <1>1, <2>2 DEF Pends
  <2> QED
    BY <2>3 DEF Pends, Pending, AwaitsClose
<1>5. ClosesInTime'
  BY <1>1 DEF ClosesInTime
<1> QED
  BY <1>2, <1>3, <1>4, <1>5 DEF CallsInv

\* A client has finished for good.
LEMMA FinishedStays ==
  ASSUME HostsInv, world' = world, NEW h \in Host, NEW U, NEW Q,
         tables' = [tables EXCEPT ![h] = U], toApp' = [toApp EXCEPT ![h] = Q],
         \A b \in Clients : sockets'[b].timer = "CONNECT" =>
            sockets[b].timer = "CONNECT" \/ (b[1] = h /\ ~Quiet(b, toApp[h])),
         \/ ~AllClosed(tables[h].conns)
         \/ /\ AllClosed(U.conns)
            /\ \A b \in Clients : b[1] = h /\ Quiet(b, toApp[h]) => Quiet(b, Q),
         NEW b \in Clients, b[1] \in Host, Finished(b)
  PROVE  Finished(b)'
<1>1. tables = [g \in Host |-> tables[g]] /\ toApp = [g \in Host |-> toApp[g]]
  BY DEF HostsInv
<1>2. /\ tables'[b[1]] = IF b[1] = h THEN U ELSE tables[b[1]]
      /\ toApp'[b[1]] = IF b[1] = h THEN Q ELSE toApp[b[1]]
  BY <1>1
<1>3. sockets'[b].timer # "CONNECT" /\ Quiet(b, toApp'[b[1]]) /\ AllClosed(tables'[b[1]].conns)
  BY <1>2 DEF Finished
<1> QED
  BY <1>3 DEF Finished, Quiet, AllClosed

LEMMA FitsLater ==
  ASSUME world' = world, NEW a, NEW port, NEW k, k = Call(a, port)',
         Served(a) => /\ Fits(k)
                      /\ k.client = {} => Unused(k) \/ Finished(a)'
                      /\ OneEach(a, port)',
         ~Served(a) => Refused(k),
         "SYN_SENT" \in k.client /\ ~world.loses => k.up # {} \/ k.down # {}
  PROVE  CallFits(a, port)'
<1> DEFINE m == Call(a, port)'
<1>1. /\ (Fits(Call(a, port)))' <=> Fits(m)
      /\ (Unused(Call(a, port)))' <=> Unused(m)
      /\ (Refused(Call(a, port)))' <=> Refused(m)
      /\ (Awaited(Call(a, port)))' <=>
            ("SYN_SENT" \in m.client /\ ~world.loses => m.up # {} \/ m.down # {})
      /\ ((Call(a, port).client) = {})' <=> m.client = {}
  BY DEF Fits, Unused, Refused, Awaited, Calling, Answered, Opening, Opened, Ending, Over
<1>2. m = k
  OBVIOUS
<1> HIDE DEF m
<1>3. Served(a)' <=> Served(a)
  BY SameWorld
<1> QED
  BY <1>1, <1>2, <1>3 DEF CallFits

----------------------------------------------------------------------------
(* Where connections are in their calls, and segments find them. *)

AtClient(a, port, h, conn) ==
    /\ h = a[1] /\ conn.pair \in ClientKeys(a, port) /\ conn.pair.localPort \in Ephemeral
    /\ conn.pair.remoteAddr # NoHost
    /\ Call(a, port).client = {conn.fsm}

AtServer(a, port, h, conn) ==
    /\ h = Peer(a) /\ conn.pair \in ServerKeys(a, port) /\ conn.pair.localPort \notin Ephemeral
    /\ conn.pair.remoteAddr # NoHost
    /\ Call(a, port).server = {conn.fsm} /\ Served(a)

AtListener(a, port, h, conn) ==
    /\ h = Peer(a) /\ conn.pair.remoteAddr = NoHost /\ conn.pair.localPort \notin Ephemeral
    /\ conn.fsm = "LISTEN" /\ Call(a, port).server = {} /\ Served(a)

LEMMA CallsRun ==
  ASSUME Undisturbed
  PROVE  /\ HostsInv /\ TypesInv /\ AppsInv /\ DataInv /\ PortsServeOnce /\ Running
         /\ Shapes /\ CallsFit /\ Pends
         /\ world \in Scenarios /\ DOMAIN tables = Host /\ \A h \in Host : up[h]
<1>1. HostsInv /\ TypesInv /\ AppsInv /\ DataInv /\ PortsServeOnce /\ Running /\ CallsInv
  BY DEF Undisturbed
<1>2. tables = [h \in Host |-> tables[h]] /\ world \in Scenarios
  BY <1>1 DEF HostsInv
<1> QED
  BY <1>1, <1>2 DEF CallsInv, Shapes

LEMMA ConnIs ==
  ASSUME Undisturbed, NEW h \in Host, NEW p \in DOMAIN tables[h].conns
  PROVE  LET conn == tables[h].conns[p]
         IN  /\ ConnShape(h, conn) /\ ListensOnly(conn) /\ IsConnection(conn, nextId)
             /\ ConnData(conn, h, world.par) /\ OfApp(world.apps, h, conn)
<1>1. HostsInv /\ AppsInv /\ DataInv /\ Shapes
  BY CallsRun
<1>2. TablesOK(tables[h], nextId) /\ HostData(tables[h], h, world.par)
      /\ \A q \in DOMAIN tables[h].conns : OfApp(world.apps, h, tables[h].conns[q])
  BY <1>1 DEF HostsInv, HostOK, DataInv, AppsInv, HostFits
<1> QED
  BY <1>1, <1>2 DEF TablesOK, HostData, Shapes

LEMMA EndStates ==
  ASSUME Undisturbed, NEW a \in Clients, NEW port \in Ephemeral, NEW h \in Host,
         NEW p \in DOMAIN tables[h].conns
  PROVE  LET conn == tables[h].conns[p]
         IN  /\ h = a[1] /\ conn.pair \in ClientKeys(a, port) => AtClient(a, port, h, conn)
             /\ h = Peer(a) /\ conn.pair \in ServerKeys(a, port) => AtServer(a, port, h, conn)
<1> DEFINE C == tables[h].conns
           conn == C[p]
<1>1. /\ HostsInv /\ world \in Scenarios /\ PortsServeOnce
      /\ PeerPort(a) \notin Ephemeral /\ Peer(a) # NoHost /\ a[1] # NoHost
  BY CallsRun, CallersAre
<1>2. conn.pair.localPort \notin Ephemeral => Serves(h, conn.pair.localPort)
  BY ConnIs DEF ConnShape
<1>3. \A keys \in {ClientKeys(a, port), ServerKeys(a, port)} : conn.pair \in keys =>
         StatesAt(C, keys) = {conn.fsm}
  <2> TAKE keys \in {ClientKeys(a, port), ServerKeys(a, port)}
  <2> HAVE conn.pair \in keys
  <2>1. \A q \in DOMAIN C : C[q].pair \in keys => q = p
    BY <1>1, OneConn
  <2> HIDE DEF C
  <2> QED
    BY <2>1, StatesOne DEF C
<1>4. /\ Call(a, port).client = StatesAt(tables[a[1]].conns, ClientKeys(a, port))
      /\ Call(a, port).server = StatesAt(tables[Peer(a)].conns, ServerKeys(a, port))
  BY DEF Call
<1>5. ASSUME h = a[1], conn.pair \in ClientKeys(a, port)
      PROVE  AtClient(a, port, h, conn)
  <2>1. conn.pair.localPort = port /\ conn.pair.remoteAddr = Peer(a)
    BY <1>5, KeysOf
  <2> QED
    BY <1>1, <1>3, <1>4, <1>5, <2>1 DEF AtClient
<1>6. ASSUME h = Peer(a), conn.pair \in ServerKeys(a, port)
      PROVE  AtServer(a, port, h, conn)
  <2>1. conn.pair.localPort = PeerPort(a) /\ conn.pair.remoteAddr = a[1]
    BY <1>6, KeysOf
  <2>2. Served(a)
    BY <1>1, <1>2, <1>6, <2>1 DEF Served
  <2> QED
    BY <1>1, <1>3, <1>4, <1>6, <2>1, <2>2 DEF AtServer
<1> QED
  BY <1>5, <1>6

LEMMA EndOf ==
  ASSUME Undisturbed, NEW h \in Host, NEW p \in DOMAIN tables[h].conns,
         tables[h].conns[p].fsm # "LISTEN" \/ tables[h].conns[p].pair.remoteAddr # NoHost
  PROVE  \E a \in Clients, port \in Ephemeral :
            \/ AtClient(a, port, h, tables[h].conns[p])
            \/ AtServer(a, port, h, tables[h].conns[p])
<1>1. tables[h].conns[p].pair.remoteAddr # NoHost /\ OfCall(h, tables[h].conns[p].pair)
  BY ConnIs DEF ListensOnly, ConnShape
<1>2. PICK a \in Clients, port \in Ephemeral : InCall(a, port, h, tables[h].conns[p].pair)
  BY <1>1 DEF OfCall
<1> QED
  BY <1>2, EndStates DEF InCall

\* A segment belongs to a call, and does not tell its receiver more than it has to hear.
LEMMA SegmentOf ==
  ASSUME Undisturbed, NEW s \in wire
  PROVE  \E a \in Clients, port \in Ephemeral : Carries(a, port, s)
BY CallsRun DEF Shapes, SegmentShape

LEMMA FoundEnd ==
  ASSUME Undisturbed, NEW s \in wire, NEW h \in Host, h = s.dst,
         NEW p \in DOMAIN tables[h].conns,
         p = FindConnForSegment(tables[h], s.src, h, s.srcPort, s.destPort),
         NEW a \in Clients, NEW port \in Ephemeral, Carries(a, port, s)
  PROVE  LET conn == tables[h].conns[p]
         IN  \/ Downward(a, port, s) /\ AtClient(a, port, h, conn)
             \/ Upward(a, port, s) /\ AtServer(a, port, h, conn)
             \/ Upward(a, port, s) /\ AtListener(a, port, h, conn)
<1> DEFINE T == tables[h]
           conn == T.conns[p]
           pair == SockPair(h, s.src, s.destPort, s.srcPort)
<1>1. /\ HostsInv /\ world \in Scenarios /\ PortsServeOnce /\ PortsApart
      /\ PeerPort(a) \notin Ephemeral /\ Peer(a) # NoHost /\ a[1] # NoHost
      /\ a[1] \in Host /\ Peer(a) \in Host
  BY CallsRun, CallersAre, PortsAreApart
<1>2. nextId \in Nat /\ TablesOK(T, nextId) /\ s.src \in Host
  BY <1>1 DEF HostsInv, HostOK
<1>3. /\ conn.pair.localPort = s.destPort
      /\ conn.pair.remoteAddr \in {s.src, NoHost}
      /\ conn.pair.remoteAddr = s.src => conn.pair.remotePort = s.srcPort
      /\ conn.pair = pair \/ pair \notin DOMAIN T.pairs
  <2>1. FindConnForSegment(T, s.src, h, s.srcPort, s.destPort) # NoConn
    <3>1. DOMAIN T.conns \subseteq Pointer /\ NoConn \notin Pointer
      BY <1>2, AddressAssumption DEF TablesOK, IsTables
    <3> QED
      BY <3>1
  <2> QED
    BY <1>2, <2>1, FoundConn DEF T
<1> HIDE DEF T
<1>4. /\ ConnShape(h, conn) /\ ListensOnly(conn) /\ ConnData(conn, h, world.par)
  BY ConnIs DEF T
<1>5. ASSUME NEW b \in Clients, NEW q \in Ephemeral, InCall(b, q, h, conn.pair)
      PROVE  \/ AtClient(b, q, h, conn) \/ AtServer(b, q, h, conn)
  BY <1>5, EndStates DEF InCall, T
<1>6. CASE Downward(a, port, s)
  <2>1. h = a[1] /\ s.destPort = port
    BY <1>6 DEF Downward
  <2>2. conn.pair.localPort \in Ephemeral /\ conn.pair.remoteAddr # NoHost
    BY <1>3, <1>4, <2>1, AddressAssumption DEF ConnData
  <2>3. PICK b \in Clients, q \in Ephemeral : InCall(b, q, h, conn.pair)
    BY <1>4, <2>2 DEF ConnShape, OfCall
  <2>4. AtClient(b, q, h, conn)
    BY <1>5, <2>2, <2>3 DEF AtServer
  <2>5. b = a
    BY <1>1, <2>1, <2>4, CallersAre DEF AtClient
  <2>6. q = port
    BY <1>3, <2>1, <2>4, KeysOf DEF AtClient
  <2> QED
    BY <1>6, <2>4, <2>5, <2>6 DEF T
<1>7. CASE Upward(a, port, s) /\ conn.pair.remoteAddr = s.src
  <2>1. /\ h = Peer(a) /\ s.src = a[1] /\ s.destPort = PeerPort(a) /\ s.srcPort = port
    BY <1>7 DEF Upward
  <2>2. conn.pair.localPort \notin Ephemeral /\ conn.pair.remoteAddr # NoHost
    BY <1>1, <1>3, <1>7, <2>1
  <2>3. PICK b \in Clients, q \in Ephemeral : InCall(b, q, h, conn.pair)
    BY <1>4, <2>2 DEF ConnShape, OfCall
  <2>4. AtServer(b, q, h, conn)
    BY <1>5, <2>2, <2>3 DEF AtClient
  <2>5. conn.pair.remotePort = q /\ conn.pair.remoteAddr = b[1]
    BY <2>4, KeysOf DEF AtServer
  <2>6. b = a
    BY <1>1, <1>7, <2>1, <2>5, CallersAre
  <2>7. q = port
    BY <1>3, <1>7, <2>1, <2>5
  <2> QED
    BY <1>7, <2>4, <2>6, <2>7 DEF T
<1>8. CASE Upward(a, port, s) /\ conn.pair.remoteAddr = NoHost
  <2>1. /\ h = Peer(a) /\ s.src = a[1] /\ s.destPort = PeerPort(a) /\ s.srcPort = port
    BY <1>8 DEF Upward
  <2>2. conn.pair.localPort \notin Ephemeral /\ conn.fsm = "LISTEN"
    BY <1>1, <1>3, <1>4, <1>8, <2>1 DEF ListensOnly
  <2>3. Served(a)
    BY <1>3, <1>4, <2>1, <2>2 DEF ConnShape, Served
  <2>4. pair \notin DOMAIN T.pairs
    <3>1. pair.remoteAddr # NoHost
      BY <1>1, <2>1 DEF SockPair
    <3> QED
      BY <1>3, <1>8, <3>1
  <2>5. \A q \in DOMAIN T.conns : T.conns[q].pair \notin ServerKeys(a, port)
    BY <1>2, <2>1, <2>4 DEF ServerKeys, TablesOK, PairsAgree
  <2>6. Call(a, port).server = {}
    <3>1. StatesAt(T.conns, ServerKeys(a, port)) = {}
      BY <2>5, StatesNone
    <3> QED
      BY <2>1, <3>1 DEF Call, T
  <2> QED
    BY <1>8, <2>1, <2>2, <2>3, <2>6 DEF AtListener, T
<1> QED
  BY <1>3, <1>6, <1>7, <1>8 DEF Carries, T

LEMMA FoundNone ==
  ASSUME Undisturbed, NEW s \in wire, NEW h \in Host, h = s.dst,
         FindConnForSegment(tables[h], s.src, h, s.srcPort, s.destPort) = NoConn,
         NEW a \in Clients, NEW port \in Ephemeral, Carries(a, port, s)
  PROVE  \/ Downward(a, port, s) /\ Call(a, port).client = {}
         \/ Upward(a, port, s) /\ ~Served(a)
<1> DEFINE T == tables[h]
<1>1. /\ HostsInv /\ world \in Scenarios /\ PortsServeOnce /\ up[h]
      /\ a[1] \in Host /\ Peer(a) \in Host
  BY CallsRun, CallersAre
<1>2. nextId \in Nat /\ TablesOK(T, nextId) /\ s.src \in Host
  BY <1>1 DEF HostsInv, HostOK
<1>3. /\ Listening(NoHost, s.destPort) \notin DOMAIN T.pairs
      /\ \A addr \in {h, NoHost} :
            SockPair(addr, s.src, s.destPort, s.srcPort) \notin DOMAIN T.pairs
  <2>1. NoConn \notin DOMAIN T.conns
    BY <1>2, AddressAssumption DEF TablesOK, IsTables
  <2> QED
    BY <1>2, <2>1, FoundConn DEF T
<1>4. CASE Downward(a, port, s)
  <2>1. /\ h = a[1] /\ s.src = Peer(a) /\ s.destPort = port /\ s.srcPort = PeerPort(a)
    BY <1>4 DEF Downward
  <2>2. \A q \in DOMAIN T.conns : T.conns[q].pair \notin ClientKeys(a, port)
    BY <1>2, <1>3, <2>1 DEF ClientKeys, TablesOK, PairsAgree
  <2> HIDE DEF T
  <2>3. StatesAt(T.conns, ClientKeys(a, port)) = {}
    BY <2>2, StatesNone
  <2> QED
    BY <1>4, <2>1, <2>3 DEF Call, T
<1>5. CASE Upward(a, port, s)
  <2>1. h = Peer(a) /\ s.destPort = PeerPort(a)
    BY <1>5 DEF Upward
  <2>2. ASSUME Served(a)
        PROVE  FALSE
    <3>1. PICK b \in DOMAIN world.apps :
             Listener(b) /\ b[1] = h /\ world.apps[b].port = s.destPort
      BY <2>1, <2>2 DEF Served, Serves
    <3>2. HasListener(b)
      BY <1>1, <3>1 DEF HostsInv
    <3>3. Listens(T, b[2], sockets[b].connId, s.destPort)
      BY <3>1, <3>2 DEF HasListener
    <3>4. Listening(NoHost, s.destPort) \in DOMAIN T.pairs
      <4> DEFINE key == <<b[2], sockets[b].connId>>
                 listener == T.apps[key]
      <4>1. key \in DOMAIN T.apps /\ T.conns[listener].pair = Listening(NoHost, s.destPort)
        BY <3>3 DEF Listens
      <4> HIDE DEF key, T
      <4>2. AppsAgree(T) /\ PairsAgree(T)
        BY <1>2 DEF TablesOK
      <4>3. listener \in DOMAIN T.conns
        BY <4>1, <4>2 DEF AppsAgree
      <4> HIDE DEF listener
      <4> QED
        BY <4>1, <4>2, <4>3 DEF PairsAgree
    <3> QED
      BY <1>3, <3>4
  <2> QED
    BY <1>5, <2>2
<1> QED
  BY <1>4, <1>5 DEF Carries

----------------------------------------------------------------------------
(* A connection performs an event in its call. *)

LEMMA SentGives ==
  ASSUME NEW h, NEW pair, NEW kind
  PROVE  /\ \A t \in Sent(h, pair, kind) :
               /\ t.kind = kind /\ t.src = h /\ t.dst = pair.remoteAddr
               /\ t.srcPort = pair.localPort /\ t.destPort = pair.remotePort
         /\ Sent(h, pair, kind) # {}
<1> DEFINE s == Segment(kind, h, pair.remoteAddr, pair.localPort, pair.remotePort)
           copy == [s EXCEPT !.copy = 2]
<1>1. /\ s.kind = kind /\ s.src = h /\ s.dst = pair.remoteAddr
      /\ s.srcPort = pair.localPort /\ s.destPort = pair.remotePort
      /\ copy.kind = kind /\ copy.src = h /\ copy.dst = pair.remoteAddr
      /\ copy.srcPort = pair.localPort /\ copy.destPort = pair.remotePort
  BY DEF Segment
<1>2. Sent(h, pair, kind) \in {{s}, {s, copy}}
  BY DEF Sent
<1> HIDE DEF s, copy
<1> QED
  BY <1>1, <1>2

LEMMA SentInCall ==
  ASSUME NEW a \in Clients, NEW port \in Ephemeral, NEW h, NEW conn, NEW kind,
         NEW t \in Sent(h, conn.pair, kind)
  PROVE  /\ t.kind = kind
         /\ AtClient(a, port, h, conn) => Upward(a, port, t)
         /\ AtServer(a, port, h, conn) => Downward(a, port, t)
BY SentGives, KeysOf DEF AtClient, AtServer, Upward, Downward

\* What the step of one end leaves of the call.
Advances(state, other, out, in, newState, newOther, newOut, newIn, new, sends, gone) ==
    /\ newState = {new} \/ (newState = {} /\ new = "CLOSED")
    /\ newOther = other
    /\ newOut \subseteq out \cup sends /\ out \subseteq newOut /\ sends \subseteq newOut
    /\ newIn \subseteq in /\ in \ gone \subseteq newIn

LEMMA PerformInCall ==
  ASSUME Undisturbed, NEW h \in Host, NEW p \in DOMAIN tables[h].conns,
         NEW event, NEW sends, NEW told, NEW st, NEW queue, NEW gone,
         Performs(h, p, event, sends, told, st, queue, gone), sends \cap Once = {},
         NEW a \in Clients, NEW port \in Ephemeral, \A t \in gone : t \in wire,
         \/ AtClient(a, port, h, tables[h].conns[p]) /\ \A t \in gone : Downward(a, port, t)
         \/ AtServer(a, port, h, tables[h].conns[p]) /\ \A t \in gone : Upward(a, port, t)
  PROVE  LET conn == tables[h].conns[p]
             new == NextState(conn.fsm, event)
             k == Call(a, port)
             m == Call(a, port)'
         IN  /\ OnlyIn(a, port, h, tables[h].conns, tables'[h].conns) /\ WireOnlyIn(a, port)
             /\ OneEach(a, port) => /\ OneEach(a, port)'
                                   /\ Spent(m.up, KindsUp(a, port, gone), {})
                                   /\ Spent(m.down, KindsDown(a, port, gone), {})
             /\ AtClient(a, port, h, conn) =>
                   Advances(k.client, k.server, k.up, k.down, m.client, m.server, m.up, m.down,
                            new, sends, KindsDown(a, port, gone))
             /\ AtClient(a, port, h, conn) /\ p \in DOMAIN tables'[h].conns => m.client = {new}
             /\ AtServer(a, port, h, conn) =>
                   Advances(k.server, k.client, k.down, k.up, m.server, m.client, m.down, m.up,
                            new, sends, KindsUp(a, port, gone))
             /\ AtServer(a, port, h, conn) /\ p \in DOMAIN tables'[h].conns => m.server = {new}
<1> DEFINE C == tables[h].conns
           conn == C[p]
           new == NextState(conn.fsm, event)
           U == tables'[h]
           D == U.conns
           k == Call(a, port)
           m == Call(a, port)'
           sent == UNION {Sent(h, conn.pair, kind) : kind \in sends}
<1>1. HostsInv /\ PortsServeOnce /\ world \in Scenarios
  BY CallsRun
<1>2. /\ world' = world /\ tables' = [tables EXCEPT ![h] = U]
      /\ Moved(C, D, p, new, st)
      /\ wire' = (wire \ gone) \cup sent
  BY DEF Performs
<1>3. ~(AtClient(a, port, h, conn) /\ AtServer(a, port, h, conn))
  BY DEF AtClient, AtServer
<1>4. OneTurns(C, D, p) /\ (p \in DOMAIN D => D[p].pair = conn.pair /\ D[p].fsm = new)
      /\ (p \notin DOMAIN D => new = "CLOSED")
  <2> HIDE DEF D, new, U
  <2> QED
    BY <1>2 DEF Moved, OneTurns
<1>5. OnlyIn(a, port, h, C, D)
  <2>1. InCall(a, port, h, conn.pair)
    BY DEF AtClient, AtServer, InCall
  <2>2. \A q : Alters(C, D, q) /\ (q \in DOMAIN C \/ q \in DOMAIN D) => q = p
    BY <1>4 DEF OneTurns, Alters
  <2> HIDE DEF U
  <2> QED
    BY <1>4, <2>1, <2>2 DEF OnlyIn, Within
<1>6. \A kind \in sends : \A t \in Sent(h, conn.pair, kind) :
         /\ t.kind = kind
         /\ AtClient(a, port, h, conn) => Upward(a, port, t)
         /\ AtServer(a, port, h, conn) => Downward(a, port, t)
  BY SentInCall
<1>7. \A kind \in sends : \E t \in sent : t.kind = kind
  BY <1>6, SentGives
<1>8. \A t \in sent : /\ t.kind \in sends
                      /\ AtClient(a, port, h, conn) => Upward(a, port, t)
                      /\ AtServer(a, port, h, conn) => Downward(a, port, t)
  BY <1>6
<1> HIDE DEF sent
<1>9. \A t : ~(Upward(a, port, t) /\ Downward(a, port, t))
  BY <1>1, SegmentsApart DEF Carries
<1>10. CASE AtClient(a, port, h, conn)
  <2> DEFINE none == {}
  <2>1. \A t \in gone : t \in wire /\ Downward(a, port, t)
    BY <1>3, <1>10
  <2>2. Sends(a, port, gone, sends, none)
    BY <1>2, <1>7, <1>8, <1>9, <1>10, <2>1 DEF Sends, Carries
  <2>3. /\ m.client = StateIn(D, p) /\ m.server = k.server
    <3>1. h = a[1] /\ conn.pair \in ClientKeys(a, port)
      BY <1>10 DEF AtClient
    <3>2. p \in DOMAIN D => D[p].pair \in ClientKeys(a, port)
      BY <1>4, <3>1
    <3> QED
      BY <1>1, <1>2, <1>4, <3>1, <3>2, EndTurns
  <2>4. m.client = {new} \/ (m.client = {} /\ new = "CLOSED")
    BY <1>4, <2>3 DEF StateIn
  <2>5. /\ WireOnlyIn(a, port)
        /\ Flows(k.up, m.up, KindsUp(a, port, gone), sends)
        /\ Flows(k.down, m.down, KindsDown(a, port, gone), none)
        /\ OneEach(a, port) => OneEach(a, port)' /\ Spent(m.down, KindsDown(a, port, gone), {})
    <3>1. sends \cap k.up \cap Once = {} /\ none \cap k.down \cap Once = {}
      OBVIOUS
    <3> HIDE DEF k, none
    <3> QED
      BY <1>1, <1>2, <2>2, <3>1, WireFlows DEF k, none
  <2>6. KindsUp(a, port, gone) = {}
    BY <1>9, <2>1 DEF KindsUp
  <2> HIDE DEF D, k, m, new
  <2>7. Advances(k.client, k.server, k.up, k.down, m.client, m.server, m.up, m.down,
                 new, sends, KindsDown(a, port, gone))
    BY <2>3, <2>4, <2>5, <2>6 DEF Advances, Flows
  <2> QED
    BY <1>3, <1>4, <1>5, <1>10, <2>3, <2>5, <2>6, <2>7 DEF D, k, m, new, Spent, StateIn
<1>11. CASE AtServer(a, port, h, conn)
  <2> DEFINE none == {}
  <2>1. \A t \in gone : t \in wire /\ Upward(a, port, t)
    BY <1>3, <1>11
  <2>2. Sends(a, port, gone, none, sends)
    BY <1>2, <1>7, <1>8, <1>9, <1>11, <2>1 DEF Sends, Carries
  <2>3. /\ m.server = StateIn(D, p) /\ m.client = k.client
    <3>1. h = Peer(a) /\ conn.pair \in ServerKeys(a, port)
      BY <1>11 DEF AtServer
    <3>2. p \in DOMAIN D => D[p].pair \in ServerKeys(a, port)
      BY <1>4, <3>1
    <3> QED
      BY <1>1, <1>2, <1>4, <3>1, <3>2, EndTurns
  <2>4. m.server = {new} \/ (m.server = {} /\ new = "CLOSED")
    BY <1>4, <2>3 DEF StateIn
  <2>5. /\ WireOnlyIn(a, port)
        /\ Flows(k.up, m.up, KindsUp(a, port, gone), none)
        /\ Flows(k.down, m.down, KindsDown(a, port, gone), sends)
        /\ OneEach(a, port) => OneEach(a, port)' /\ Spent(m.up, KindsUp(a, port, gone), {})
    <3>1. sends \cap k.down \cap Once = {} /\ none \cap k.up \cap Once = {}
      OBVIOUS
    <3> HIDE DEF k, none
    <3> QED
      BY <1>1, <1>2, <2>2, <3>1, WireFlows DEF k, none
  <2>6. KindsDown(a, port, gone) = {}
    BY <1>9, <2>1 DEF KindsDown
  <2> HIDE DEF D, k, m, new
  <2>7. Advances(k.server, k.client, k.down, k.up, m.server, m.client, m.down, m.up,
                 new, sends, KindsUp(a, port, gone))
    BY <2>3, <2>4, <2>5, <2>6 DEF Advances, Flows
  <2> QED
    BY <1>3, <1>4, <1>5, <1>11, <2>3, <2>5, <2>6, <2>7 DEF D, k, m, new, Spent, StateIn
<1> QED
  BY <1>10, <1>11

\* Its shape, and that of what it sends.
LEMMA PerformShapes ==
  ASSUME Undisturbed, NEW h \in Host, NEW p \in DOMAIN tables[h].conns,
         NEW event, NEW sends, NEW told, NEW st, NEW queue, NEW gone, NEW armed, NEW removes,
         Performs(h, p, event, sends, told, st, queue, gone),
         LET conn == tables[h].conns[p]
             new == NextState(conn.fsm, event)
         IN  /\ Leaves(tables[h].conns, tables'[h].conns, p, EntryTimers(conn.fsm, new, armed), removes)
             /\ \E a \in Clients, port \in Ephemeral :
                   AtClient(a, port, h, conn) \/ AtServer(a, port, h, conn) \/ sends = {}
             /\ "SYNACK" \notin sends /\ st.snd_wnd = conn.st.snd_wnd
             /\ new \in Unclosed => "REXMIT" \notin armed
             /\ conn.fsm # "CLOSED" /\ (conn.fsm = "SYN_SENT" => new \in {"SYN_SENT", "CLOSED"})
  PROVE  /\ \A q \in DOMAIN tables'[h].conns : ConnShape(h, tables'[h].conns[q])
         /\ \A s \in wire' : s \in wire \/ SegmentShape(s)
<1> DEFINE C == tables[h].conns
           conn == C[p]
           new == NextState(conn.fsm, event)
           left == EntryTimers(conn.fsm, new, armed)
           D == tables'[h].conns
<1>1. \A q \in DOMAIN C : ConnShape(h, C[q])
  BY ConnIs
<1>2. Moved(C, D, p, new, st) /\ Leaves(C, D, p, left, removes)
      /\ wire' = (wire \ gone) \cup UNION {Sent(h, conn.pair, kind) : kind \in sends}
  BY DEF Performs
<1>3. /\ st.snd_wnd = conn.st.snd_wnd /\ "SYNACK" \notin sends
      /\ new \in Unclosed => "REXMIT" \notin armed
      /\ conn.fsm # "CLOSED" /\ (conn.fsm = "SYN_SENT" => new \in {"SYN_SENT", "CLOSED"})
  OBVIOUS
<1>4. PICK a \in Clients, port \in Ephemeral :
         AtClient(a, port, h, conn) \/ AtServer(a, port, h, conn) \/ sends = {}
  OBVIOUS
<1>5. left \subseteq armed
  BY DEF EntryTimers
<1>6. ASSUME NEW t \in wire', t \notin wire
      PROVE  SegmentShape(t)
  <2>1. PICK kind \in sends : t \in Sent(h, conn.pair, kind)
    BY <1>2, <1>6
  <2>2. AtClient(a, port, h, conn) \/ AtServer(a, port, h, conn)
    BY <1>4, <2>1
  <2> HIDE DEF conn
  <2>3. t.kind # "SYNACK" /\ Carries(a, port, t)
    BY <1>3, <2>1, <2>2, SentInCall DEF Carries
  <2> QED
    BY <2>3 DEF SegmentShape
<1> HIDE DEF new, left, D
<1>7. ASSUME NEW q \in DOMAIN D
      PROVE  ConnShape(h, D[q])
  <2>1. CASE q # p
    BY <1>1, <1>2, <1>7, <2>1 DEF Moved
  <2>2. CASE q = p
    <3>1. /\ D[p].pair = conn.pair /\ D[p].fsm = new /\ D[p].st = st /\ D[p].timers = left
      BY <1>2, <1>7, <2>2 DEF Moved, Leaves
    <3>2. ConnShape(h, conn)
      BY <1>1
    <3> HIDE DEF conn, C
    <3> QED
      BY <1>3, <1>5, <2>2, <3>1, <3>2 DEF ConnShape
  <2> QED
    BY <2>1, <2>2
<1> QED
  BY <1>6, <1>7 DEF D

\* The indications of its peer's end.
StillAwaits(C, D, p, Q) ==
    \/ \A i \in 1 .. Len(Q) : ~Closes(Q, i, C[p].connId)
    \/ p \in DOMAIN D /\ AwaitsClose(D[p])

SaysClose(C, D, p, told) ==
    \A i \in 1 .. Len(told) : told[i] = "PEER_CLOSED" =>
        /\ p \in DOMAIN D /\ AwaitsClose(D[p]) /\ ~AwaitsClose(C[p])
        /\ \A j \in 1 .. Len(told) : told[j] = "PEER_CLOSED" => i = j

LEMMA PendingMoves ==
  ASSUME NEW C, NEW D, NEW p \in DOMAIN C, NEW Q, NEW R, NEW told,
         Len(Q) \in Nat, Len(told) \in Nat, HearsFrom(R, Q, C[p], told), Pending(C, Q),
         \A q \in DOMAIN C : C[q].connId = C[p].connId => q = p,
         \A q \in DOMAIN C \ {p} : q \in DOMAIN D /\ D[q] = C[q],
         p \in DOMAIN D => D[p].gate = C[p].gate /\ D[p].connId = C[p].connId,
         StillAwaits(C, D, p, Q), SaysClose(C, D, p, told)
  PROVE  Pending(D, R)
<1> DEFINE id == C[p].connId
           n == Len(Q)
<1>1. /\ n \in Nat /\ Len(R) = n + Len(told)
      /\ \A i \in 1 .. n : R[i] = Q[i]
      /\ \A i \in 1 .. Len(told) : /\ R[n + i].gate = C[p].gate /\ R[n + i].connId = id
                                   /\ R[n + i].kind = told[i]
  BY DEF HearsFrom
<1>2. \A i \in 1 .. n : Closes(Q, i, id) => AwaitsClose(C[p])
  BY DEF Pending, Closes
<1>3. ASSUME NEW i \in 1 .. n, Q[i].kind = "PEER_CLOSED"
      PROVE  \E q \in DOMAIN D :
                D[q].gate = Q[i].gate /\ D[q].connId = Q[i].connId /\ AwaitsClose(D[q])
  <2>1. PICK q \in DOMAIN C :
           C[q].gate = Q[i].gate /\ C[q].connId = Q[i].connId /\ AwaitsClose(C[q])
    BY <1>3 DEF Pending
  <2>2. CASE q # p
    BY <2>1, <2>2
  <2>3. CASE q = p
    BY <1>3, <2>1, <2>3 DEF Closes, StillAwaits
  <2> QED
    BY <2>2, <2>3
<1>4. ASSUME NEW i \in 1 .. Len(R), i \notin 1 .. n
      PROVE  \E m \in 1 .. Len(told) : i = n + m
  <2>1. i - n \in 1 .. Len(told) /\ i = n + (i - n)
    BY <1>1, <1>4
  <2> QED
    BY <2>1
<1> HIDE DEF n
<1>5. ASSUME NEW i \in 1 .. Len(R), R[i].kind = "PEER_CLOSED"
      PROVE  \E q \in DOMAIN D :
                D[q].gate = R[i].gate /\ D[q].connId = R[i].connId /\ AwaitsClose(D[q])
  <2>1. CASE i \in 1 .. n
    BY <1>1, <1>3, <1>5, <2>1
  <2>2. CASE i \notin 1 .. n
    <3>1. PICK m \in 1 .. Len(told) : i = n + m
      BY <1>4, <1>5, <2>2
    <3> QED
      BY <1>1, <1>5, <3>1 DEF SaysClose
  <2> QED
    BY <2>1, <2>2
<1>6. ASSUME NEW i \in 1 .. Len(R), NEW j \in 1 .. Len(R),
             R[i].kind = "PEER_CLOSED", R[j].kind = "PEER_CLOSED", R[i].connId = R[j].connId
      PROVE  i = j
  <2>1. CASE i \in 1 .. n /\ j \in 1 .. n
    BY <1>1, <1>6, <2>1 DEF Pending, n
  <2>2. CASE i \notin 1 .. n /\ j \notin 1 .. n
    <3>1. PICK m \in 1 .. Len(told) : i = n + m
      BY <1>4, <1>6, <2>2
    <3>2. PICK l \in 1 .. Len(told) : j = n + l
      BY <1>4, <1>6, <2>2
    <3>3. m = l
      BY <1>1, <1>6, <3>1, <3>2 DEF SaysClose
    <3> QED
      BY <3>1, <3>2, <3>3
  <2>3. ASSUME NEW u \in {i, j}, NEW v \in {i, j}, u \in 1 .. n, v \notin 1 .. n
        PROVE  FALSE
    <3>1. PICK m \in 1 .. Len(told) : v = n + m
      BY <1>4, <1>6, <2>3
    <3>2. R[v].connId = id /\ told[m] = "PEER_CLOSED"
      BY <1>1, <1>6, <2>3, <3>1
    <3>3. Closes(Q, u, id)
      BY <1>1, <1>6, <2>3, <3>2 DEF Closes
    <3> QED
      BY <1>2, <2>3, <3>2, <3>3 DEF SaysClose
  <2> QED
    BY <2>1, <2>2, <2>3
<1> QED
  BY <1>5, <1>6 DEF Pending

NothingOf(told, kinds) == \A i \in 1 .. Len(told) : told[i] \notin kinds

LEMMA PerformPends ==
  ASSUME Undisturbed, NEW h \in Host, NEW p \in DOMAIN tables[h].conns,
         NEW event, NEW sends, NEW told \in Seq(Kinds), NEW st,
         NEW queue \in Seq(Indications(nextId)), NEW gone, NEW timers, NEW removes,
         Performs(h, p, event, sends, told, st, queue, gone),
         Pending(tables[h].conns, queue),
         LET conn == tables[h].conns[p]
             new == NextState(conn.fsm, event)
         IN  /\ Leaves(tables[h].conns, tables'[h].conns, p, timers, removes)
             /\ \/ new = conn.fsm
                \/ ~AwaitsClose(conn)
                \/ \A i \in 1 .. Len(queue) : ~Closes(queue, i, conn.connId)
             /\ \/ NothingOf(told, {"PEER_CLOSED"})
                \/ /\ told = <<"PEER_CLOSED">> /\ new = "CLOSE_WAIT"
                   /\ conn.pair.localPort \in Ephemeral /\ conn.fsm # "CLOSE_WAIT"
  PROVE  Pending(tables'[h].conns, Heard(queue, tables[h].conns[p], told))
<1> DEFINE C == tables[h].conns
           conn == C[p]
           new == NextState(conn.fsm, event)
           D == tables'[h].conns
           R == Heard(queue, conn, told)
<1>1. /\ nextId \in Nat /\ conn.gate \in Nat /\ conn.connId \in 1 .. nextId - 1
      /\ \A q \in DOMAIN C : C[q].connId = conn.connId => q = p
  BY CallsRun, AppsAre
<1>2. Moved(C, D, p, new, st) /\ Leaves(C, D, p, timers, removes)
  BY DEF Performs
<1>3. Pending(C, queue)
  OBVIOUS
<1>4. \/ new = conn.fsm
      \/ ~AwaitsClose(conn)
      \/ \A i \in 1 .. Len(queue) : ~Closes(queue, i, conn.connId)
  OBVIOUS
<1>5. \/ NothingOf(told, {"PEER_CLOSED"})
      \/ /\ told = <<"PEER_CLOSED">> /\ new = "CLOSE_WAIT"
         /\ conn.pair.localPort \in Ephemeral /\ conn.fsm # "CLOSE_WAIT"
  OBVIOUS
<1>6. HearsFrom(R, queue, conn, told)
  <2> HIDE DEF conn
  <2> QED
    BY <1>1, HeardGives
<1>7. Len(queue) \in Nat /\ Len(told) \in Nat
  OBVIOUS
<1> HIDE DEF C, D, new, R
<1>8. /\ \A q \in DOMAIN C \ {p} : q \in DOMAIN D /\ D[q] = C[q]
      /\ p \in DOMAIN D => /\ D[p].gate = conn.gate /\ D[p].connId = conn.connId
                           /\ D[p].pair = conn.pair /\ D[p].fsm = new /\ D[p].done = conn.done
      /\ p \notin DOMAIN D => new = "CLOSED"
  BY <1>2 DEF Moved, Leaves
<1>9. StillAwaits(C, D, p, queue)
  <2>1. CASE AwaitsClose(conn) /\ new = conn.fsm
    <3>1. new # "CLOSED"
      BY <2>1 DEF AwaitsClose
    <3> QED
      BY <1>8, <2>1, <3>1 DEF AwaitsClose, StillAwaits
  <2>2. CASE ~AwaitsClose(conn)
    BY <1>1, <1>3, <2>2 DEF Pending, Closes, StillAwaits
  <2> QED
    BY <1>4, <2>1, <2>2 DEF StillAwaits
<1>10. SaysClose(C, D, p, told)
  <2>1. CASE NothingOf(told, {"PEER_CLOSED"})
    BY <2>1 DEF NothingOf, SaysClose
  <2>2. CASE /\ told = <<"PEER_CLOSED">> /\ new = "CLOSE_WAIT"
             /\ conn.pair.localPort \in Ephemeral /\ conn.fsm # "CLOSE_WAIT"
    <3>1. Len(told) = 1
      BY <2>2
    <3>2. p \in DOMAIN D /\ AwaitsClose(D[p]) /\ ~AwaitsClose(conn)
      BY <1>8, <2>2 DEF AwaitsClose
    <3> QED
      BY <3>1, <3>2 DEF SaysClose
  <2> QED
    BY <1>5, <2>1, <2>2
<1>11. p \in DOMAIN C
  BY DEF C
<1>12. Pending(D, R)
  BY <1>1, <1>3, <1>6, <1>7, <1>8, <1>9, <1>10, <1>11, PendingMoves
<1> QED
  BY <1>12 DEF C, D, R

\* Whoever has finished hears of no failure and no other connection.
LEMMA PerformFinished ==
  ASSUME Undisturbed, NEW h \in Host, NEW p \in DOMAIN tables[h].conns,
         NEW event, NEW sends, NEW told \in Seq(Kinds), NEW st,
         NEW queue \in Seq(Indications(nextId)), NEW gone,
         Performs(h, p, event, sends, told, st, queue, gone),
         tables[h].conns[p].fsm # "CLOSED",
         \A b \in Clients : b[1] = h /\ Quiet(b, toApp[h]) => Quiet(b, queue),
         \A b \in Clients : sockets'[b].timer = "CONNECT" =>
            sockets[b].timer = "CONNECT" \/ (b[1] = h /\ ~Quiet(b, toApp[h]))
  PROVE  \A b \in Clients : Finished(b) => Finished(b)'
<1> DEFINE C == tables[h].conns
           conn == C[p]
           new == NextState(conn.fsm, event)
           D == tables'[h].conns
           U == tables'[h]
           R == Heard(queue, conn, told)
<1>1. /\ HostsInv /\ nextId \in Nat /\ conn.gate \in Nat /\ conn.connId \in 1 .. nextId - 1
      /\ OfApp(world.apps, h, conn)
  BY CallsRun, AppsAre, ConnIs
<1>2. /\ Moved(C, D, p, new, st) /\ world' = world
      /\ tables' = [tables EXCEPT ![h] = U] /\ toApp' = [toApp EXCEPT ![h] = R]
  BY DEF Performs
<1>3. conn.fsm # "CLOSED"
  OBVIOUS
<1>4. HearsFrom(R, queue, conn, told) /\ Len(queue) \in Nat /\ Len(told) \in Nat
  <2> HIDE DEF conn
  <2> QED
    BY <1>1, HeardGives
<1>5. \A b \in Clients : b \in DOMAIN world.apps /\ b = <<b[1], b[2]>> /\ AppKind(b) = "client"
                         /\ b[1] \in Host
  BY CallsRun, CallersAre DEF Clients
<1> HIDE DEF R, new
<1>6. CASE conn.pair.localPort \notin Ephemeral
  <2>1. AllClosed(C) => AllClosed(D)
    <3> HIDE DEF C, U
    <3> QED
      BY <1>2, <1>6 DEF AllClosed, Moved
  <2>2. ASSUME NEW b \in Clients, b[1] = h, Quiet(b, queue)
        PROVE  Quiet(b, R)
    <3>1. conn.gate # b[2]
      BY <1>1, <1>5, <1>6, <2>2 DEF OfApp, AppKind
    <3>2. \A i \in 1 .. Len(R) : i \in 1 .. Len(queue) \/ R[i].gate = conn.gate
      <4> TAKE i \in 1 .. Len(R)
      <4>1. i \in 1 .. Len(queue) \/ (i - Len(queue) \in 1 .. Len(told) /\ i = Len(queue) + (i - Len(queue)))
        BY <1>4 DEF HearsFrom
      <4> QED
        BY <1>4, <4>1 DEF HearsFrom
    <3> QED
      BY <1>4, <2>2, <3>1, <3>2 DEF Quiet, HearsFrom
  <2>3. \A b \in Clients : b[1] = h /\ Quiet(b, toApp[h]) => Quiet(b, R)
    BY <2>2
  <2> HIDE DEF U
  <2> QED
    BY <1>1, <1>2, <1>5, <2>1, <2>3, FinishedStays
<1>7. CASE conn.pair.localPort \in Ephemeral
  <2>1. ~AllClosed(C)
    BY <1>3, <1>7 DEF AllClosed
  <2> HIDE DEF U
  <2> QED
    BY <1>1, <1>2, <1>5, <2>1, FinishedStays
<1> QED
  BY <1>6, <1>7

\* A client whose connection has closed has finished, unless it was told of a failure.
LEMMA ClientFinished ==
  ASSUME Undisturbed, NEW h \in Host, NEW p \in DOMAIN tables[h].conns,
         NEW event, NEW sends, NEW told \in Seq(Kinds), NEW st, NEW gone,
         Performs(h, p, event, sends, told, st, toApp[h], gone), UNCHANGED sockets,
         tables[h].conns[p].fsm # "CLOSED",
         NextState(tables[h].conns[p].fsm, event) = "CLOSED",
         NothingOf(told, Failures),
         NEW a \in Clients, NEW port \in Ephemeral, AtClient(a, port, h, tables[h].conns[p])
  PROVE  Finished(a)'
<1> DEFINE C == tables[h].conns
           conn == C[p]
           new == NextState(conn.fsm, event)
           D == tables'[h].conns
           queue == toApp[h]
           R == Heard(queue, conn, told)
<1>1. /\ HostsInv /\ AppsInv /\ Running /\ nextId \in Nat
      /\ conn.gate \in Nat /\ conn.connId \in 1 .. nextId - 1
      /\ queue \in Seq(Indications(nextId))
      /\ \A q, r \in DOMAIN C : C[q].connId = C[r].connId => q = r
      /\ OfApp(world.apps, h, conn)
  BY CallsRun, AppsAre, ConnIs
<1>2. /\ a \in DOMAIN world.apps /\ a[1] = h /\ a = <<h, a[2]>> /\ AppKind(a) = "client"
      /\ conn.pair.localPort \in Ephemeral
      /\ \A b \in Clients : b[1] = h => b = a
  BY CallsRun, CallersAre DEF Clients, AtClient
<1>3. \A q \in DOMAIN C : C[q].pair.localPort \in Ephemeral => C[q].gate = a[2]
  <2> TAKE q \in DOMAIN C
  <2> HAVE C[q].pair.localPort \in Ephemeral
  <2>1. OfApp(world.apps, h, C[q])
    BY ConnIs
  <2>2. <<h, C[q].gate>> \in Clients /\ <<h, C[q].gate>>[1] = h
    BY <2>1 DEF OfApp, Clients, AppKind
  <2>3. <<h, C[q].gate>> = a
    BY <1>2, <2>2
  <2> QED
    BY <2>3
<1>4. OneCall(C, queue, a[2], sockets[a]) /\ FailuresEnd(C, queue)
  BY <1>1, <1>2 DEF AppsInv, HostFits, AppKind
<1>5. conn.gate = a[2] /\ conn.connId = sockets[a].connId /\ sockets[a].timer # "CONNECT"
  BY <1>2, <1>3, <1>4 DEF OneCall
<1>6. \A q \in DOMAIN C : C[q].pair.localPort \in Ephemeral /\ q # p => C[q].fsm = "CLOSED"
  BY <1>1, <1>3, <1>4, <1>5 DEF OneCall
<1>7. \A i \in 1 .. Len(queue) : queue[i].gate = a[2] => queue[i].kind \notin Failures
  BY <1>4, <1>5 DEF OneCall, FailuresEnd
<1>8. /\ Moved(C, D, p, new, st) /\ new = "CLOSED"
      /\ tables' = [tables EXCEPT ![h] = tables'[h]] /\ toApp' = [toApp EXCEPT ![h] = R]
  BY DEF Performs
<1>9. HearsFrom(R, queue, conn, told) /\ Len(queue) \in Nat /\ Len(told) \in Nat
  <2> HIDE DEF conn, queue
  <2> QED
    BY <1>1, HeardGives
<1>10. Quiet(a, R)
  <2>1. ASSUME NEW i \in 1 .. Len(R), R[i].gate = a[2]
        PROVE  R[i].kind \notin Failures
    <3>1. CASE i \in 1 .. Len(queue)
      BY <1>7, <1>9, <2>1, <3>1 DEF HearsFrom
    <3>2. CASE i \notin 1 .. Len(queue)
      <4>1. i - Len(queue) \in 1 .. Len(told) /\ i = Len(queue) + (i - Len(queue))
        BY <1>9, <3>2 DEF HearsFrom
      <4>2. PICK m \in 1 .. Len(told) : i = Len(queue) + m
        BY <4>1
      <4> QED
        BY <1>9, <4>2 DEF HearsFrom, NothingOf
    <3> QED
      BY <3>1, <3>2
  <2> QED
    BY <2>1 DEF Quiet
<1> HIDE DEF R, new, queue
<1>11. AllClosed(D)
  BY <1>6, <1>8 DEF AllClosed, Moved
<1>12. toApp'[h] = R
  <2>1. h \in DOMAIN toApp
    BY CallsRun, AppsAre
  <2> QED
    BY <1>8, <2>1
<1>13. sockets'[a].timer # "CONNECT" /\ Quiet(a, toApp'[a[1]]) /\ AllClosed(tables'[a[1]].conns)
  BY <1>2, <1>5, <1>10, <1>11, <1>12
<1> QED
  BY <1>13 DEF Finished, Quiet, AllClosed

\* The event of a connection and what it leaves of the queue disturb nothing.
Orderly(conn, event, sends, told, st, armed, queue) ==
    LET new == NextState(conn.fsm, event)
    IN  /\ "SYNACK" \notin sends /\ st.snd_wnd = conn.st.snd_wnd
        /\ new \in Unclosed => "REXMIT" \notin armed
        /\ conn.fsm # "CLOSED" /\ (conn.fsm = "SYN_SENT" => new \in {"SYN_SENT", "CLOSED"})
        /\ \/ new = conn.fsm
           \/ ~AwaitsClose(conn)
           \/ \A i \in 1 .. Len(queue) : ~Closes(queue, i, conn.connId)
        /\ \/ NothingOf(told, {"PEER_CLOSED"})
           \/ /\ told = <<"PEER_CLOSED">> /\ new = "CLOSE_WAIT"
              /\ conn.pair.localPort \in Ephemeral /\ conn.fsm # "CLOSE_WAIT"

HeardOf(h, queue) ==
    /\ queue \in Seq(Indications(nextId))
    /\ Pending(tables[h].conns, queue)
    /\ \A b \in Clients : b[1] = h /\ Quiet(b, toApp[h]) => Quiet(b, queue)
    /\ \A b \in Clients : sockets'[b].timer = "CONNECT" =>
          sockets[b].timer = "CONNECT" \/ (b[1] = h /\ ~Quiet(b, toApp[h]))

LEMMA OrderlyGoesOn ==
  ASSUME Undisturbed, NEW h \in Host, NEW p \in DOMAIN tables[h].conns,
         NEW event, NEW sends, NEW told \in Seq(Kinds), NEW st, NEW queue, NEW gone, NEW armed,
         NEW removes,
         Performs(h, p, event, sends, told, st, queue, gone),
         Orderly(tables[h].conns[p], event, sends, told, st, armed, queue), HeardOf(h, queue),
         LET fsm == tables[h].conns[p].fsm
         IN  Leaves(tables[h].conns, tables'[h].conns, p,
                    EntryTimers(fsm, NextState(fsm, event), armed), removes)
  PROVE  /\ \A b \in Clients : Finished(b) => Finished(b)'
         /\ \A a \in Clients, port \in Ephemeral :
               /\ \/ AtClient(a, port, h, tables[h].conns[p])
                  \/ AtServer(a, port, h, tables[h].conns[p])
                  \/ sends = {}
               /\ OnlyIn(a, port, h, tables[h].conns, tables'[h].conns) /\ WireOnlyIn(a, port)
               /\ CallFits(a, port)'
               => CallsInv'
<1> DEFINE C == tables[h].conns
           conn == C[p]
           new == NextState(conn.fsm, event)
           timers == EntryTimers(conn.fsm, new, armed)
           U == tables'[h]
           Q == Heard(queue, conn, told)
<1>1. /\ queue \in Seq(Indications(nextId)) /\ Pending(C, queue)
      /\ Leaves(C, U.conns, p, timers, removes) /\ conn.fsm # "CLOSED"
      /\ tables' = [tables EXCEPT ![h] = U] /\ toApp' = [toApp EXCEPT ![h] = Q]
      /\ world' = world /\ up' = up /\ error' = error
  BY DEF HeardOf, Orderly, Performs
<1>2. \A b \in Clients : Finished(b) => Finished(b)'
  <2>1. /\ \A b \in Clients : b[1] = h /\ Quiet(b, toApp[h]) => Quiet(b, queue)
        /\ \A b \in Clients : sockets'[b].timer = "CONNECT" =>
              sockets[b].timer = "CONNECT" \/ (b[1] = h /\ ~Quiet(b, toApp[h]))
    BY DEF HeardOf
  <2> HIDE DEF U, Q
  <2> QED
    BY <1>1, <2>1, PerformFinished
<1>3. Pending(U.conns, Q)
  <2>1. /\ \/ new = conn.fsm
           \/ ~AwaitsClose(conn)
           \/ \A i \in 1 .. Len(queue) : ~Closes(queue, i, conn.connId)
        /\ \/ NothingOf(told, {"PEER_CLOSED"})
           \/ /\ told = <<"PEER_CLOSED">> /\ new = "CLOSE_WAIT"
              /\ conn.pair.localPort \in Ephemeral /\ conn.fsm # "CLOSE_WAIT"
    BY DEF Orderly
  <2> HIDE DEF timers
  <2> QED
    BY <1>1, <2>1, PerformPends
<1>4. ASSUME NEW a \in Clients, NEW port \in Ephemeral,
             \/ AtClient(a, port, h, conn) \/ AtServer(a, port, h, conn) \/ sends = {},
             OnlyIn(a, port, h, C, U.conns), WireOnlyIn(a, port), CallFits(a, port)'
      PROVE  CallsInv'
  <2>1. /\ \A q \in DOMAIN U.conns : ConnShape(h, U.conns[q])
        /\ \A s \in wire' : s \in wire \/ SegmentShape(s)
    <3>1. /\ "SYNACK" \notin sends /\ st.snd_wnd = conn.st.snd_wnd
          /\ new \in Unclosed => "REXMIT" \notin armed
          /\ conn.fsm # "CLOSED" /\ (conn.fsm = "SYN_SENT" => new \in {"SYN_SENT", "CLOSED"})
      BY DEF Orderly
    <3> QED
      BY <1>4, <3>1, PerformShapes
  <2> HIDE DEF U, Q, C
  <2> QED
    BY <1>1, <1>2, <1>3, <1>4, <2>1, CallsGoOn DEF C
<1> QED
  BY <1>2, <1>4

\* Whoever hears nothing stays as they are.
LEMMA NobodyHears ==
  ASSUME Undisturbed, NEW h \in Host, UNCHANGED sockets
  PROVE  HeardOf(h, toApp[h])
BY CallsRun, AppsAre DEF HeardOf, Pends

\* The rest of a served call.
LEMMA ServedFits ==
  ASSUME Undisturbed, NEW a \in Clients, NEW port \in Ephemeral
  PROVE  LET k == Call(a, port)
         IN  /\ Served(a) \/ k.server # {} \/ (k.client # {} /\ k.client # {"SYN_SENT"}) =>
                  /\ Served(a) /\ Fits(k) /\ OneEach(a, port)
                  /\ k.client = {} => Unused(k) \/ Finished(a)
             /\ ~Served(a) => Refused(k)
             /\ Awaited(k)
BY CallsRun DEF CallsFit, CallFits, Refused

\* What a client's or a server's turn may make of a call.
ClientMay(k, new, sends, gone) ==
    \A m : Advances(k.client, k.server, k.up, k.down, m.client, m.server, m.up, m.down,
                    new, sends, gone) /\ Spent(m.down, gone, {}) => Fits(m)

ServerMay(k, new, sends, gone) ==
    \A m : Advances(k.server, k.client, k.down, k.up, m.server, m.client, m.down, m.up,
                    new, sends, gone) /\ Spent(m.up, gone, {}) => Fits(m)

TurnsIn(a, port, h, conn, event, sends, told, queue, gone, removes) ==
    LET new == NextState(conn.fsm, event)
    IN  /\ sends \cap Once = {}
        /\ \A t \in gone : t \in wire
        /\ \/ /\ AtClient(a, port, h, conn) /\ \A t \in gone : Downward(a, port, t)
              /\ conn.fsm # "SYN_SENT" /\ new # "SYN_SENT"
              /\ ClientMay(Call(a, port), new, sends, KindsDown(a, port, gone))
              /\ new = "CLOSED" /\ removes =>
                    UNCHANGED sockets /\ queue = toApp[h] /\ NothingOf(told, Failures)
           \/ /\ AtServer(a, port, h, conn) /\ \A t \in gone : Upward(a, port, t)
              /\ \/ ServerMay(Call(a, port), new, sends, KindsUp(a, port, gone))
                 \/ ~removes /\ new = "CLOSED" /\ sends = {} /\ Ending(Call(a, port))

\* A connection turns in a call that is served.
LEMMA TurnGoesOn ==
  ASSUME Undisturbed, NEW h \in Host, NEW p \in DOMAIN tables[h].conns,
         NEW event, NEW sends, NEW told \in Seq(Kinds), NEW st, NEW queue, NEW gone, NEW armed,
         NEW removes,
         Performs(h, p, event, sends, told, st, queue, gone),
         Orderly(tables[h].conns[p], event, sends, told, st, armed, queue), HeardOf(h, queue),
         LET fsm == tables[h].conns[p].fsm
         IN  Leaves(tables[h].conns, tables'[h].conns, p,
                    EntryTimers(fsm, NextState(fsm, event), armed), removes),
         NEW a \in Clients, NEW port \in Ephemeral,
         TurnsIn(a, port, h, tables[h].conns[p], event, sends, told, queue, gone, removes)
  PROVE  CallsInv'
<1> DEFINE C == tables[h].conns
           conn == C[p]
           new == NextState(conn.fsm, event)
           U == tables'[h]
           D == U.conns
           k == Call(a, port)
           m == Call(a, port)'
           goneUp == KindsUp(a, port, gone)
           goneDown == KindsDown(a, port, gone)
<1>1. /\ world' = world /\ conn.fsm # "CLOSED"
      /\ Leaves(C, D, p, EntryTimers(conn.fsm, new, armed), removes)
      /\ sends \cap Once = {} /\ \A t \in gone : t \in wire
  BY DEF Performs, Orderly, TurnsIn
<1>2. /\ \A b \in Clients : Finished(b) => Finished(b)'
      /\ /\ AtClient(a, port, h, conn) \/ AtServer(a, port, h, conn)
         /\ OnlyIn(a, port, h, C, D) /\ WireOnlyIn(a, port) /\ CallFits(a, port)'
         => CallsInv'
  BY OrderlyGoesOn
<1>3. (AtClient(a, port, h, conn) /\ conn.fsm # "SYN_SENT") \/ AtServer(a, port, h, conn)
  BY DEF TurnsIn
<1>4. /\ Served(a) /\ Fits(k) /\ OneEach(a, port)
      /\ k.client = {} => Unused(k) \/ Finished(a)
      /\ Awaited(k)
  <2>1. k.server # {} \/ (k.client # {} /\ k.client # {"SYN_SENT"})
    BY <1>3 DEF AtClient, AtServer
  <2> QED
    BY <2>1, ServedFits
<1>5. \/ AtClient(a, port, h, conn) /\ \A t \in gone : Downward(a, port, t)
      \/ AtServer(a, port, h, conn) /\ \A t \in gone : Upward(a, port, t)
  BY DEF TurnsIn
<1>6. /\ OnlyIn(a, port, h, C, D) /\ WireOnlyIn(a, port) /\ OneEach(a, port)'
      /\ Spent(m.up, goneUp, {}) /\ Spent(m.down, goneDown, {})
      /\ AtClient(a, port, h, conn) =>
            Advances(k.client, k.server, k.up, k.down, m.client, m.server, m.up, m.down,
                     new, sends, goneDown)
      /\ AtClient(a, port, h, conn) /\ p \in DOMAIN D => m.client = {new}
      /\ AtServer(a, port, h, conn) =>
            Advances(k.server, k.client, k.down, k.up, m.server, m.client, m.down, m.up,
                     new, sends, goneUp)
      /\ AtServer(a, port, h, conn) /\ p \in DOMAIN D => m.server = {new}
  BY <1>1, <1>4, <1>5, PerformInCall
<1>7. Fits(m) /\ (m.client = {} => Finished(a)')
      /\ ("SYN_SENT" \in m.client /\ ~world.loses => m.up # {} \/ m.down # {})
  <2>1. CASE /\ AtClient(a, port, h, conn) /\ new # "SYN_SENT"
             /\ ClientMay(k, new, sends, goneDown)
             /\ new = "CLOSED" /\ removes =>
                   UNCHANGED sockets /\ queue = toApp[h] /\ NothingOf(told, Failures)
    <3>1. Fits(m)
      BY <1>6, <2>1 DEF ClientMay
    <3>2. m.client = {new} \/ (m.client = {} /\ new = "CLOSED")
      BY <1>6, <2>1 DEF Advances
    <3>3. ASSUME m.client = {}
          PROVE  Finished(a)'
      <4>1. new = "CLOSED" /\ removes
        BY <1>1, <1>6, <2>1, <3>2, <3>3 DEF Leaves
      <4>2. UNCHANGED sockets /\ queue = toApp[h] /\ NothingOf(told, Failures)
        BY <2>1, <4>1
      <4>3. Performs(h, p, event, sends, told, st, toApp[h], gone)
        BY <4>2
      <4> QED
        BY <1>1, <2>1, <4>1, <4>2, <4>3, ClientFinished
    <3> HIDE DEF m, new
    <3> QED
      BY <2>1, <3>1, <3>2, <3>3
  <2>2. CASE /\ AtServer(a, port, h, conn)
             /\ \/ ServerMay(k, new, sends, goneUp)
                \/ ~removes /\ new = "CLOSED" /\ sends = {} /\ Ending(k)
    <3>1. Fits(m)
      <4>1. CASE ServerMay(k, new, sends, goneUp)
        BY <1>6, <2>2, <4>1 DEF ServerMay
      <4>2. CASE ~removes /\ new = "CLOSED" /\ sends = {} /\ Ending(k)
        <5>1. m.server = {new}
          BY <1>1, <1>6, <2>2, <4>2 DEF Leaves
        <5>2. m.client = k.client /\ m.down \subseteq k.down /\ m.up \subseteq k.up
          BY <1>6, <2>2, <4>2 DEF Advances
        <5> HIDE DEF m, k, new
        <5> QED
          BY <4>2, <5>1, <5>2, ServerEnds
      <4> QED
        BY <2>2, <4>1, <4>2
    <3>2. /\ m.client = k.client /\ k.server # {}
          /\ k.down \subseteq m.down /\ k.up \ goneUp \subseteq m.up
      BY <1>6, <2>2 DEF Advances, AtServer
    <3> HIDE DEF m, k
    <3>3. m.client = {} => Finished(a)'
      BY <1>2, <1>4, <3>2 DEF Unused
    <3>4. "SYN_SENT" \in k.client => k.up = {}
      BY <1>4, <3>2 DEF Fits, Calling, Answered, Opening, Opened, Ending, Over
    <3> QED
      BY <1>4, <3>1, <3>2, <3>3, <3>4 DEF Awaited
  <2> QED
    BY <2>1, <2>2 DEF TurnsIn
<1>8. CallFits(a, port)'
  <2>1. m = Call(a, port)'
    OBVIOUS
  <2> HIDE DEF m
  <2> QED
    BY <1>1, <1>4, <1>6, <1>7, <2>1, FitsLater
<1> QED
  BY <1>2, <1>3, <1>6, <1>8

LEMMA WindowStays ==
  ASSUME Undisturbed, NEW h \in Host, NEW p \in DOMAIN tables[h].conns
  PROVE  LET st == tables[h].conns[p].st
         IN  st \in StateBlock /\ UpdateRcvWnd(st).snd_wnd = st.snd_wnd
<1> DEFINE st == tables[h].conns[p].st
<1>1. st \in StateBlock
  BY ConnIs DEF ConnData
<1> HIDE DEF st
<1>2. UpdateRcvWnd(st).snd_wnd = st.snd_wnd
  BY <1>1, RcvWndUpdated DEF StateBlock
<1> QED
  BY <1>1, <1>2 DEF st

LEMMA PerformTurns ==
  ASSUME Undisturbed, NEW h \in Host, NEW p \in DOMAIN tables[h].conns,
         NEW event, NEW sends, NEW tells \in Seq(Kinds), NEW queue, NEW gone, NEW armed, NEW removes,
         Perform(h, p, event, sends, tells, armed, tables[h].conns[p].st, queue, gone, removes),
         HeardOf(h, queue),
         NEW told,
         LET fsm == tables[h].conns[p].fsm
         IN  told = tells \o EntryTells(fsm, NextState(fsm, event), event),
         Orderly(tables[h].conns[p], event, sends, told, tables[h].conns[p].st, armed, queue),
         NEW a \in Clients, NEW port \in Ephemeral,
         TurnsIn(a, port, h, tables[h].conns[p], event, sends, told, queue, gone, removes)
  PROVE  CallsInv'
<1> DEFINE C == tables[h].conns
           conn == C[p]
           new == NextState(conn.fsm, event)
           st == conn.st
           after == IF sends = {} THEN st ELSE UpdateRcvWnd(st)
           timers == EntryTimers(conn.fsm, new, armed)
<1>1. \/ \E reason \in {"WINDOW", "NO_PEER"} : Fail(reason, h)
      \/ /\ Performs(h, p, event, sends, told, after, queue, gone)
         /\ Leaves(C, tables'[h].conns, p, timers, removes)
  BY CallsRun, PerformDoes
<1>2. CASE \E reason \in {"WINDOW", "NO_PEER"} : Fail(reason, h)
  BY <1>2, FailsQuietly DEF Expected
<1>3. CASE /\ Performs(h, p, event, sends, told, after, queue, gone)
           /\ Leaves(C, tables'[h].conns, p, timers, removes)
  <2>1. told \in Seq(Kinds)
    <3>1. EntryTells(conn.fsm, new, event) \in Seq(Kinds)
      BY TellsOnEntry
    <3>2. told = tells \o EntryTells(conn.fsm, new, event)
      OBVIOUS
    <3> HIDE DEF new, conn
    <3> QED
      BY <3>1, <3>2, ConcatProperties
  <2>2. after.snd_wnd = st.snd_wnd
    BY WindowStays
  <2> HIDE DEF after
  <2>3. Orderly(conn, event, sends, told, after, armed, queue)
    BY <2>2 DEF Orderly
  <2> QED
    BY <1>3, <2>1, <2>3, TurnGoesOn
<1> QED
  BY <1>1, <1>2, <1>3

----------------------------------------------------------------------------
(* Segments that meet a connection. *)

\* processSegment1stThru8th, as RcvElsewhere has it.
Heeds(kind, fsm, armed) ==
    CASE kind = "FIN" -> FinOutcome(fsm, armed)
      [] kind # "FIN" /\ fsm = "ESTABLISHED" -> Outcome("IGNORE", <<>>, <<>>, armed)
      [] OTHER -> OtherOutcome(fsm, armed)

HeedsAs(kind, fsm, armed, new, sends, tells, entry) ==
    LET o == Heeds(kind, fsm, armed)
    IN  /\ NextState(fsm, o.event) = new
        /\ {o.sends[i] : i \in 1 .. Len(o.sends)} = sends
        /\ o.tells = tells /\ EntryTells(fsm, new, o.event) = entry
        /\ "REXMIT" \in o.timers => "REXMIT" \in armed

LEMMA SentKinds ==
  /\ {<<>>[i] : i \in 1 .. Len(<<>>)} = {}
  /\ {<<"ACK">>[i] : i \in 1 .. Len(<<"ACK">>)} = {"ACK"}
  /\ {<<"ACK", "ACK">>[i] : i \in 1 .. Len(<<"ACK", "ACK">>)} = {"ACK"}
<1>1. 1 .. Len(<<>>) = {}
  OBVIOUS
<1>2. Len(<<"ACK">>) = 1 /\ 1 .. 1 = {1} /\ <<"ACK">>[1] = "ACK"
  OBVIOUS
<1>3. /\ Len(<<"ACK", "ACK">>) = 2 /\ 1 .. 2 = {1, 2}
      /\ <<"ACK", "ACK">>[1] = "ACK" /\ <<"ACK", "ACK">>[2] = "ACK"
  OBVIOUS
<1>4. {<<>>[i] : i \in 1 .. Len(<<>>)} = {}
  BY <1>1
<1>5. {<<"ACK">>[i] : i \in 1 .. Len(<<"ACK">>)} = {"ACK"}
  BY <1>2
<1>6. {<<"ACK", "ACK">>[i] : i \in 1 .. Len(<<"ACK", "ACK">>)} = {"ACK"}
  BY <1>3
<1> QED
  BY <1>4, <1>5, <1>6

LEMMA ClientHeeds ==
  ASSUME NEW armed
  PROVE  /\ HeedsAs("RST", "ESTABLISHED", armed, "ESTABLISHED", {}, <<>>, <<>>)
         /\ HeedsAs("FIN", "ESTABLISHED", armed, "CLOSE_WAIT", {"ACK"}, <<>>, <<"PEER_CLOSED">>)
         /\ HeedsAs("FIN", "CLOSE_WAIT", armed, "CLOSE_WAIT", {"ACK"}, <<>>, <<>>)
         /\ HeedsAs("FIN", "LAST_ACK", armed, "LAST_ACK", {"ACK"}, <<>>, <<>>)
         /\ HeedsAs("ACK", "LAST_ACK", armed, "CLOSED", {}, <<>>, <<"CLOSED">>)
<1>1. HeedsAs("RST", "ESTABLISHED", armed, "ESTABLISHED", {}, <<>>, <<>>)
  BY SentKinds DEF HeedsAs, Heeds, Outcome, NextState, Moves, EntryTells
<1>2. HeedsAs("FIN", "ESTABLISHED", armed, "CLOSE_WAIT", {"ACK"}, <<>>, <<"PEER_CLOSED">>)
  BY SentKinds DEF HeedsAs, Heeds, FinOutcome, Outcome, NextState, Moves, EntryTells
<1>3. HeedsAs("FIN", "CLOSE_WAIT", armed, "CLOSE_WAIT", {"ACK"}, <<>>, <<>>)
  BY SentKinds DEF HeedsAs, Heeds, FinOutcome, Outcome, NextState, Moves, EntryTells
<1>4. HeedsAs("FIN", "LAST_ACK", armed, "LAST_ACK", {"ACK"}, <<>>, <<>>)
  BY SentKinds DEF HeedsAs, Heeds, FinOutcome, Outcome, NextState, Moves, EntryTells
<1>5. HeedsAs("ACK", "LAST_ACK", armed, "CLOSED", {}, <<>>, <<"CLOSED">>)
  BY SentKinds DEF HeedsAs, Heeds, OtherOutcome, Outcome, NextState, Moves, EntryTells
<1> QED
  BY <1>1, <1>2, <1>3, <1>4, <1>5

LEMMA ServerHeeds ==
  ASSUME NEW armed
  PROVE  /\ HeedsAs("FIRSTACK", "SYN_RCVD", armed, "ESTABLISHED", {}, <<"ESTABLISHED">>, <<>>)
         /\ \A kind \in {"ACK", "RST"} :
               /\ HeedsAs(kind, "FIN_WAIT_1", armed, "FIN_WAIT_2", {}, <<>>, <<>>)
               /\ HeedsAs(kind, "FIN_WAIT_2", armed, "FIN_WAIT_2", {}, <<>>, <<>>)
               /\ HeedsAs(kind, "CLOSING", armed, "CLOSING", {}, <<>>, <<>>)
               /\ HeedsAs(kind, "TIME_WAIT", armed, "TIME_WAIT", {"ACK"}, <<>>, <<>>)
         /\ HeedsAs("FIN", "FIN_WAIT_1", armed, "CLOSING", {"ACK"}, <<>>, <<>>)
         /\ HeedsAs("FIN", "FIN_WAIT_2", armed, "TIME_WAIT", {"ACK"}, <<>>, <<"CLOSED">>)
         /\ HeedsAs("FIN", "CLOSING", armed, "CLOSING", {"ACK"}, <<>>, <<>>)
         /\ HeedsAs("FIN", "TIME_WAIT", armed, "CLOSED", {"ACK"}, <<>>, <<>>)
<1>1. HeedsAs("FIRSTACK", "SYN_RCVD", armed, "ESTABLISHED", {}, <<"ESTABLISHED">>, <<>>)
  BY SentKinds DEF HeedsAs, Heeds, OtherOutcome, Outcome, NextState, Moves, EntryTells
<1>2. ASSUME NEW kind \in {"ACK", "RST"}
      PROVE  /\ HeedsAs(kind, "FIN_WAIT_1", armed, "FIN_WAIT_2", {}, <<>>, <<>>)
             /\ HeedsAs(kind, "FIN_WAIT_2", armed, "FIN_WAIT_2", {}, <<>>, <<>>)
             /\ HeedsAs(kind, "CLOSING", armed, "CLOSING", {}, <<>>, <<>>)
             /\ HeedsAs(kind, "TIME_WAIT", armed, "TIME_WAIT", {"ACK"}, <<>>, <<>>)
  <2>1. HeedsAs(kind, "FIN_WAIT_1", armed, "FIN_WAIT_2", {}, <<>>, <<>>)
    BY SentKinds DEF HeedsAs, Heeds, OtherOutcome, Outcome, NextState, Moves, EntryTells
  <2>2. HeedsAs(kind, "FIN_WAIT_2", armed, "FIN_WAIT_2", {}, <<>>, <<>>)
    BY SentKinds DEF HeedsAs, Heeds, OtherOutcome, Outcome, NextState, Moves, EntryTells
  <2>3. HeedsAs(kind, "CLOSING", armed, "CLOSING", {}, <<>>, <<>>)
    BY SentKinds DEF HeedsAs, Heeds, OtherOutcome, Outcome, NextState, Moves, EntryTells
  <2>4. HeedsAs(kind, "TIME_WAIT", armed, "TIME_WAIT", {"ACK"}, <<>>, <<>>)
    BY SentKinds DEF HeedsAs, Heeds, OtherOutcome, Outcome, NextState, Moves, EntryTells
  <2> QED
    BY <2>1, <2>2, <2>3, <2>4
<1>3. HeedsAs("FIN", "FIN_WAIT_1", armed, "CLOSING", {"ACK"}, <<>>, <<>>)
  BY SentKinds DEF HeedsAs, Heeds, FinOutcome, Outcome, NextState, Moves, EntryTells
<1>4. HeedsAs("FIN", "FIN_WAIT_2", armed, "TIME_WAIT", {"ACK"}, <<>>, <<"CLOSED">>)
  BY SentKinds DEF HeedsAs, Heeds, FinOutcome, Outcome, NextState, Moves, EntryTells
<1>5. HeedsAs("FIN", "CLOSING", armed, "CLOSING", {"ACK"}, <<>>, <<>>)
  BY SentKinds DEF HeedsAs, Heeds, FinOutcome, Outcome, NextState, Moves, EntryTells
<1>6. HeedsAs("FIN", "TIME_WAIT", armed, "CLOSED", {"ACK"}, <<>>, <<>>)
  BY SentKinds DEF HeedsAs, Heeds, FinOutcome, Outcome, NextState, Moves, EntryTells
<1> QED
  BY <1>1, <1>2, <1>3, <1>4, <1>5, <1>6

\* What one tells, before or on the entry of a state.
Says(tells, entry, told) ==
    /\ told \in {<<>>, <<"ESTABLISHED">>, <<"CLOSED">>, <<"PEER_CLOSED">>}
    /\ \/ tells = <<>> /\ entry = told
       \/ tells = told /\ entry = <<>>

LEMMA SaidIs ==
  ASSUME NEW tells, NEW entry, NEW told, Says(tells, entry, told)
  PROVE  /\ tells \in Seq(Kinds) /\ told = tells \o entry
         /\ NothingOf(told, Failures)
         /\ told # <<"PEER_CLOSED">> => NothingOf(told, {"PEER_CLOSED"})
<1>1. /\ <<>> \in Seq(Kinds) /\ <<"ESTABLISHED">> \in Seq(Kinds) /\ <<"CLOSED">> \in Seq(Kinds)
      /\ <<"PEER_CLOSED">> \in Seq(Kinds)
  BY DEF Kinds
<1>2. told \in Seq(Kinds) /\ tells \in Seq(Kinds)
  BY <1>1 DEF Says
<1>3. told = tells \o entry
  <2>1. CASE tells = <<>> /\ entry = told
    BY <1>2, <2>1, ConcatEmptySeq
  <2>2. CASE tells = told /\ entry = <<>>
    BY <1>2, <2>2, ConcatEmptySeq
  <2> QED
    BY <2>1, <2>2 DEF Says
<1>4. ASSUME NEW kind \in Kinds
      PROVE  Len(<<kind>>) = 1 /\ 1 .. 1 = {1} /\ <<kind>>[1] = kind
  OBVIOUS
<1>5. 1 .. Len(<<>>) = {}
  OBVIOUS
<1>6. NothingOf(<<>>, Failures) /\ NothingOf(<<>>, {"PEER_CLOSED"})
  BY <1>5 DEF NothingOf
<1>7. /\ NothingOf(<<"ESTABLISHED">>, Failures) /\ NothingOf(<<"ESTABLISHED">>, {"PEER_CLOSED"})
      /\ NothingOf(<<"CLOSED">>, Failures) /\ NothingOf(<<"CLOSED">>, {"PEER_CLOSED"})
      /\ NothingOf(<<"PEER_CLOSED">>, Failures)
  BY <1>4 DEF NothingOf, Kinds, Failures
<1> QED
  BY <1>2, <1>3, <1>6, <1>7 DEF Says

LEMMA HeedsTurn ==
  ASSUME Undisturbed, NEW h \in Host, NEW p \in DOMAIN tables[h].conns, NEW s \in wire,
         RcvElsewhere(h, s, p), NEW new, NEW sends, NEW tells, NEW entry, NEW told,
         HeedsAs(s.kind, tables[h].conns[p].fsm, tables[h].conns[p].timers, new, sends, tells, entry),
         Says(tells, entry, told), sends \subseteq {"ACK"},
         LET conn == tables[h].conns[p]
         IN  /\ new \in Unclosed => conn.fsm \in Unclosed
             /\ new = conn.fsm \/ ~AwaitsClose(conn)
             /\ told = <<"PEER_CLOSED">> =>
                   new = "CLOSE_WAIT" /\ conn.pair.localPort \in Ephemeral /\ conn.fsm # "CLOSE_WAIT",
         NEW a \in Clients, NEW port \in Ephemeral,
         \/ /\ AtClient(a, port, h, tables[h].conns[p]) /\ Downward(a, port, s)
            /\ new # "SYN_SENT"
            /\ ClientMay(Call(a, port), new, sends, KindsDown(a, port, {s}))
         \/ /\ AtServer(a, port, h, tables[h].conns[p]) /\ Upward(a, port, s)
            /\ ServerMay(Call(a, port), new, sends, KindsUp(a, port, {s}))
  PROVE  CallsInv'
<1> DEFINE conn == tables[h].conns[p]
           o == Heeds(s.kind, conn.fsm, conn.timers)
           event == o.event
           armed == o.timers
           queue == toApp[h]
           gone == {s}
<1>1. /\ conn.fsm \notin {"SYN_SENT", "CLOSED"} /\ UNCHANGED sockets
      /\ Perform(h, p, event, sends, tells, armed, conn.st, queue, gone, TRUE)
      /\ NextState(conn.fsm, event) = new
      /\ entry = EntryTells(conn.fsm, new, event)
      /\ "REXMIT" \in armed => "REXMIT" \in conn.timers
  <2>1. /\ conn.fsm \notin {"SYN_SENT", "CLOSED"} /\ UNCHANGED appVars
        /\ Perform(h, p, o.event, {o.sends[i] : i \in 1 .. Len(o.sends)}, o.tells, o.timers,
                   conn.st, toApp[h], {s}, TRUE)
    BY DEF RcvElsewhere, Heeds
  <2>2. /\ NextState(conn.fsm, o.event) = new
        /\ {o.sends[i] : i \in 1 .. Len(o.sends)} = sends
        /\ o.tells = tells /\ EntryTells(conn.fsm, new, o.event) = entry
        /\ "REXMIT" \in o.timers => "REXMIT" \in conn.timers
    BY DEF HeedsAs
  <2> HIDE DEF o, conn
  <2> QED
    BY <2>1, <2>2 DEF appVars
<1>2. HeardOf(h, queue)
  BY <1>1, NobodyHears
<1>3. /\ tells \in Seq(Kinds) /\ told = tells \o entry /\ NothingOf(told, Failures)
      /\ told # <<"PEER_CLOSED">> => NothingOf(told, {"PEER_CLOSED"})
  BY SaidIs
<1>4. conn.fsm \in Unclosed => "REXMIT" \notin conn.timers
  BY ConnIs DEF ConnShape
<1> HIDE DEF event, armed, queue, gone, o
<1>5. Orderly(conn, event, sends, told, conn.st, armed, queue)
  BY <1>1, <1>3, <1>4 DEF Orderly
<1>6. TurnsIn(a, port, h, conn, event, sends, told, queue, gone, TRUE)
  <2>1. sends \cap Once = {} /\ \A t \in gone : t \in wire /\ t = s
    BY DEF Once, gone
  <2> QED
    BY <1>1, <1>3, <2>1 DEF TurnsIn, gone, queue
<1> QED
  BY <1>1, <1>2, <1>3, <1>5, <1>6, PerformTurns

LEMMA ClientMays ==
  ASSUME NEW k, NEW fsm, k.client = {fsm}, Fits(k), NEW gone
  PROVE  /\ Opening(k) => ClientMay(k, fsm, {}, gone)
         /\ Ending(k) => \A new : <<fsm, new>> \in ClientLeads => ClientMay(k, new, {"ACK"}, gone)
         /\ Ending(k) /\ fsm = "CLOSE_WAIT" => ClientMay(k, "LAST_ACK", {"FIN"}, gone)
         /\ Over(k) => ClientMay(k, "LAST_ACK", {"ACK"}, gone) /\ ClientMay(k, "CLOSED", {}, gone)
<1>1. ASSUME Opening(k)
      PROVE  ClientMay(k, fsm, {}, gone)
  <2>1. ASSUME NEW m, Advances(k.client, k.server, k.up, k.down, m.client, m.server, m.up, m.down,
                               fsm, {}, gone)
        PROVE  Fits(m)
    <3>1. /\ m.client = k.client /\ m.server = k.server
          /\ m.up \subseteq k.up /\ m.down \subseteq k.down
      BY <1>1, <2>1 DEF Advances, Opening
    <3> QED
      BY <3>1, LosesFits
  <2> QED
    BY <2>1 DEF ClientMay
<1>2. ASSUME Ending(k), NEW new, <<fsm, new>> \in ClientLeads
      PROVE  ClientMay(k, new, {"ACK"}, gone)
  <2>1. ASSUME NEW m, Advances(k.client, k.server, k.up, k.down, m.client, m.server, m.up, m.down,
                               new, {"ACK"}, gone)
        PROVE  Fits(m)
    <3>1. new # "CLOSED"
      BY <1>2 DEF ClientLeads
    <3>2. /\ m.client = {new} /\ m.server = k.server
          /\ m.up \subseteq k.up \cup {"ACK"} /\ m.down \subseteq k.down
      BY <2>1, <3>1 DEF Advances
    <3> QED
      BY <1>2, <3>2, ClientEnds
  <2> QED
    BY <2>1 DEF ClientMay
<1>3. ASSUME Ending(k), fsm = "CLOSE_WAIT"
      PROVE  ClientMay(k, "LAST_ACK", {"FIN"}, gone)
  <2>1. ASSUME NEW m, Advances(k.client, k.server, k.up, k.down, m.client, m.server, m.up, m.down,
                               "LAST_ACK", {"FIN"}, gone)
        PROVE  Fits(m)
    <3>1. /\ m.client = {"LAST_ACK"} /\ m.server = k.server
          /\ m.up \subseteq k.up \cup {"FIN"} /\ m.down \subseteq k.down
      BY <2>1 DEF Advances
    <3> QED
      BY <1>3, <3>1, ClientEnds
  <2> QED
    BY <2>1 DEF ClientMay
<1>4. ASSUME Over(k), NEW new \in {"LAST_ACK", "CLOSED"}, NEW sends \in {{}, {"ACK"}}
      PROVE  ClientMay(k, new, sends, gone)
  <2>1. ASSUME NEW m, Advances(k.client, k.server, k.up, k.down, m.client, m.server, m.up, m.down,
                               new, sends, gone)
        PROVE  Fits(m)
    <3>1. /\ m.client = {new} \/ m.client = {}
          /\ m.server = k.server /\ m.up \subseteq k.up \cup {"ACK"} /\ m.down \subseteq k.down
      BY <2>1 DEF Advances
    <3>2. CASE m.client = {new}
      BY <1>4, <2>1, <3>1, <3>2, ClientEnds DEF Advances
    <3>3. CASE m.client = {}
      <4>1. m.server = k.server /\ m.up \subseteq k.up \cup sends /\ m.down \subseteq k.down
        BY <2>1 DEF Advances
      <4> QED
        BY <1>4, <3>3, <4>1 DEF Fits, Over
    <3> QED
      BY <3>1, <3>2, <3>3
  <2> QED
    BY <2>1 DEF ClientMay
<1> QED
  BY <1>1, <1>2, <1>3, <1>4

LEMMA ServerMays ==
  ASSUME NEW k, NEW fsm, k.server = {fsm}, Fits(k), NEW gone
  PROVE  /\ Opening(k) /\ fsm = "SYN_RCVD" => ServerMay(k, "ESTABLISHED", {}, {"FIRSTACK"})
         /\ fsm = "SYN_RCVD" => ServerMay(k, "LISTEN", {}, gone)
         /\ Opened(k) => ServerMay(k, "FIN_WAIT_1", {"FIN"}, gone)
         /\ Ending(k) => \A new \in {"FIN_WAIT_1", "FIN_WAIT_2"} : ServerMay(k, new, {}, gone)
         /\ Over(k) => \A new \in {"FIN_WAIT_1", "FIN_WAIT_2", "CLOSING", "TIME_WAIT", "CLOSED"},
                          sends \in SUBSET {"ACK"} : ServerMay(k, new, sends, gone)
<1>1. ASSUME Opening(k), fsm = "SYN_RCVD"
      PROVE  ServerMay(k, "ESTABLISHED", {}, {"FIRSTACK"})
  <2>1. ASSUME NEW m, Advances(k.server, k.client, k.down, k.up, m.server, m.client, m.down, m.up,
                               "ESTABLISHED", {}, {"FIRSTACK"}),
               Spent(m.up, {"FIRSTACK"}, {})
        PROVE  Fits(m)
    <3>1. /\ m.server = {"ESTABLISHED"} /\ m.client = k.client
          /\ m.down \subseteq k.down /\ m.up \subseteq k.up
      BY <2>1 DEF Advances
    <3> QED
      BY <1>1, <2>1, <3>1, OpensFits
  <2> QED
    BY <2>1 DEF ServerMay
<1>2. ASSUME fsm = "SYN_RCVD"
      PROVE  ServerMay(k, "LISTEN", {}, gone)
  <2>1. ASSUME NEW m, Advances(k.server, k.client, k.down, k.up, m.server, m.client, m.down, m.up,
                               "LISTEN", {}, gone)
        PROVE  Fits(m)
    <3>1. /\ m.server = {"LISTEN"} /\ m.client = k.client
          /\ m.down \subseteq k.down /\ m.up \subseteq k.up
      BY <2>1 DEF Advances
    <3> QED
      BY <1>2, <3>1, ServerWaits
  <2> QED
    BY <2>1 DEF ServerMay
<1>3. ASSUME Opened(k)
      PROVE  ServerMay(k, "FIN_WAIT_1", {"FIN"}, gone)
  <2>1. ASSUME NEW m, Advances(k.server, k.client, k.down, k.up, m.server, m.client, m.down, m.up,
                               "FIN_WAIT_1", {"FIN"}, gone)
        PROVE  Fits(m)
    <3>1. /\ m.server = {"FIN_WAIT_1"} /\ m.client = k.client
          /\ m.down \subseteq k.down \cup {"FIN"} /\ m.up \subseteq k.up
      BY <2>1 DEF Advances
    <3> QED
      BY <1>3, <3>1, ServerEnds
  <2> QED
    BY <2>1 DEF ServerMay
<1>4. ASSUME Ending(k), NEW new \in {"FIN_WAIT_1", "FIN_WAIT_2"}
      PROVE  ServerMay(k, new, {}, gone)
  <2>1. ASSUME NEW m, Advances(k.server, k.client, k.down, k.up, m.server, m.client, m.down, m.up,
                               new, {}, gone)
        PROVE  Fits(m)
    <3>1. /\ m.server = {new} /\ m.client = k.client
          /\ m.down \subseteq k.down /\ m.up \subseteq k.up
      BY <1>4, <2>1 DEF Advances
    <3> QED
      BY <1>4, <3>1, ServerEnds
  <2> QED
    BY <2>1 DEF ServerMay
<1>5. ASSUME Over(k),
             NEW new \in {"FIN_WAIT_1", "FIN_WAIT_2", "CLOSING", "TIME_WAIT", "CLOSED"},
             NEW sends \in SUBSET {"ACK"}
      PROVE  ServerMay(k, new, sends, gone)
  <2>1. ASSUME NEW m, Advances(k.server, k.client, k.down, k.up, m.server, m.client, m.down, m.up,
                               new, sends, gone)
        PROVE  Fits(m)
    <3>1. /\ m.client = k.client
          /\ m.down \subseteq k.down \cup {"ACK"} /\ m.up \subseteq k.up
      BY <2>1 DEF Advances
    <3>2. CASE m.server = {new}
      BY <1>5, <3>1, <3>2, ServerEnds
    <3>3. CASE m.server = {}
      BY <1>5, <3>1, <3>3, ServerLeaves
    <3> QED
      BY <2>1, <3>2, <3>3 DEF Advances
  <2> QED
    BY <2>1 DEF ServerMay
<1> QED
  BY <1>1, <1>2, <1>3, <1>4, <1>5

LEMMA ReplyGoes ==
  ASSUME NEW a, NEW port, NEW s, NEW kind, NEW t \in Reply(s, kind)
  PROVE  /\ t.kind = kind
         /\ Upward(a, port, s) => Downward(a, port, t)
         /\ Downward(a, port, s) => Upward(a, port, t)
BY DEF Reply, Segment, Upward, Downward

\* A segment goes, and perhaps another comes in the other direction.
LEMMA Trades ==
  ASSUME Undisturbed, world' = world, NEW s \in wire, NEW kinds, kinds \cap Once = {},
         wire' = (wire \ {s}) \cup UNION {Reply(s, kind) : kind \in kinds},
         NEW a \in Clients, NEW port \in Ephemeral, Carries(a, port, s)
  PROVE  LET k == Call(a, port)
             m == Call(a, port)'
         IN  /\ WireOnlyIn(a, port)
             /\ \A t \in wire' : t \in wire \/ SegmentShape(t)
             /\ Upward(a, port, s) =>
                   /\ m.up \subseteq k.up /\ k.down \subseteq m.down
                   /\ kinds \subseteq m.down /\ m.down \subseteq k.down \cup kinds
             /\ Downward(a, port, s) =>
                   /\ m.down \subseteq k.down /\ k.up \subseteq m.up
                   /\ kinds \subseteq m.up /\ m.up \subseteq k.up \cup kinds
             /\ Served(a) =>
                   /\ OneEach(a, port)'
                   /\ Upward(a, port, s) => Spent(m.up, {s.kind}, {})
                   /\ Downward(a, port, s) => Spent(m.down, {s.kind}, {})
<1> DEFINE k == Call(a, port)
           m == Call(a, port)'
           R == UNION {Reply(s, kind) : kind \in kinds}
           gone == {s}
           none == {}
<1>1. HostsInv /\ PortsServeOnce /\ world \in Scenarios /\ (Served(a) => OneEach(a, port))
  BY CallsRun DEF CallsFit, CallFits
<1>2. \A t : ~(Upward(a, port, t) /\ Downward(a, port, t))
  BY <1>1, SegmentsApart DEF Carries
<1>3. \A t \in R : /\ t.kind \in kinds
                   /\ Upward(a, port, s) => Downward(a, port, t)
                   /\ Downward(a, port, s) => Upward(a, port, t)
  BY ReplyGoes
<1>4. \A kind \in kinds : \E t \in R : t.kind = kind
  <2> TAKE kind \in kinds
  <2>1. PICK t : t \in Reply(s, kind)
    BY DEF Reply
  <2>2. t.kind = kind
    BY <2>1, ReplyGoes
  <2> QED
    BY <2>1, <2>2
<1>5. wire' = (wire \ gone) \cup R
  OBVIOUS
<1> HIDE DEF R
<1>6. s \notin wire'
  BY <1>2, <1>3, <1>5 DEF Carries
<1>7. \A t \in R : SegmentShape(t)
  <2>1. \A t \in R : Carries(a, port, t) /\ t.kind # "SYNACK"
    BY <1>3 DEF Carries, Once
  <2> QED
    BY <2>1 DEF SegmentShape
<1>8. CASE Upward(a, port, s)
  <2>1. Sends(a, port, gone, none, kinds)
    BY <1>2, <1>3, <1>4, <1>5, <1>6, <1>8 DEF Sends, Carries
  <2>2. KindsUp(a, port, gone) = {s.kind}
    BY <1>8 DEF KindsUp
  <2>3. /\ WireOnlyIn(a, port)
        /\ Flows(k.up, m.up, {s.kind}, none)
        /\ Flows(k.down, m.down, KindsDown(a, port, gone), kinds)
        /\ Served(a) => Spent(m.up, {s.kind}, none)
        /\ Served(a) => OneEach(a, port)'
    <3>1. none \cap k.up \cap Once = {} /\ kinds \cap k.down \cap Once = {}
      OBVIOUS
    <3> HIDE DEF k, none
    <3> QED
      BY <1>1, <2>1, <2>2, <3>1, WireFlows DEF k
  <2>4. KindsDown(a, port, gone) = {}
    BY <1>2, <1>8 DEF KindsDown
  <2> HIDE DEF m, k
  <2> QED
    BY <1>2, <1>5, <1>7, <1>8, <2>3, <2>4 DEF Flows, m, k
<1>9. CASE Downward(a, port, s)
  <2>1. Sends(a, port, gone, kinds, none)
    BY <1>2, <1>3, <1>4, <1>5, <1>6, <1>9 DEF Sends, Carries
  <2>2. KindsDown(a, port, gone) = {s.kind}
    BY <1>9 DEF KindsDown
  <2>3. /\ WireOnlyIn(a, port)
        /\ Flows(k.down, m.down, {s.kind}, none)
        /\ Flows(k.up, m.up, KindsUp(a, port, gone), kinds)
        /\ Served(a) => Spent(m.down, {s.kind}, none)
        /\ Served(a) => OneEach(a, port)'
    <3>1. none \cap k.down \cap Once = {} /\ kinds \cap k.up \cap Once = {}
      OBVIOUS
    <3> HIDE DEF k, none
    <3> QED
      BY <1>1, <2>1, <2>2, <3>1, WireFlows DEF k
  <2>4. KindsUp(a, port, gone) = {}
    BY <1>2, <1>9 DEF KindsUp
  <2> HIDE DEF m, k
  <2> QED
    BY <1>2, <1>5, <1>7, <1>9, <2>3, <2>4 DEF Flows, m, k
<1> QED
  BY <1>8, <1>9 DEF Carries

LEMMA AnswerGoesOn ==
  ASSUME Undisturbed, NEW s \in wire, NEW kinds, kinds \cap Once = {}, Answer(s, kinds),
         NEW a \in Clients, NEW port \in Ephemeral, Carries(a, port, s),
         LET m == Call(a, port)'
         IN  /\ Served(a) => Fits(m)
             /\ ~Served(a) => Refused(m)
             /\ "SYN_SENT" \in m.client /\ ~world.loses => m.up # {} \/ m.down # {}
  PROVE  CallsInv'
<1> DEFINE k == Call(a, port)
           m == Call(a, port)'
           h == s.dst
           U == tables[h]
           Q == toApp[h]
<1>1. /\ UNCHANGED <<world, tables, up, sockets, toApp, error>>
      /\ wire' = (wire \ {s}) \cup UNION {Reply(s, kind) : kind \in kinds}
  BY DEF Answer
<1>2. HostsInv /\ Shapes /\ Pends /\ h \in Host
  BY CallsRun DEF HostsInv
<1>3. /\ WireOnlyIn(a, port) /\ \A t \in wire' : t \in wire \/ SegmentShape(t)
      /\ Served(a) => OneEach(a, port)'
  BY <1>1, Trades
<1>4. /\ tables' = [tables EXCEPT ![h] = U] /\ toApp' = [toApp EXCEPT ![h] = Q]
  <2>1. tables = [g \in Host |-> tables[g]] /\ toApp = [g \in Host |-> toApp[g]]
    BY <1>2 DEF HostsInv
  <2> QED
    BY <1>1, <1>2, <2>1
<1>5. \A b \in Clients : Finished(b) => Finished(b)'
  BY <1>1 DEF Finished, Quiet, AllClosed
<1>6. m.client = k.client
  BY <1>1, SameWorld DEF Call
<1>7. CallFits(a, port)'
  <2>1. k.up # {} \/ k.down # {}
    <3>1. k.up = KindsUp(a, port, wire) /\ k.down = KindsDown(a, port, wire)
      BY DEF Call
    <3> HIDE DEF k
    <3>2. s.kind \in k.up \/ s.kind \in k.down
      BY <3>1, KindsAre DEF Carries
    <3> QED
      BY <3>2
  <2>2. Served(a) => (m.client = {} => Finished(a)')
    <3>1. Served(a) /\ k.client = {} => Finished(a)
      BY <2>1, ServedFits DEF Unused
    <3> QED
      BY <1>5, <1>6, <3>1
  <2>3. m = Call(a, port)'
    OBVIOUS
  <2> HIDE DEF m
  <2> QED
    BY <1>1, <1>3, <2>2, <2>3, FitsLater
<1>8. OnlyIn(a, port, h, tables[h].conns, U.conns)
  BY DEF OnlyIn, Alters
<1>9. /\ \A p \in DOMAIN U.conns : ConnShape(h, U.conns[p])
      /\ Pending(U.conns, Q)
  BY <1>2 DEF Shapes, Pends
<1> HIDE DEF U, Q, h
<1> QED
  BY <1>1, <1>2, <1>3, <1>4, <1>5, <1>7, <1>8, <1>9, CallsGoOn DEF h

LEMMA AnswerLeaves ==
  ASSUME NEW s, NEW kinds, Answer(s, kinds), NEW a, NEW port
  PROVE  /\ Call(a, port)'.client = Call(a, port).client
         /\ Call(a, port)'.server = Call(a, port).server
         /\ world' = world
         /\ wire' = (wire \ {s}) \cup UNION {Reply(s, kind) : kind \in kinds}
<1>1. world' = world /\ tables' = tables
  BY DEF Answer
<1> QED
  BY <1>1, SameWorld DEF Call, Answer

LEMMA SegmentKinds ==
  ASSUME NEW a, NEW port, NEW s \in wire
  PROVE  /\ Upward(a, port, s) => s.kind \in Call(a, port).up
         /\ Downward(a, port, s) => s.kind \in Call(a, port).down
BY KindsAre DEF Call

LEMMA LoseGoesOn ==
  ASSUME Undisturbed, NEW s \in wire, LoseSegment(s)
  PROVE  CallsInv'
<1> DEFINE none == {}
<1>1. Answer(s, none) /\ world.loses /\ none \cap Once = {}
  BY DEF LoseSegment
<1>2. PICK a \in Clients, port \in Ephemeral : Carries(a, port, s)
  BY SegmentOf
<1> DEFINE k == Call(a, port)
           m == Call(a, port)'
<1>3. /\ m.client = k.client /\ m.server = k.server
      /\ m.up \subseteq k.up \cup none /\ m.down \subseteq k.down \cup none
  <2>1. /\ m.client = k.client /\ m.server = k.server /\ world' = world
        /\ wire' = (wire \ {s}) \cup UNION {Reply(s, kind) : kind \in none}
    BY <1>1, AnswerLeaves
  <2> HIDE DEF none
  <2>2. /\ Upward(a, port, s) => m.up \subseteq k.up /\ m.down \subseteq k.down \cup none
        /\ Downward(a, port, s) => m.down \subseteq k.down /\ m.up \subseteq k.up \cup none
    BY <1>1, <1>2, <2>1, Trades
  <2> QED
    BY <1>2, <2>1, <2>2 DEF Carries
<1>4. (Served(a) => Fits(k)) /\ (~Served(a) => Refused(k))
  BY ServedFits
<1>5. (Served(a) => Fits(m)) /\ (~Served(a) => Refused(m))
  <2> HIDE DEF k, m
  <2> QED
    BY <1>3, <1>4, LosesFits
<1> HIDE DEF none
<1> QED
  BY <1>1, <1>2, <1>5, AnswerGoesOn

LEMMA UnknownGoesOn ==
  ASSUME Undisturbed, NEW s \in wire, NEW h \in Host, h = s.dst, RcvUnknown(h, s)
  PROVE  CallsInv'
<1> DEFINE kinds == CASE s.kind \in {"RST", "RSTACK"} -> {}
                      [] s.kind \in CarriesAck \ {"RSTACK"} -> {"RST"}
                      [] OTHER -> {"RSTACK"}
<1>1. /\ Answer(s, kinds)
      /\ FindConnForSegment(tables[h], s.src, h, s.srcPort, s.destPort) = NoConn
  BY DEF RcvUnknown, Arrives
<1>2. PICK a \in Clients, port \in Ephemeral : Carries(a, port, s)
  BY SegmentOf
<1> DEFINE k == Call(a, port)
           m == Call(a, port)'
<1>3. /\ kinds \cap Once = {}
      /\ s.kind \in {"FIN", "ACK"} => kinds = {"RST"}
      /\ s.kind = "RSTACK" => kinds = {}
      /\ s.kind = "SYN" => kinds = {"RSTACK"}
  BY DEF CarriesAck, Once
<1> HIDE DEF kinds
<1>4. /\ m.client = k.client /\ m.server = k.server /\ world' = world
      /\ wire' = (wire \ {s}) \cup UNION {Reply(s, kind) : kind \in kinds}
  BY <1>1, AnswerLeaves
<1>5. /\ Upward(a, port, s) =>
            m.up \subseteq k.up /\ kinds \subseteq m.down /\ m.down \subseteq k.down \cup kinds
      /\ Downward(a, port, s) => m.down \subseteq k.down /\ m.up \subseteq k.up \cup kinds
  BY <1>2, <1>3, <1>4, Trades
<1>6. /\ Upward(a, port, s) => s.kind \in k.up
      /\ Downward(a, port, s) => s.kind \in k.down
  BY SegmentKinds
<1>7. (Served(a) => Fits(k)) /\ (~Served(a) => Refused(k))
  BY ServedFits
<1>8. \/ Downward(a, port, s) /\ k.client = {}
      \/ Upward(a, port, s) /\ ~Served(a)
  BY <1>1, <1>2, FoundNone
<1> HIDE DEF k, m
<1>9. CASE Downward(a, port, s) /\ k.client = {}
  <2>1. ASSUME Served(a)
        PROVE  Fits(m)
    <3>1. s.kind \in {"FIN", "ACK"} /\ Over(k)
      BY <1>6, <1>7, <1>9, <2>1, NobodyMayHear
    <3> QED
      BY <1>3, <1>4, <1>5, <1>9, <3>1, ClientLeaves
  <2>2. ASSUME ~Served(a)
        PROVE  Refused(m)
    <3>1. s.kind = "RSTACK"
      BY <1>6, <1>7, <1>9, <2>2 DEF Refused
    <3> QED
      BY <1>3, <1>4, <1>5, <1>7, <1>9, <2>2, <3>1 DEF Refused
  <2>3. "SYN_SENT" \notin m.client
    BY <1>4, <1>9
  <2> QED
    BY <1>1, <1>2, <1>3, <2>1, <2>2, <2>3, AnswerGoesOn DEF m
<1>10. CASE Upward(a, port, s) /\ ~Served(a)
  <2>1. Refused(k) /\ s.kind = "SYN"
    BY <1>6, <1>7, <1>10 DEF Refused
  <2>2. Refused(m) /\ m.down # {}
    BY <1>3, <1>4, <1>5, <1>10, <2>1 DEF Refused
  <2> QED
    BY <1>1, <1>2, <1>3, <1>10, <2>2, AnswerGoesOn DEF m
<1> QED
  BY <1>8, <1>9, <1>10

\* A handshake ends where it is no longer waited for.
LEMMA LateAckGoesOn ==
  ASSUME Undisturbed, NEW s \in wire, NEW h \in Host, h = s.dst, NEW p \in DOMAIN tables[h].conns,
         p = FindConnForSegment(tables[h], s.src, h, s.srcPort, s.destPort),
         tables[h].conns[p].fsm = "LISTEN", s.kind = "FIRSTACK", NEW kinds, kinds = {"RST"},
         Answer(s, kinds)
  PROVE  CallsInv'
<1> DEFINE conn == tables[h].conns[p]
<1>1. PICK a \in Clients, port \in Ephemeral : Carries(a, port, s)
  BY SegmentOf
<1> DEFINE k == Call(a, port)
           m == Call(a, port)'
<1>2. kinds \cap Once = {}
  BY DEF Once
<1>3. /\ m.client = k.client /\ m.server = k.server /\ world' = world
      /\ wire' = (wire \ {s}) \cup UNION {Reply(s, kind) : kind \in kinds}
  BY AnswerLeaves
<1>4. Upward(a, port, s) =>
         /\ m.up \subseteq k.up /\ m.down \subseteq k.down \cup kinds
         /\ Served(a) => Spent(m.up, {s.kind}, {})
  BY <1>1, <1>2, <1>3, Trades
<1>5. Upward(a, port, s) => s.kind \in k.up
  BY SegmentKinds
<1>6. Served(a) => Fits(k)
  BY ServedFits
<1>7. conn.pair.localPort \notin Ephemeral
  BY ConnIs DEF ListensOnly, Waiting
<1>8. Upward(a, port, s) /\ (AtServer(a, port, h, conn) \/ AtListener(a, port, h, conn))
  <2>1. ~AtClient(a, port, h, conn)
    BY <1>7 DEF AtClient
  <2> QED
    BY <1>1, <2>1, FoundEnd
<1>9. Served(a) /\ (k.server = {"LISTEN"} \/ k.server = {})
  BY <1>8 DEF AtServer, AtListener
<1> HIDE DEF k, m
<1>10. k.server = {"LISTEN"} /\ Opening(k)
  <2>1. k.server # {}
    BY <1>5, <1>6, <1>8, <1>9, ListenerMayHear
  <2> QED
    BY <1>5, <1>6, <1>8, <1>9, <2>1, ServerMayHear
<1>11. Fits(m)
  BY <1>3, <1>4, <1>8, <1>9, <1>10, OpensFits
<1>12. "SYN_SENT" \notin m.client
  BY <1>3, <1>10 DEF Opening
<1> QED
  BY <1>1, <1>2, <1>9, <1>11, <1>12, AnswerGoesOn DEF m

LEMMA ClientHeedsOn ==
  ASSUME Undisturbed, NEW h \in Host, NEW p \in DOMAIN tables[h].conns, NEW s \in wire,
         RcvElsewhere(h, s, p), NEW a \in Clients, NEW port \in Ephemeral,
         AtClient(a, port, h, tables[h].conns[p]), Downward(a, port, s)
  PROVE  CallsInv'
<1> DEFINE conn == tables[h].conns[p]
           fsm == conn.fsm
           armed == conn.timers
           k == Call(a, port)
           gone == KindsDown(a, port, {s})
           none == <<>>
<1>1. fsm \notin {"SYN_SENT", "CLOSED"} /\ k.client = {fsm} /\ conn.pair.localPort \in Ephemeral
  BY DEF RcvElsewhere, AtClient
<1>2. Fits(k) /\ s.kind \in k.down
  <2>1. k.client # {} /\ k.client # {"SYN_SENT"}
    BY <1>1
  <2> QED
    BY <2>1, ServedFits, SegmentKinds
<1>3. \/ fsm = "ESTABLISHED" /\ s.kind = "RST" /\ Opening(k)
      \/ fsm \in {"ESTABLISHED", "CLOSE_WAIT"} /\ s.kind = "FIN" /\ Ending(k)
      \/ fsm = "LAST_ACK" /\ s.kind \in {"FIN", "ACK"} /\ Over(k)
  BY <1>1, <1>2, ClientMayHear
<1>4. /\ Opening(k) => ClientMay(k, fsm, {}, gone)
      /\ Ending(k) => \A new : <<fsm, new>> \in ClientLeads => ClientMay(k, new, {"ACK"}, gone)
      /\ Over(k) => ClientMay(k, "LAST_ACK", {"ACK"}, gone) /\ ClientMay(k, "CLOSED", {}, gone)
  BY <1>1, <1>2, ClientMays
<1>5. \A new, sends, told :
         /\ HeedsAs(s.kind, fsm, armed, new, sends, none, told)
         /\ Says(none, told, told) /\ sends \subseteq {"ACK"}
         /\ new \in Unclosed => fsm \in Unclosed
         /\ new = fsm \/ ~AwaitsClose(conn)
         /\ told = <<"PEER_CLOSED">> => new = "CLOSE_WAIT" /\ fsm # "CLOSE_WAIT"
         /\ new # "SYN_SENT" /\ ClientMay(k, new, sends, gone)
         => CallsInv'
  <2> HIDE DEF none
  <2> QED
    BY <1>1, HeedsTurn
<1>6. /\ Says(none, <<>>, <<>>) /\ Says(none, <<"CLOSED">>, <<"CLOSED">>)
      /\ Says(none, <<"PEER_CLOSED">>, <<"PEER_CLOSED">>)
  BY DEF Says
<1>7. AwaitsClose(conn) => fsm = "CLOSE_WAIT"
  BY <1>1 DEF AwaitsClose
<1>8. <<>> # <<"PEER_CLOSED">> /\ <<"CLOSED">> # <<"PEER_CLOSED">>
  OBVIOUS
<1> HIDE DEF k, gone, conn
<1>9. CASE fsm = "ESTABLISHED" /\ s.kind = "RST" /\ Opening(k)
  BY <1>4, <1>5, <1>6, <1>7, <1>8, <1>9, ClientHeeds DEF Unclosed
<1>10. CASE fsm = "ESTABLISHED" /\ s.kind = "FIN" /\ Ending(k)
  <2>1. ClientMay(k, "CLOSE_WAIT", {"ACK"}, gone)
    BY <1>4, <1>10 DEF ClientLeads
  <2> QED
    BY <1>5, <1>6, <1>7, <1>10, <2>1, ClientHeeds DEF Unclosed
<1>11. CASE fsm = "CLOSE_WAIT" /\ s.kind = "FIN" /\ Ending(k)
  <2>1. ClientMay(k, "CLOSE_WAIT", {"ACK"}, gone)
    BY <1>4, <1>11 DEF ClientLeads
  <2> QED
    BY <1>5, <1>6, <1>7, <1>8, <1>11, <2>1, ClientHeeds DEF Unclosed
<1>12. CASE fsm = "LAST_ACK" /\ s.kind = "FIN" /\ Over(k)
  BY <1>4, <1>5, <1>6, <1>7, <1>8, <1>12, ClientHeeds DEF Unclosed
<1>13. CASE fsm = "LAST_ACK" /\ s.kind = "ACK" /\ Over(k)
  <2>1. HeedsAs(s.kind, fsm, armed, "CLOSED", {}, none, <<"CLOSED">>) /\ ClientMay(k, "CLOSED", {}, gone)
    BY <1>4, <1>13, ClientHeeds
  <2>2. "CLOSED" \notin Unclosed /\ ~AwaitsClose(conn) /\ "CLOSED" # "SYN_SENT"
    BY <1>7, <1>13 DEF Unclosed
  <2> HIDE DEF none, fsm, armed
  <2> QED
    BY <1>5, <1>6, <1>8, <2>1, <2>2
<1> QED
  BY <1>3, <1>9, <1>10, <1>11, <1>12, <1>13

LEMMA ServerHeedsOn ==
  ASSUME Undisturbed, NEW h \in Host, NEW p \in DOMAIN tables[h].conns, NEW s \in wire,
         RcvElsewhere(h, s, p), NEW a \in Clients, NEW port \in Ephemeral,
         AtServer(a, port, h, tables[h].conns[p]), Upward(a, port, s)
  PROVE  CallsInv'
<1> DEFINE conn == tables[h].conns[p]
           fsm == conn.fsm
           armed == conn.timers
           k == Call(a, port)
           gone == KindsUp(a, port, {s})
<1>1. /\ fsm \notin {"SYN_SENT", "CLOSED"} /\ k.server = {fsm} /\ conn.pair.localPort \notin Ephemeral
      /\ fsm = "LISTEN" => s.kind \notin {"SYN", "FIRSTACK"}
      /\ Served(a) /\ gone = {s.kind}
  BY DEF RcvElsewhere, AtServer, KindsUp
<1>2. Fits(k) /\ s.kind \in k.up
  BY <1>1, ServedFits, SegmentKinds
<1>3. \/ fsm = "SYN_RCVD" /\ s.kind = "FIRSTACK" /\ Opening(k)
      \/ fsm \in {"FIN_WAIT_1", "FIN_WAIT_2"} /\ s.kind = "ACK" /\ Ending(k)
      \/ fsm \in {"FIN_WAIT_1", "FIN_WAIT_2", "CLOSING", "TIME_WAIT"}
         /\ s.kind \in {"FIN", "ACK", "RST"} /\ Over(k)
  BY <1>1, <1>2, ServerMayHear
<1>4. /\ Opening(k) /\ fsm = "SYN_RCVD" => ServerMay(k, "ESTABLISHED", {}, {"FIRSTACK"})
      /\ Ending(k) => \A new \in {"FIN_WAIT_1", "FIN_WAIT_2"} : ServerMay(k, new, {}, gone)
      /\ Over(k) => \A new \in {"FIN_WAIT_1", "FIN_WAIT_2", "CLOSING", "TIME_WAIT", "CLOSED"},
                       sends \in SUBSET {"ACK"} : ServerMay(k, new, sends, gone)
  <2>1. k.server = {fsm} /\ Fits(k)
    BY <1>1, <1>2
  <2> HIDE DEF k, gone, fsm
  <2> QED
    BY <2>1, ServerMays
<1>5. ASSUME NEW new, NEW sends \in {{}, {"ACK"}}, NEW tells, NEW entry, NEW told,
             Says(tells, entry, told), told # <<"PEER_CLOSED">>, fsm # "ESTABLISHED",
             HeedsAs(s.kind, fsm, armed, new, sends, tells, entry), ServerMay(k, new, sends, gone),
             new \in Unclosed => fsm \in Unclosed
      PROVE  CallsInv'
  <2>1. ~AwaitsClose(conn)
    BY <1>1, <1>5 DEF AwaitsClose
  <2> QED
    BY <1>5, <2>1, HeedsTurn
<1> DEFINE none == <<>>
           closed == <<"CLOSED">>
           established == <<"ESTABLISHED">>
<1>6. /\ Says(none, none, none) /\ Says(none, closed, closed)
      /\ Says(established, none, established)
      /\ \A told \in {none, closed, established} : told # <<"PEER_CLOSED">>
  BY DEF Says
<1>7. /\ HeedsAs("FIRSTACK", "SYN_RCVD", armed, "ESTABLISHED", {}, established, none)
      /\ \A kind \in {"ACK", "RST"} :
            /\ HeedsAs(kind, "FIN_WAIT_1", armed, "FIN_WAIT_2", {}, none, none)
            /\ HeedsAs(kind, "FIN_WAIT_2", armed, "FIN_WAIT_2", {}, none, none)
            /\ HeedsAs(kind, "CLOSING", armed, "CLOSING", {}, none, none)
            /\ HeedsAs(kind, "TIME_WAIT", armed, "TIME_WAIT", {"ACK"}, none, none)
      /\ HeedsAs("FIN", "FIN_WAIT_1", armed, "CLOSING", {"ACK"}, none, none)
      /\ HeedsAs("FIN", "FIN_WAIT_2", armed, "TIME_WAIT", {"ACK"}, none, closed)
      /\ HeedsAs("FIN", "CLOSING", armed, "CLOSING", {"ACK"}, none, none)
      /\ HeedsAs("FIN", "TIME_WAIT", armed, "CLOSED", {"ACK"}, none, none)
  BY ServerHeeds
<1>8. /\ "SYN_RCVD" \in Unclosed
      /\ \A new \in {"FIN_WAIT_2", "CLOSING", "TIME_WAIT", "CLOSED"} : new \notin Unclosed
  BY DEF Unclosed
<1>9. CASE fsm = "SYN_RCVD" /\ s.kind = "FIRSTACK" /\ Opening(k)
  <2>1. ServerMay(k, "ESTABLISHED", {}, gone)
    BY <1>1, <1>4, <1>9
  <2> HIDE DEF gone, k, conn, none, closed, established
  <2> QED
    BY <1>5, <1>6, <1>7, <1>8, <1>9, <2>1
<1> HIDE DEF gone, k, armed, fsm, none, closed, established
<1>10. CASE fsm \in {"FIN_WAIT_1", "FIN_WAIT_2"} /\ s.kind = "ACK" /\ Ending(k)
  <2>1. ServerMay(k, "FIN_WAIT_2", {}, gone)
    BY <1>4, <1>10
  <2>2. HeedsAs(s.kind, fsm, armed, "FIN_WAIT_2", {}, none, none)
    BY <1>7, <1>10
  <2> QED
    BY <1>5, <1>6, <1>8, <1>10, <2>1, <2>2
<1>11. ASSUME fsm \in {"FIN_WAIT_1", "FIN_WAIT_2", "CLOSING", "TIME_WAIT"},
              s.kind \in {"FIN", "ACK", "RST"}, Over(k)
       PROVE  CallsInv'
  <2>1. ASSUME NEW new \in {"FIN_WAIT_2", "CLOSING", "TIME_WAIT", "CLOSED"},
               NEW sends \in {{}, {"ACK"}}, NEW entry \in {none, closed},
               HeedsAs(s.kind, fsm, armed, new, sends, none, entry)
        PROVE  CallsInv'
    <3>1. ServerMay(k, new, sends, gone)
      BY <1>4, <1>11
    <3>2. Says(none, entry, entry) /\ entry # <<"PEER_CLOSED">>
      BY <1>6
    <3> QED
      BY <1>5, <1>8, <1>11, <2>1, <3>1, <3>2
  <2>2. CASE s.kind \in {"ACK", "RST"} /\ fsm \in {"FIN_WAIT_1", "FIN_WAIT_2"}
    BY <1>7, <2>1, <2>2
  <2>3. CASE s.kind \in {"ACK", "RST"} /\ fsm = "CLOSING"
    BY <1>7, <2>1, <2>3
  <2>4. CASE s.kind \in {"ACK", "RST"} /\ fsm = "TIME_WAIT"
    BY <1>7, <2>1, <2>4
  <2>5. CASE s.kind = "FIN" /\ fsm \in {"FIN_WAIT_1", "CLOSING"}
    BY <1>7, <2>1, <2>5
  <2>6. CASE s.kind = "FIN" /\ fsm = "FIN_WAIT_2"
    BY <1>7, <2>1, <2>6
  <2>7. CASE s.kind = "FIN" /\ fsm = "TIME_WAIT"
    BY <1>7, <2>1, <2>7
  <2> QED
    BY <1>11, <2>2, <2>3, <2>4, <2>5, <2>6, <2>7
<1> QED
  BY <1>3, <1>9, <1>10, <1>11

\* Nobody opens, moves or leaves.
LEMMA NoneAlters ==
  ASSUME Undisturbed, world' = world, NEW h \in Host, NEW U, tables' = [tables EXCEPT ![h] = U],
         \A p \in DOMAIN tables[h].conns \cup DOMAIN U.conns : ~Alters(tables[h].conns, U.conns, p),
         NEW a \in Clients, NEW port \in Ephemeral
  PROVE  /\ OnlyIn(a, port, h, tables[h].conns, U.conns)
         /\ Call(a, port)'.client = Call(a, port).client
         /\ Call(a, port)'.server = Call(a, port).server
<1> DEFINE C == tables[h].conns
           D == U.conns
<1>1. a[1] \in Host /\ Peer(a) \in Host /\ DOMAIN tables = Host
  BY CallsRun, CallersAre
<1>2. \A g \in Host : tables'[g] = IF g = h THEN U ELSE tables[g]
  <2>1. tables = [g \in Host |-> tables[g]]
    BY CallsRun DEF HostsInv
  <2> QED
    BY <2>1
<1>3. \A keys : StatesAt(D, keys) = StatesAt(C, keys)
  <2> TAKE keys
  <2>1. /\ \A p \in DOMAIN C : C[p].pair \in keys =>
              p \in DOMAIN D /\ D[p].pair \in keys /\ D[p].fsm = C[p].fsm
        /\ \A p \in DOMAIN D : D[p].pair \in keys => p \in DOMAIN C /\ C[p].pair \in keys
    BY DEF Alters
  <2> HIDE DEF C, D
  <2> QED
    BY <2>1, StatesSame
<1>4. \A g \in Host : \A keys :
         StatesAt(tables'[g].conns, keys) = StatesAt(tables[g].conns, keys)
  BY <1>2, <1>3
<1>5. /\ Call(a, port)'.client = StatesAt(tables'[a[1]].conns, ClientKeys(a, port))
      /\ Call(a, port)'.server = StatesAt(tables'[Peer(a)].conns, ServerKeys(a, port))
  <2>1. /\ (StatesAt(tables[a[1]].conns, ClientKeys(a, port)))'
            = StatesAt(tables'[a[1]].conns, ClientKeys(a, port))
        /\ (StatesAt(tables[Peer(a)].conns, ServerKeys(a, port)))'
            = StatesAt(tables'[Peer(a)].conns, ServerKeys(a, port))
    BY SameWorld DEF StatesAt
  <2> QED
    BY <2>1 DEF Call
<1>6. OnlyIn(a, port, h, C, D)
  BY DEF OnlyIn
<1> QED
  BY <1>1, <1>4, <1>5, <1>6 DEF Call

LEMMA ListenerHeeds ==
  ASSUME NEW armed
  PROVE  /\ \A kind \in {"ACK", "RST"} : HeedsAs(kind, "LISTEN", armed, "LISTEN", {}, <<>>, <<>>)
         /\ HeedsAs("FIN", "LISTEN", armed, "LISTEN", {"ACK"}, <<>>, <<>>)
<1>1. ASSUME NEW kind \in {"ACK", "RST"}
      PROVE  HeedsAs(kind, "LISTEN", armed, "LISTEN", {}, <<>>, <<>>)
  BY SentKinds DEF HeedsAs, Heeds, OtherOutcome, Outcome, NextState, Moves, EntryTells
<1>2. HeedsAs("FIN", "LISTEN", armed, "LISTEN", {"ACK"}, <<>>, <<>>)
  BY SentKinds DEF HeedsAs, Heeds, FinOutcome, Outcome, NextState, Moves, EntryTells
<1> QED
  BY <1>1, <1>2

\* Segments of a call that is over meet the listener: it takes no notice, or has nobody to
\* answer.
LEMMA ListenerHeedsOn ==
  ASSUME Undisturbed, NEW h \in Host, NEW p \in DOMAIN tables[h].conns, NEW s \in wire,
         RcvElsewhere(h, s, p), NEW a \in Clients, NEW port \in Ephemeral,
         AtListener(a, port, h, tables[h].conns[p]), Upward(a, port, s)
  PROVE  CallsInv'
<1> DEFINE C == tables[h].conns
           conn == C[p]
           o == Heeds(s.kind, conn.fsm, conn.timers)
           event == o.event
           armed == o.timers
           sends == {o.sends[i] : i \in 1 .. Len(o.sends)}
           st == conn.st
           queue == toApp[h]
           gone == {s}
           none == <<>>
           k == Call(a, port)
           m == Call(a, port)'
<1>1. /\ conn.fsm = "LISTEN" /\ s.kind \notin {"SYN", "FIRSTACK"} /\ UNCHANGED sockets
      /\ Perform(h, p, event, sends, o.tells, armed, st, queue, gone, TRUE)
      /\ conn.pair.remoteAddr = NoHost /\ k.server = {} /\ Served(a)
      /\ conn.pair.localPort \notin Ephemeral
  BY DEF RcvElsewhere, AtListener, Heeds, appVars
<1>2. Fits(k) /\ s.kind \in k.up
  BY <1>1, ServedFits, SegmentKinds
<1>3. s.kind \in {"FIN", "ACK", "RST"} /\ Over(k)
  BY <1>1, <1>2, ListenerMayHear
<1> HIDE DEF k, m
<1>4. CASE s.kind = "FIN"
  <2> DEFINE left == conn.timers
  <2>1. sends = {"ACK"}
    <3>1. HeedsAs("FIN", "LISTEN", left, "LISTEN", {"ACK"}, none, none)
      <4> HIDE DEF left
      <4> QED
        BY ListenerHeeds
    <3>2. o = Heeds("FIN", "LISTEN", left)
      BY <1>1, <1>4
    <3> HIDE DEF o, left, none
    <3> QED
      BY <3>1, <3>2 DEF HeedsAs
  <2>2. \E reason \in {"WINDOW", "NO_PEER"} : Fail(reason, h)
    BY <1>1, <2>1 DEF Perform
  <2> QED
    BY <2>2, FailsQuietly DEF Expected
<1>5. CASE s.kind \in {"ACK", "RST"}
  <2>1. /\ NextState(conn.fsm, event) = "LISTEN" /\ sends = {} /\ o.tells = none
        /\ EntryTells(conn.fsm, "LISTEN", event) = none
        /\ "REXMIT" \in armed => "REXMIT" \in conn.timers
    <3> DEFINE before == conn.timers
    <3>1. HeedsAs(s.kind, "LISTEN", before, "LISTEN", {}, none, none)
      <4> HIDE DEF before
      <4> QED
        BY <1>5, ListenerHeeds
    <3>2. o = Heeds(s.kind, "LISTEN", before)
      BY <1>1
    <3> HIDE DEF o, before, none
    <3>3. /\ NextState("LISTEN", o.event) = "LISTEN" /\ {o.sends[i] : i \in 1 .. Len(o.sends)} = {}
          /\ o.tells = none /\ EntryTells("LISTEN", "LISTEN", o.event) = none
          /\ "REXMIT" \in o.timers => "REXMIT" \in before
      BY <3>1, <3>2 DEF HeedsAs
    <3> QED
      BY <1>1, <3>3 DEF before
  <2>2. none \in Seq(Kinds) /\ none \o none = none
    BY ConcatEmptySeq
  <2>3. Perform(h, p, event, sends, none, armed, st, queue, gone, TRUE)
    BY <1>1, <2>1
  <2> DEFINE left == EntryTimers(conn.fsm, NextState(conn.fsm, event), armed)
             told == none \o EntryTells(conn.fsm, NextState(conn.fsm, event), event)
             after == IF sends = {} THEN st ELSE UpdateRcvWnd(st)
             D == tables'[h].conns
  <2>4. told = none /\ after = st
    BY <2>1, <2>2
  <2>5. \/ \E reason \in {"WINDOW", "NO_PEER"} : Fail(reason, h)
        \/ /\ Performs(h, p, event, sends, told, after, queue, gone)
           /\ Leaves(C, D, p, left, TRUE)
    <3> HIDE DEF none, event, sends, armed, st, queue, gone, C
    <3> QED
      BY <2>3, CallsRun, PerformDoes DEF C
  <2>6. CASE \E reason \in {"WINDOW", "NO_PEER"} : Fail(reason, h)
    BY <2>6, FailsQuietly DEF Expected
  <2>7. CASE /\ Performs(h, p, event, sends, told, after, queue, gone)
             /\ Leaves(C, D, p, left, TRUE)
    <3>1. NothingOf(none, {"PEER_CLOSED"})
      <4>1. 1 .. Len(none) = {}
        OBVIOUS
      <4> QED
        BY <4>1 DEF NothingOf
    <3>2. /\ Performs(h, p, event, sends, none, st, queue, gone)
          /\ Leaves(C, D, p, left, TRUE)
      BY <2>4, <2>7
    <3>3. "REXMIT" \notin armed
      <4>1. "REXMIT" \notin conn.timers
        BY <1>1, ConnIs DEF ListensOnly
      <4> QED
        BY <2>1, <4>1
    <3> HIDE DEF none, event, armed, o, sends, queue
    <3>4. Orderly(conn, event, sends, none, st, armed, queue)
      BY <1>1, <2>1, <3>1, <3>3 DEF Orderly
    <3>5. HeardOf(h, queue)
      BY <1>1, NobodyHears DEF queue
    <3>6. /\ world' = world /\ tables' = [tables EXCEPT ![h] = tables'[h]]
          /\ Moved(C, D, p, "LISTEN", st)
          /\ wire' = (wire \ {s}) \cup UNION {Sent(h, conn.pair, kind) : kind \in {}}
      BY <2>1, <3>2 DEF Performs
    <3>7. \A q \in DOMAIN C \cup DOMAIN D : ~Alters(C, D, q)
      BY <1>1, <3>6 DEF Moved, Alters
    <3>8. /\ OnlyIn(a, port, h, C, D) /\ m.client = k.client /\ m.server = k.server
      BY <3>6, <3>7, NoneAlters DEF k, m
    <3>9. /\ WireOnlyIn(a, port) /\ m.up \subseteq k.up /\ m.down \subseteq k.down
          /\ OneEach(a, port)'
      <4> DEFINE kinds == {}
      <4>1. wire' = (wire \ {s}) \cup UNION {Reply(s, kind) : kind \in kinds}
        BY <3>6
      <4>2. kinds \cap Once = {}
        OBVIOUS
      <4>3. Carries(a, port, s)
        BY DEF Carries
      <4>4. m.down \subseteq k.down \cup kinds
        <5> HIDE DEF kinds
        <5> QED
          BY <3>6, <4>1, <4>2, <4>3, Trades DEF k, m
      <4> QED
        BY <1>1, <3>6, <4>1, <4>2, <4>3, <4>4, Trades DEF k, m
    <3>10. /\ \A b \in Clients : Finished(b) => Finished(b)'
           /\ sends = {} /\ OnlyIn(a, port, h, C, D) /\ WireOnlyIn(a, port) /\ CallFits(a, port)'
              => CallsInv'
      <4> HIDE DEF st, gone, left
      <4> QED
        BY <2>2, <3>2, <3>4, <3>5, OrderlyGoesOn DEF left
    <3>11. CallFits(a, port)'
      <4>1. Fits(m)
        BY <1>2, <3>8, <3>9, LosesFits
      <4>2. m.client = {} => Finished(a)'
        <5>1. k.up # {}
          BY <1>2
        <5>2. k.client = {} => Finished(a)
          BY <1>1, <5>1, ServedFits DEF Unused, k
        <5> QED
          BY <3>8, <3>10, <5>2
      <4>3. "SYN_SENT" \notin m.client
        BY <1>3, <3>8 DEF Over
      <4> QED
        BY <1>1, <3>6, <3>9, <4>1, <4>2, <4>3, FitsLater DEF m
    <3> QED
      BY <2>1, <3>8, <3>9, <3>10, <3>11
  <2> QED
    BY <2>5, <2>6, <2>7
<1> QED
  BY <1>3, <1>4, <1>5

LEMMA ElsewhereGoesOn ==
  ASSUME Undisturbed, NEW s \in wire, NEW h \in Host, h = s.dst, NEW p \in DOMAIN tables[h].conns,
         RcvElsewhere(h, s, p)
  PROVE  CallsInv'
<1>1. p = FindConnForSegment(tables[h], s.src, h, s.srcPort, s.destPort)
  BY DEF RcvElsewhere, Arrives
<1>2. PICK a \in Clients, port \in Ephemeral : Carries(a, port, s)
  BY SegmentOf
<1>3. LET conn == tables[h].conns[p]
      IN  \/ Downward(a, port, s) /\ AtClient(a, port, h, conn)
          \/ Upward(a, port, s) /\ AtServer(a, port, h, conn)
          \/ Upward(a, port, s) /\ AtListener(a, port, h, conn)
  BY <1>1, <1>2, FoundEnd
<1> QED
  BY <1>3, ClientHeedsOn, ServerHeedsOn, ListenerHeedsOn

----------------------------------------------------------------------------
(* Timers. *)

\* An event that leads nowhere.
LEMMA StandsStill ==
  ASSUME Undisturbed, NEW h \in Host, NEW p \in DOMAIN tables[h].conns, NEW event,
         NEW sends, sends = {}, NEW tells, tells = <<>>, NEW armed, NEW gone, gone = {}, NEW removes,
         Perform(h, p, event, sends, tells, armed, tables[h].conns[p].st, toApp[h], gone, removes),
         UNCHANGED sockets,
         LET conn == tables[h].conns[p]
         IN  /\ NextState(conn.fsm, event) = conn.fsm /\ conn.fsm # "CLOSED"
             /\ conn.pair.remoteAddr # NoHost
             /\ armed \subseteq conn.timers
  PROVE  CallsInv'
<1> DEFINE C == tables[h].conns
           conn == C[p]
           st == conn.st
           queue == toApp[h]
           new == NextState(conn.fsm, event)
           left == EntryTimers(conn.fsm, new, armed)
           told == tells \o EntryTells(conn.fsm, new, event)
           after == IF sends = {} THEN st ELSE UpdateRcvWnd(st)
           D == tables'[h].conns
<1>1. /\ new = conn.fsm /\ conn.fsm # "CLOSED" /\ conn.pair.remoteAddr # NoHost
      /\ armed \subseteq conn.timers /\ ConnShape(h, conn)
  BY ConnIs
<1>2. told = tells /\ after = st /\ tells \in Seq(Kinds)
  <2>1. EntryTells(conn.fsm, new, event) = tells
    BY <1>1 DEF EntryTells
  <2>2. tells \in Seq(Kinds)
    OBVIOUS
  <2> QED
    BY <2>1, <2>2, ConcatEmptySeq
<1>3. \/ \E reason \in {"WINDOW", "NO_PEER"} : Fail(reason, h)
      \/ Performs(h, p, event, sends, told, after, queue, gone) /\ Leaves(C, D, p, left, removes)
  BY CallsRun, PerformDoes
<1>4. CASE \E reason \in {"WINDOW", "NO_PEER"} : Fail(reason, h)
  BY <1>4, FailsQuietly DEF Expected
<1>5. CASE Performs(h, p, event, sends, told, after, queue, gone) /\ Leaves(C, D, p, left, removes)
  <2>1. PICK a \in Clients, port \in Ephemeral :
           AtClient(a, port, h, conn) \/ AtServer(a, port, h, conn)
    BY <1>1, EndOf
  <2>2. NothingOf(tells, {"PEER_CLOSED"})
    <3>1. 1 .. Len(tells) = {}
      OBVIOUS
    <3> QED
      BY <3>1 DEF NothingOf
  <2> HIDE DEF queue, st, conn, C
  <2>3. Performs(h, p, event, sends, tells, st, queue, gone) /\ Leaves(C, D, p, left, removes)
    BY <1>2, <1>5
  <2>4. Orderly(conn, event, sends, tells, st, armed, queue)
    BY <1>1, <2>2 DEF Orderly, ConnShape, st
  <2>5. HeardOf(h, queue)
    BY NobodyHears DEF queue
  <2>6. /\ world' = world /\ tables' = [tables EXCEPT ![h] = tables'[h]]
        /\ Moved(C, D, p, new, st) /\ wire' = wire
    BY <2>3 DEF Performs, C, conn
  <2>7. \A q \in DOMAIN C \cup DOMAIN D : ~Alters(C, D, q)
    BY <1>1, <2>6 DEF Moved, Alters, conn
  <2> DEFINE k == Call(a, port)
             m == Call(a, port)'
  <2>8. /\ OnlyIn(a, port, h, C, D) /\ m.client = k.client /\ m.server = k.server
    BY <2>6, <2>7, NoneAlters DEF C
  <2>9. /\ m.up = k.up /\ m.down = k.down /\ WireOnlyIn(a, port)
        /\ OneEach(a, port) => OneEach(a, port)'
    <3>1. m.up = k.up /\ m.down = k.down
      <4>1. /\ k.up = KindsUp(a, port, wire) /\ k.down = KindsDown(a, port, wire)
            /\ m.up = KindsUp(a, port, wire') /\ m.down = KindsDown(a, port, wire')
        BY <2>6, CallKinds
      <4> QED
        BY <2>6, <4>1
    <3>2. OneEach(a, port) => OneEach(a, port)'
      BY <2>6, SameWorld DEF OneEach, Alike
    <3> QED
      BY <2>6, <3>1, <3>2 DEF WireOnlyIn
  <2>10. /\ \A b \in Clients : Finished(b) => Finished(b)'
         /\ OnlyIn(a, port, h, C, D) /\ WireOnlyIn(a, port) /\ CallFits(a, port)' => CallsInv'
    <3> HIDE DEF left, new
    <3>1. Leaves(tables[h].conns, tables'[h].conns, p,
                 EntryTimers(tables[h].conns[p].fsm, NextState(tables[h].conns[p].fsm, event), armed),
                 removes)
      BY <2>3 DEF C, conn, left, new
    <3> QED
      BY <1>2, <2>3, <2>4, <2>5, <3>1, OrderlyGoesOn DEF C, conn
  <2>11. CallFits(a, port)'
    <3>1. /\ Served(a) => /\ Fits(k) /\ OneEach(a, port)
                          /\ k.client = {} => Unused(k) \/ Finished(a)
          /\ ~Served(a) => Refused(k)
          /\ Awaited(k)
      BY ServedFits
    <3> HIDE DEF k, m
    <3>2. /\ Fits(k) => Fits(m)
          /\ Unused(k) => Unused(m)
          /\ Refused(k) => Refused(m)
      BY <2>8, <2>9, LosesFits
    <3> QED
      BY <2>6, <2>8, <2>9, <2>10, <3>1, <3>2, FitsLater DEF m, Awaited
  <2> QED
    BY <2>8, <2>9, <2>10, <2>11
<1> QED
  BY <1>3, <1>4, <1>5

LEMMA TimersLead ==
  ASSUME NEW fsm \in States \ {"CLOSED"}
  PROVE  /\ NextState(fsm, "TIMEOUT_CONN_ESTAB") = IF fsm = "SYN_RCVD" THEN "LISTEN" ELSE fsm
         /\ NextState(fsm, "TIMEOUT_2MSL") = IF fsm = "TIME_WAIT" THEN "CLOSED" ELSE fsm
         /\ fsm \notin Unclosed \cup {"INIT"} => NextState(fsm, "ABORT") = "CLOSED"
         /\ EntryTells("SYN_RCVD", "LISTEN", "TIMEOUT_CONN_ESTAB") = <<>>
         /\ EntryTells("TIME_WAIT", "CLOSED", "TIMEOUT_2MSL") = <<>>
         /\ EntryTells(fsm, "CLOSED", "ABORT") = <<>>
<1>1. NextState(fsm, "TIMEOUT_CONN_ESTAB") = IF fsm = "SYN_RCVD" THEN "LISTEN" ELSE fsm
  BY DEF NextState, Moves, States
<1>2. NextState(fsm, "TIMEOUT_2MSL") = IF fsm = "TIME_WAIT" THEN "CLOSED" ELSE fsm
  BY DEF NextState, Moves, States
<1>3. fsm \notin Unclosed \cup {"INIT"} => NextState(fsm, "ABORT") = "CLOSED"
  BY DEF NextState
<1> QED
  BY <1>1, <1>2, <1>3 DEF EntryTells

\* A timer ends a state.
LEMMA TimerTurns ==
  ASSUME Undisturbed, NEW h \in Host, NEW p \in DOMAIN tables[h].conns, NEW event,
         NEW tells, NEW told, told = tells, tells \in {<<>>, <<"TIMED_OUT">>},
         NEW armed, armed \subseteq tables[h].conns[p].timers, UNCHANGED sockets,
         NEW none, none = {},
         Perform(h, p, event, none, tells, armed, tables[h].conns[p].st, toApp[h], none, FALSE),
         NEW new, new = NextState(tables[h].conns[p].fsm, event),
         EntryTells(tables[h].conns[p].fsm, new, event) = <<>>,
         LET fsm == tables[h].conns[p].fsm
         IN  \/ fsm = "SYN_RCVD" /\ new = "LISTEN"
             \/ fsm = "TIME_WAIT" /\ new = "CLOSED"
             \/ fsm \notin Unclosed \cup {"CLOSED"} /\ new = "CLOSED"
  PROVE  CallsInv'
<1> DEFINE conn == tables[h].conns[p]
           queue == toApp[h]
<1>1. /\ ConnShape(h, conn) /\ ListensOnly(conn)
      /\ conn.fsm \notin {"LISTEN", "SYN_SENT", "CLOSED"} /\ new # "SYN_SENT"
  BY ConnIs DEF Unclosed
<1>2. PICK a \in Clients, port \in Ephemeral :
         AtClient(a, port, h, conn) \/ AtServer(a, port, h, conn)
  BY <1>1, EndOf
<1> DEFINE k == Call(a, port)
<1>3. Fits(k) /\ Served(a)
  BY <1>1, <1>2, ServedFits DEF AtClient, AtServer
<1>4. tells \in Seq(Kinds) /\ told = tells \o EntryTells(conn.fsm, new, event)
      /\ NothingOf(told, {"PEER_CLOSED"})
  <2> DEFINE entry == EntryTells(conn.fsm, new, event)
  <2>1. tells \in Seq(Kinds) /\ entry = <<>>
    <3>1. {<<>>, <<"TIMED_OUT">>} \subseteq Seq(Kinds)
      BY DEF Kinds
    <3> QED
      BY <3>1
  <2>2. tells \o entry = tells
    <3> HIDE DEF entry
    <3> QED
      BY <2>1, ConcatEmptySeq
  <2>3. NothingOf(tells, {"PEER_CLOSED"})
    <3>1. CASE tells = <<>>
      <4>1. 1 .. Len(tells) = {}
        BY <3>1
      <4> QED
        BY <4>1 DEF NothingOf
    <3>2. CASE tells = <<"TIMED_OUT">>
      <4>1. \A i \in 1 .. Len(tells) : tells[i] = "TIMED_OUT"
        BY <3>2
      <4> QED
        BY <4>1 DEF NothingOf
    <3> QED
      BY <3>1, <3>2
  <2> QED
    BY <2>1, <2>2, <2>3
<1>5. HeardOf(h, queue)
  BY NobodyHears
<1>6. KindsUp(a, port, none) = none /\ KindsDown(a, port, none) = none
  BY DEF KindsUp, KindsDown
<1> HIDE DEF k
<1>7. AtClient(a, port, h, conn) => ClientMay(k, new, none, none)
  <2>1. ASSUME k.client = {conn.fsm}
        PROVE  conn.fsm = "LAST_ACK" /\ Over(k)
    BY <1>1, <1>3, <2>1 DEF Fits, Calling, Answered, Opening, Opened, Ending, Over, Unclosed
  <2>2. ASSUME AtClient(a, port, h, conn)
        PROVE  ClientMay(k, new, none, none)
    <3>1. k.client = {conn.fsm}
      BY <2>2 DEF AtClient, k
    <3>2. conn.fsm = "LAST_ACK" /\ Over(k) /\ new = "CLOSED"
      BY <2>1, <3>1
    <3>3. ClientMay(k, "CLOSED", {}, none)
      BY <1>3, <3>1, <3>2, ClientMays
    <3> QED
      BY <3>2, <3>3
  <2> QED
    BY <2>2
<1>8. AtServer(a, port, h, conn) =>
         ServerMay(k, new, none, none) \/ (new = "CLOSED" /\ Ending(k))
  <2>1. ASSUME k.server = {conn.fsm}, conn.fsm # "SYN_RCVD"
        PROVE  Over(k) \/ Ending(k)
    BY <1>1, <1>3, <2>1 DEF Fits, Calling, Answered, Opening, Opened, Ending, Over, Unclosed
  <2>2. ASSUME AtServer(a, port, h, conn)
        PROVE  ServerMay(k, new, none, none) \/ (new = "CLOSED" /\ Ending(k))
    <3>1. k.server = {conn.fsm}
      BY <2>2 DEF AtServer, k
    <3> HIDE DEF conn
    <3>2. conn.fsm = "SYN_RCVD" => ServerMay(k, "LISTEN", {}, none)
      BY <1>3, <3>1, ServerMays
    <3>3. ASSUME Over(k)
          PROVE  ServerMay(k, "CLOSED", {}, none)
      BY <1>3, <3>1, <3>3, ServerMays
    <3>4. \/ conn.fsm = "SYN_RCVD" /\ new = "LISTEN"
          \/ conn.fsm # "SYN_RCVD" /\ new = "CLOSED"
      BY DEF conn, Unclosed
    <3> QED
      BY <2>1, <3>1, <3>2, <3>3, <3>4
  <2> QED
    BY <2>2
<1>9. Orderly(conn, event, none, told, conn.st, armed, queue)
  <2>1. new \in Unclosed => "REXMIT" \notin armed
    BY <1>1 DEF ConnShape, Unclosed
  <2>2. ~AwaitsClose(conn)
    <3>1. conn.pair.localPort \in Ephemeral => conn.fsm # "CLOSE_WAIT"
      BY DEF Unclosed
    <3> QED
      BY <3>1 DEF AwaitsClose, Unclosed
  <2> HIDE DEF conn, queue
  <2>3. new = NextState(conn.fsm, event)
    BY DEF conn
  <2> QED
    BY <1>1, <1>4, <2>1, <2>2, <2>3 DEF Orderly
<1>10. TurnsIn(a, port, h, conn, event, none, told, queue, none, FALSE)
  <2> HIDE DEF conn, queue
  <2>1. new = NextState(conn.fsm, event)
    BY DEF conn
  <2> QED
    BY <1>1, <1>2, <1>6, <1>7, <1>8, <2>1 DEF TurnsIn, k
<1>11. Perform(h, p, event, none, tells, armed, tables[h].conns[p].st, queue, none, FALSE)
       /\ told = tells \o EntryTells(tables[h].conns[p].fsm,
                                     NextState(tables[h].conns[p].fsm, event), event)
  BY <1>4
<1> HIDE DEF queue
<1> QED
  BY <1>4, <1>5, <1>9, <1>10, <1>11, PerformTurns DEF conn

LEMMA TimerGoesOn ==
  ASSUME Undisturbed, NEW h \in Host, NEW p, TimerFires(h, p)
  PROVE  CallsInv'
<1> DEFINE conn == tables[h].conns[p]
           none == {}
           silence == <<>>
           queue == toApp[h]
           Fires(timer, event, tells) ==
               /\ timer \in conn.timers
               /\ Perform(h, p, event, none, tells, conn.timers \ {timer}, conn.st, queue, none, FALSE)
<1>1. /\ p \in DOMAIN tables[h].conns /\ UNCHANGED sockets
      /\ \/ Fires("CONN_ESTAB", "TIMEOUT_CONN_ESTAB", silence)
         \/ Fires("TIMEOUT_2MSL", "TIMEOUT_2MSL", silence)
         \/ Fires("REXMIT", "ABORT", <<"TIMED_OUT">>)
  BY DEF TimerFires, appVars
<1>2. /\ ConnShape(h, conn) /\ ListensOnly(conn) /\ IsConnection(conn, nextId)
  BY <1>1, ConnIs
<1>3. /\ conn.fsm \in States \ {"CLOSED"} /\ conn.pair.remoteAddr # NoHost
  BY <1>1, <1>2 DEF IsConnection, ListensOnly
<1>4. conn.fsm # "INIT"
  <2>1. PICK a \in Clients, port \in Ephemeral :
           AtClient(a, port, h, conn) \/ AtServer(a, port, h, conn)
    BY <1>1, <1>3, EndOf
  <2> DEFINE k == Call(a, port)
  <2>2. (Fits(k) \/ Refused(k)) /\ (k.client = {conn.fsm} \/ k.server = {conn.fsm})
    BY <2>1, ServedFits DEF AtClient, AtServer
  <2> HIDE DEF k, conn
  <2> QED
    BY <2>2 DEF Fits, Refused, Calling, Answered, Opening, Opened, Ending, Over
<1>5. /\ NextState(conn.fsm, "TIMEOUT_CONN_ESTAB") = IF conn.fsm = "SYN_RCVD" THEN "LISTEN" ELSE conn.fsm
      /\ NextState(conn.fsm, "TIMEOUT_2MSL") = IF conn.fsm = "TIME_WAIT" THEN "CLOSED" ELSE conn.fsm
      /\ conn.fsm \notin Unclosed \cup {"INIT"} => NextState(conn.fsm, "ABORT") = "CLOSED"
      /\ EntryTells("SYN_RCVD", "LISTEN", "TIMEOUT_CONN_ESTAB") = silence
      /\ EntryTells("TIME_WAIT", "CLOSED", "TIMEOUT_2MSL") = silence
      /\ EntryTells(conn.fsm, "CLOSED", "ABORT") = silence
  BY <1>3, TimersLead
<1> HIDE DEF conn, none, silence, queue
<1>6. CASE Fires("CONN_ESTAB", "TIMEOUT_CONN_ESTAB", silence)
  <2> DEFINE armed == conn.timers \ {"CONN_ESTAB"}
  <2>1. armed \subseteq conn.timers
        /\ Perform(h, p, "TIMEOUT_CONN_ESTAB", none, silence, armed, conn.st, queue, none, FALSE)
    BY <1>6
  <2> HIDE DEF armed
  <2>2. CASE conn.fsm = "SYN_RCVD"
    <3> DEFINE new == NextState(conn.fsm, "TIMEOUT_CONN_ESTAB")
    <3>1. new = "LISTEN" /\ EntryTells(conn.fsm, new, "TIMEOUT_CONN_ESTAB") = silence
      BY <1>5, <2>2
    <3> HIDE DEF new
    <3>2. new = NextState(conn.fsm, "TIMEOUT_CONN_ESTAB")
      BY DEF new
    <3> QED
      BY <1>1, <2>1, <2>2, <3>1, <3>2, TimerTurns DEF conn, none, silence, queue
  <2>3. CASE conn.fsm # "SYN_RCVD"
    BY <1>1, <1>3, <1>5, <2>1, <2>3, StandsStill DEF conn, none, silence, queue
  <2> QED
    BY <2>2, <2>3
<1>7. CASE Fires("TIMEOUT_2MSL", "TIMEOUT_2MSL", silence)
  <2> DEFINE armed == conn.timers \ {"TIMEOUT_2MSL"}
  <2>1. armed \subseteq conn.timers
        /\ Perform(h, p, "TIMEOUT_2MSL", none, silence, armed, conn.st, queue, none, FALSE)
    BY <1>7
  <2> HIDE DEF armed
  <2>2. CASE conn.fsm = "TIME_WAIT"
    <3> DEFINE new == NextState(conn.fsm, "TIMEOUT_2MSL")
    <3>1. new = "CLOSED" /\ EntryTells(conn.fsm, new, "TIMEOUT_2MSL") = silence
      BY <1>5, <2>2
    <3> HIDE DEF new
    <3>2. new = NextState(conn.fsm, "TIMEOUT_2MSL")
      BY DEF new
    <3> QED
      BY <1>1, <2>1, <2>2, <3>1, <3>2, TimerTurns DEF conn, none, silence, queue
  <2>3. CASE conn.fsm # "TIME_WAIT"
    BY <1>1, <1>3, <1>5, <2>1, <2>3, StandsStill DEF conn, none, silence, queue
  <2> QED
    BY <2>2, <2>3
<1>8. CASE Fires("REXMIT", "ABORT", <<"TIMED_OUT">>)
  <2> DEFINE armed == conn.timers \ {"REXMIT"}
             tells == <<"TIMED_OUT">>
             new == NextState(conn.fsm, "ABORT")
  <2>1. armed \subseteq conn.timers
        /\ Perform(h, p, "ABORT", none, tells, armed, conn.st, queue, none, FALSE)
    BY <1>8
  <2>2. conn.fsm \notin Unclosed \cup {"CLOSED"}
    BY <1>2, <1>3, <1>8 DEF ConnShape
  <2>3. new = "CLOSED" /\ EntryTells(conn.fsm, new, "ABORT") = silence
    BY <1>4, <1>5, <2>2
  <2>4. tells \in {<<>>, <<"TIMED_OUT">>}
    OBVIOUS
  <2> HIDE DEF armed, new, tells
  <2>5. new = NextState(conn.fsm, "ABORT")
    BY DEF new
  <2> QED
    BY <1>1, <2>1, <2>2, <2>3, <2>4, <2>5, TimerTurns DEF conn, none, silence, queue
<1> QED
  BY <1>1, <1>6, <1>7, <1>8

----------------------------------------------------------------------------
(* Steps that leave every call as it is. *)

LEMMA CallStays ==
  ASSUME Undisturbed, world' = world, wire' = wire, NEW h \in Host, NEW U,
         tables' = [tables EXCEPT ![h] = U],
         \A p \in DOMAIN tables[h].conns \cup DOMAIN U.conns : ~Alters(tables[h].conns, U.conns, p),
         \A b \in Clients : Finished(b) => Finished(b)'
  PROVE  CallsFit'
<1>1. ASSUME NEW a \in Clients, NEW port \in Ephemeral
      PROVE  CallFits(a, port)'
  <2> DEFINE k == Call(a, port)
             m == Call(a, port)'
  <2>1. m.client = k.client /\ m.server = k.server
    BY <1>1, NoneAlters
  <2>2. m.up = k.up /\ m.down = k.down
    <3>1. /\ k.up = KindsUp(a, port, wire) /\ k.down = KindsDown(a, port, wire)
          /\ m.up = KindsUp(a, port, wire') /\ m.down = KindsDown(a, port, wire')
      BY CallKinds
    <3> QED
      BY <3>1
  <2>3. OneEach(a, port) => OneEach(a, port)'
    BY SameWorld DEF OneEach, Alike
  <2>4. CallFits(a, port)
    BY <1>1, CallsRun DEF CallsFit
  <2>5. /\ Served(a) => /\ Fits(k) /\ OneEach(a, port)
                        /\ k.client = {} => Unused(k) \/ Finished(a)
        /\ ~Served(a) => Refused(k)
        /\ Awaited(k)
    BY <2>4 DEF CallFits
  <2> HIDE DEF k, m
  <2>6. /\ Fits(k) => Fits(m)
        /\ Unused(k) => Unused(m)
        /\ Refused(k) => Refused(m)
    BY <2>1, <2>2, LosesFits
  <2> QED
    BY <1>1, <2>1, <2>2, <2>3, <2>5, <2>6, FitsLater DEF m, Awaited
<1> QED
  BY <1>1, SameWorld DEF CallsFit

LEMMA QuietStep ==
  ASSUME Undisturbed, world' = world, up' = up, error' = error, wire' = wire,
         NEW h \in Host, NEW U, NEW Q,
         tables' = [tables EXCEPT ![h] = U], toApp' = [toApp EXCEPT ![h] = Q],
         \A p \in DOMAIN tables[h].conns \cup DOMAIN U.conns : ~Alters(tables[h].conns, U.conns, p),
         \A p \in DOMAIN U.conns : ConnShape(h, U.conns[p]),
         Pending(U.conns, Q),
         \A b \in Clients : Finished(b) => Finished(b)'
  PROVE  CallsInv'
<1>1. HostsInv /\ PortsServeOnce /\ Shapes /\ CallsFit /\ Pends /\ ClosesInTime
  BY DEF Undisturbed, CallsInv
<1>2. Shapes'
  BY <1>1, ShapesStay
<1>3. CallsFit'
  BY CallStays
<1>4. Pends'
  <2>1. tables = [g \in Host |-> tables[g]] /\ toApp = [g \in Host |-> toApp[g]]
    BY <1>1 DEF HostsInv
  <2>2. \A g \in Host : /\ tables'[g] = IF g = h THEN U ELSE tables[g]
                        /\ toApp'[g] = IF g = h THEN Q ELSE toApp[g]
    BY <2>1
  <2>3. \A g \in Host : Pending(tables'[g].conns, toApp'[g])
    BY <1>1, <2>2 DEF Pends
  <2> QED
    BY <2>3 DEF Pends, Pending, AwaitsClose
<1>5. ClosesInTime'
  BY <1>1 DEF ClosesInTime
<1> QED
  BY <1>2, <1>3, <1>4, <1>5 DEF CallsInv

\* The last symbol of a transfer has arrived.
LEMMA LastSymbolGoesOn ==
  ASSUME Undisturbed, NEW h \in Host, NEW p, LastSymbol(h, p)
  PROVE  CallsInv'
<1> DEFINE T == tables[h]
           C == T.conns
           conn == C[p]
           changed == [conn EXCEPT !.done = TRUE]
           D == [C EXCEPT ![p] = changed]
           U == [T EXCEPT !.conns[p].done = TRUE]
           told == <<"PEER_CLOSED">>
           queue == toApp[h]
           R == Append(queue, Indication(conn, "PEER_CLOSED"))
<1>1. /\ p \in DOMAIN C /\ conn.fsm = "ESTABLISHED" /\ ~conn.done
      /\ conn.pair.localPort \notin Ephemeral
      /\ tables' = [tables EXCEPT ![h].conns[p].done = TRUE]
      /\ toApp' = [toApp EXCEPT ![h] = R]
      /\ UNCHANGED <<world, up, sockets, threads, wire, nextId, operations, error>>
  BY DEF LastSymbol
<1>2. /\ HostsInv /\ "conns" \in DOMAIN T /\ DOMAIN conn = Fields /\ nextId \in Nat
      /\ queue \in Seq(Indications(nextId)) /\ DOMAIN tables = Host
      /\ conn.gate \in Nat /\ conn.connId \in 1 .. nextId - 1
      /\ \A q \in DOMAIN C : C[q].connId = conn.connId => q = p
      /\ Pending(C, queue) /\ \A q \in DOMAIN C : ConnShape(h, C[q])
  BY <1>1, CallsRun, ConnsOf, AppsAre, ConnIs DEF Pends
<1>3. tables' = [tables EXCEPT ![h] = U]
  BY <1>1
<1>4. U.conns = D
  BY <1>2
<1> HIDE DEF U
<1>5. /\ changed.pair = conn.pair /\ changed.fsm = conn.fsm /\ changed.st = conn.st
      /\ changed.gate = conn.gate /\ changed.connId = conn.connId /\ changed.timers = conn.timers
      /\ changed.done = TRUE
  BY <1>2 DEF Fields
<1> HIDE DEF changed
<1>6. /\ DOMAIN D = DOMAIN C /\ D[p] = changed
      /\ \A q \in DOMAIN C \ {p} : D[q] = C[q]
  BY <1>1
<1> HIDE DEF D
<1>7. \A q \in DOMAIN C \cup DOMAIN U.conns : ~Alters(C, U.conns, q)
  BY <1>1, <1>4, <1>5, <1>6 DEF Alters
<1>8. \A q \in DOMAIN U.conns : ConnShape(h, U.conns[q])
  <2>1. ConnShape(h, conn)
    BY <1>1, <1>2
  <2>2. ConnShape(h, changed)
    <3> HIDE DEF conn
    <3> QED
      BY <1>5, <2>1 DEF ConnShape
  <2> HIDE DEF conn, C
  <2> QED
    BY <1>2, <1>4, <1>6, <2>2
<1>9. HearsFrom(R, queue, conn, told) /\ Len(queue) \in Nat /\ Len(told) \in Nat
      /\ Len(told) = 1 /\ told[1] = "PEER_CLOSED"
  <2> HIDE DEF conn
  <2> QED
    BY <1>2 DEF HearsFrom, Indication
<1>10. Pending(D, R)
  <2>1. AwaitsClose(D[p]) /\ ~AwaitsClose(C[p]) /\ p \in DOMAIN D
    <3> HIDE DEF C
    <3> QED
      BY <1>1, <1>5, <1>6 DEF AwaitsClose
  <2>2. StillAwaits(C, D, p, queue)
    BY <2>1 DEF StillAwaits
  <2> HIDE DEF told
  <2>3. SaysClose(C, D, p, told)
    BY <1>9, <2>1 DEF SaysClose
  <2>4. D[p].gate = C[p].gate /\ D[p].connId = C[p].connId
    BY <1>5, <1>6
  <2> HIDE DEF C, queue, R
  <2> QED
    BY <1>1, <1>2, <1>6, <1>9, <2>2, <2>3, <2>4, PendingMoves DEF conn
<1>11. \A b \in Clients : Finished(b) => Finished(b)'
  <2>1. AllClosed(C) => AllClosed(U.conns)
    <3> HIDE DEF C
    <3> QED
      BY <1>1, <1>4, <1>5, <1>6 DEF AllClosed
  <2>2. ASSUME NEW b \in Clients, Quiet(b, queue)
        PROVE  Quiet(b, R)
    <3>1. ASSUME NEW i \in 1 .. Len(R), R[i].gate = b[2]
          PROVE  R[i].kind \notin Failures
      <4>1. CASE i \in 1 .. Len(queue)
        BY <1>9, <2>2, <3>1, <4>1 DEF HearsFrom, Quiet
      <4>2. CASE i \notin 1 .. Len(queue)
        <5>1. i = Len(queue) + 1
          BY <1>9, <4>2 DEF HearsFrom
        <5>2. R[i].kind = "PEER_CLOSED"
          BY <1>9, <5>1 DEF HearsFrom
        <5> QED
          BY <5>2 DEF Failures
      <4> QED
        BY <4>1, <4>2
    <3> QED
      BY <3>1 DEF Quiet
  <2>3. \A b \in Clients : b[1] = h /\ Quiet(b, queue) => Quiet(b, R)
    BY <2>2
  <2>4. \A b \in Clients : b[1] \in Host
    BY CallsRun, CallersAre
  <2>5. sockets' = sockets /\ world' = world
    BY <1>1
  <2> HIDE DEF C, R
  <2> QED
    BY <1>1, <1>2, <1>3, <2>1, <2>3, <2>4, <2>5, FinishedStays DEF C
<1>12. Pending(U.conns, R)
  BY <1>4, <1>10
<1> HIDE DEF R
<1>13. /\ world' = world /\ up' = up /\ error' = error /\ wire' = wire
       /\ toApp' = [toApp EXCEPT ![h] = R]
  BY <1>1
<1> HIDE DEF T, C
<1>14. \A q \in DOMAIN tables[h].conns \cup DOMAIN U.conns : ~Alters(tables[h].conns, U.conns, q)
  BY <1>7 DEF C, T
<1> QED
  BY <1>3, <1>8, <1>11, <1>12, <1>13, <1>14, QuietStep

LEMMA StopTimeGoesOn ==
  ASSUME Undisturbed, NEW a \in DOMAIN world.apps, StopTimePasses(a)
  PROVE  CallsInv'
<1>1. /\ sockets' = [sockets EXCEPT ![a].over = TRUE] /\ AppKind(a) = "client"
      /\ UNCHANGED <<world, tables, up, threads, toApp, wire, nextId, operations, error>>
  BY DEF StopTimePasses
<1>2. HostsInv /\ AppsInv /\ DOMAIN sockets = DOMAIN world.apps /\ a[1] \in Host
  BY CallsRun, AppsAre
<1>3. PICK h \in Host : h = a[1]
  BY <1>2
<1> DEFINE U == tables[h]
           Q == toApp[h]
<1>4. tables' = [tables EXCEPT ![h] = U] /\ toApp' = [toApp EXCEPT ![h] = Q]
  <2>1. tables = [g \in Host |-> tables[g]] /\ toApp = [g \in Host |-> toApp[g]]
    BY <1>2 DEF HostsInv
  <2> QED
    BY <1>1, <2>1
<1>5. \A p \in DOMAIN tables[h].conns \cup DOMAIN U.conns : ~Alters(tables[h].conns, U.conns, p)
  BY DEF Alters
<1>6. Pending(U.conns, Q) /\ \A p \in DOMAIN U.conns : ConnShape(h, U.conns[p])
  BY CallsRun, ConnIs DEF Pends
<1> HIDE DEF U, Q
<1>7. ASSUME NEW b \in Clients, Finished(b)
      PROVE  Finished(b)'
  <2>1. sockets'[b].timer = sockets[b].timer
    BY <1>1, <1>2, <1>7
  <2> QED
    BY <1>1, <1>7, <2>1 DEF Finished, Quiet, AllClosed
<1> QED
  BY <1>1, <1>4, <1>5, <1>6, <1>7, QuietStep

----------------------------------------------------------------------------
(* Applications hear indications. *)

LEMMA RestPends ==
  ASSUME Undisturbed, NEW h \in Host, toApp[h] # <<>>
  PROVE  LET Q == toApp[h]
             rest == Tail(Q)
         IN  /\ rest \in Seq(Indications(nextId)) /\ Pending(tables[h].conns, rest)
             /\ \A b : Quiet(b, Q) => Quiet(b, rest)
             /\ \A b : ~Quiet(b, Q) \/ Head(Q).gate # b[2] \/ Head(Q).kind \notin Failures
             /\ Head(Q).kind = "PEER_CLOSED" =>
                   /\ \E p \in DOMAIN tables[h].conns :
                         LET conn == tables[h].conns[p]
                         IN  /\ conn.gate = Head(Q).gate /\ conn.connId = Head(Q).connId
                             /\ AwaitsClose(conn)
                   /\ \A i \in 1 .. Len(rest) : ~Closes(rest, i, Head(Q).connId)
<1> DEFINE Q == toApp[h]
           C == tables[h].conns
           rest == Tail(Q)
           n == Len(Q)
<1>1. nextId \in Nat /\ Q \in Seq(Indications(nextId)) /\ Pending(C, Q)
  BY CallsRun, AppsAre DEF Pends
<1>2. /\ n \in Nat \ {0} /\ Head(Q) = Q[1] /\ rest \in Seq(Indications(nextId))
      /\ Len(rest) = n - 1 /\ \A i \in 1 .. n - 1 : rest[i] = Q[i + 1]
  BY <1>1, TailGives
<1> HIDE DEF Q, C, rest, n
<1>3. /\ 1 \in 1 .. n
      /\ \A i \in 1 .. Len(rest) : i + 1 \in 1 .. n /\ rest[i] = Q[i + 1] /\ i + 1 # 1
      /\ \A i, j \in 1 .. Len(rest) : i + 1 = j + 1 => i = j
  BY <1>2
<1>4. Pending(C, rest)
  <2>1. ASSUME NEW i \in 1 .. Len(rest), rest[i].kind = "PEER_CLOSED"
        PROVE  \E p \in DOMAIN C :
                  C[p].gate = rest[i].gate /\ C[p].connId = rest[i].connId /\ AwaitsClose(C[p])
    <3>1. i + 1 \in 1 .. n /\ rest[i] = Q[i + 1]
      BY <1>3, <2>1
    <3> DEFINE j == i + 1
    <3>2. j \in 1 .. Len(Q) /\ Q[j].kind = "PEER_CLOSED" /\ rest[i] = Q[j]
      BY <2>1, <3>1 DEF n
    <3> HIDE DEF j
    <3> QED
      BY <1>1, <3>2 DEF Pending
  <2>2. ASSUME NEW i \in 1 .. Len(rest), NEW j \in 1 .. Len(rest),
               rest[i].kind = "PEER_CLOSED", rest[j].kind = "PEER_CLOSED",
               rest[i].connId = rest[j].connId
        PROVE  i = j
    BY <1>1, <1>3, <2>2 DEF Pending, n
  <2> QED
    BY <2>1, <2>2 DEF Pending
<1>5. \A b : Quiet(b, Q) => Quiet(b, rest)
  BY <1>3 DEF Quiet, n
<1>6. \A b : ~Quiet(b, Q) \/ Head(Q).gate # b[2] \/ Head(Q).kind \notin Failures
  BY <1>2, <1>3 DEF Quiet, n
<1>7. ASSUME Head(Q).kind = "PEER_CLOSED"
      PROVE  /\ \E p \in DOMAIN C :
                   /\ C[p].gate = Head(Q).gate /\ C[p].connId = Head(Q).connId
                   /\ AwaitsClose(C[p])
             /\ \A i \in 1 .. Len(rest) : ~Closes(rest, i, Head(Q).connId)
  <2>1. \E p \in DOMAIN C :
           C[p].gate = Head(Q).gate /\ C[p].connId = Head(Q).connId /\ AwaitsClose(C[p])
    BY <1>1, <1>2, <1>3, <1>7 DEF Pending, n
  <2>2. ASSUME NEW i \in 1 .. Len(rest), Closes(rest, i, Head(Q).connId)
        PROVE  FALSE
    <3>1. Q[i + 1].kind = "PEER_CLOSED" /\ Q[i + 1].connId = Q[1].connId /\ Q[1].kind = "PEER_CLOSED"
      BY <1>2, <1>3, <1>7, <2>2 DEF Closes
    <3> QED
      BY <1>1, <1>3, <2>2, <3>1 DEF Pending, n
  <2> QED
    BY <2>1, <2>2
<1> QED
  BY <1>2, <1>4, <1>5, <1>6, <1>7 DEF Q, C, rest

\* The application of the first indication takes it.
Heeding(h) ==
    \A b \in Clients : sockets'[b].timer = "CONNECT" =>
        \/ sockets[b].timer = "CONNECT"
        \/ b = <<h, Head(toApp[h]).gate>> /\ Head(toApp[h]).kind \in Failures

LEMMA HeardRest ==
  ASSUME Undisturbed, NEW h \in Host, toApp[h] # <<>>, Heeding(h)
  PROVE  HeardOf(h, Tail(toApp[h]))
<1> DEFINE Q == toApp[h]
           rest == Tail(Q)
<1>1. /\ rest \in Seq(Indications(nextId)) /\ Pending(tables[h].conns, rest)
      /\ \A b : Quiet(b, Q) => Quiet(b, rest)
      /\ \A b : ~Quiet(b, Q) \/ Head(Q).gate # b[2] \/ Head(Q).kind \notin Failures
  BY RestPends
<1>2. \A b \in Clients : b = <<h, Head(Q).gate>> => b[1] = h /\ b[2] = Head(Q).gate
  OBVIOUS
<1> HIDE DEF Q, rest
<1>3. \A b \in Clients : sockets'[b].timer = "CONNECT" =>
         sockets[b].timer = "CONNECT" \/ (b[1] = h /\ ~Quiet(b, Q))
  BY <1>1, <1>2 DEF Heeding, Q
<1> QED
  BY <1>1, <1>3 DEF HeardOf, Q, rest

LEMMA ConsumeGoesOn ==
  ASSUME Undisturbed, NEW h \in Host, toApp[h] # <<>>, Heeding(h), Consume(h)
  PROVE  CallsInv'
<1> DEFINE U == tables[h]
           Q == Tail(toApp[h])
<1>1. /\ toApp' = [toApp EXCEPT ![h] = Q]
      /\ UNCHANGED <<world, tables, up, wire, nextId, operations, error>>
  BY DEF Consume
<1>2. HeardOf(h, Q)
  BY HeardRest
<1>3. HostsInv /\ \A p \in DOMAIN U.conns : ConnShape(h, U.conns[p])
  BY CallsRun, ConnIs
<1>4. tables' = [tables EXCEPT ![h] = U]
  <2>1. tables = [g \in Host |-> tables[g]]
    BY <1>3 DEF HostsInv
  <2> QED
    BY <1>1, <2>1
<1>5. \A p \in DOMAIN tables[h].conns \cup DOMAIN U.conns : ~Alters(tables[h].conns, U.conns, p)
  BY DEF Alters
<1>6. Pending(U.conns, Q)
  BY <1>2 DEF HeardOf
<1>7. \A b \in Clients : Finished(b) => Finished(b)'
  <2>1. \A b \in Clients : b[1] \in Host
    BY CallsRun, CallersAre
  <2>2. /\ \A b \in Clients : sockets'[b].timer = "CONNECT" =>
              sockets[b].timer = "CONNECT" \/ (b[1] = h /\ ~Quiet(b, toApp[h]))
        /\ \A b \in Clients : b[1] = h /\ Quiet(b, toApp[h]) => Quiet(b, Q)
    BY <1>2 DEF HeardOf
  <2>3. ~AllClosed(tables[h].conns) \/ AllClosed(U.conns)
    OBVIOUS
  <2>4. world' = world
    BY <1>1
  <2> HIDE DEF U, Q
  <2> QED
    BY <1>1, <1>3, <1>4, <2>1, <2>2, <2>3, <2>4, FinishedStays
<1>8. world' = world /\ up' = up /\ error' = error /\ wire' = wire
  BY <1>1
<1> HIDE DEF U, Q
<1> QED
  BY <1>1, <1>3, <1>4, <1>5, <1>6, <1>7, <1>8, QuietStep

\* An application closes its connection, whose other end has closed.
LEMMA CloseTurns ==
  ASSUME Undisturbed, NEW h \in Host, toApp[h] # <<>>, Heeding(h),
         NEW p \in DOMAIN tables[h].conns, AwaitsClose(tables[h].conns[p]),
         NEW queue, queue = Tail(toApp[h]),
         \A i \in 1 .. Len(queue) : ~Closes(queue, i, tables[h].conns[p].connId),
         NEW sends, sends = {"FIN"}, NEW tells, tells = <<>>, NEW none, none = {}, NEW armed,
         Perform(h, p, "CLOSE", sends, tells, armed, tables[h].conns[p].st, queue, none, TRUE)
  PROVE  CallsInv'
<1> DEFINE conn == tables[h].conns[p]
           new == NextState(conn.fsm, "CLOSE")
           entry == EntryTells(conn.fsm, new, "CLOSE")
           told == tells \o entry
<1>1. /\ ConnShape(h, conn) /\ ListensOnly(conn)
      /\ AwaitsClose(conn) /\ conn.fsm \in {"CLOSE_WAIT", "ESTABLISHED"}
  BY ConnIs DEF AwaitsClose
<1>2. PICK a \in Clients, port \in Ephemeral :
         AtClient(a, port, h, conn) \/ AtServer(a, port, h, conn)
  BY <1>1, EndOf
<1> DEFINE k == Call(a, port)
<1>3. Fits(k) /\ Served(a)
  BY <1>1, <1>2, ServedFits DEF AtClient, AtServer
<1>4. /\ conn.fsm = "CLOSE_WAIT" => new = "LAST_ACK"
      /\ conn.fsm = "ESTABLISHED" => new = "FIN_WAIT_1"
      /\ new \in {"LAST_ACK", "FIN_WAIT_1"} /\ entry = tells
  <2>1. /\ NextState("CLOSE_WAIT", "CLOSE") = "LAST_ACK"
        /\ NextState("ESTABLISHED", "CLOSE") = "FIN_WAIT_1"
    BY DEF NextState, Moves
  <2> QED
    BY <1>1, <2>1 DEF EntryTells
<1>5. tells \in Seq(Kinds) /\ told = tells /\ NothingOf(told, {"PEER_CLOSED"})
  <2>1. tells \in Seq(Kinds) /\ tells \o tells = tells /\ 1 .. Len(tells) = {}
    <3>1. tells \in Seq(Kinds) /\ 1 .. Len(tells) = {}
      OBVIOUS
    <3> QED
      BY <3>1, ConcatEmptySeq
  <2> HIDE DEF entry
  <2> QED
    BY <1>4, <2>1 DEF NothingOf
<1>6. HeardOf(h, queue)
  BY HeardRest
<1>7. KindsUp(a, port, none) = none /\ KindsDown(a, port, none) = none
  BY DEF KindsUp, KindsDown
<1> HIDE DEF k, told, entry, new
<1>8. AtClient(a, port, h, conn) => ClientMay(k, new, sends, none)
  <2>1. ASSUME AtClient(a, port, h, conn)
        PROVE  ClientMay(k, new, sends, none)
    <3>1. k.client = {conn.fsm} /\ conn.fsm = "CLOSE_WAIT"
      BY <1>1, <2>1 DEF AtClient, AwaitsClose, k
    <3> HIDE DEF conn
    <3>2. Ending(k)
      BY <1>3, <3>1 DEF Fits, Calling, Answered, Opening, Opened, Ending, Over
    <3>3. ClientMay(k, "LAST_ACK", {"FIN"}, none)
      BY <1>3, <3>1, <3>2, ClientMays
    <3> QED
      BY <1>4, <3>1, <3>3
  <2> QED
    BY <2>1
<1>9. AtServer(a, port, h, conn) => ServerMay(k, new, sends, none)
  <2>1. ASSUME AtServer(a, port, h, conn)
        PROVE  ServerMay(k, new, sends, none)
    <3>1. k.server = {conn.fsm} /\ conn.fsm = "ESTABLISHED"
      BY <1>1, <2>1 DEF AtServer, AwaitsClose, k
    <3> HIDE DEF conn
    <3>2. Opened(k)
      BY <1>3, <3>1 DEF Fits, Calling, Answered, Opening, Opened, Ending, Over
    <3>3. ServerMay(k, "FIN_WAIT_1", {"FIN"}, none)
      BY <1>3, <3>1, <3>2, ServerMays
    <3> QED
      BY <1>4, <3>1, <3>3
  <2> QED
    BY <2>1
<1>10. Orderly(conn, "CLOSE", sends, told, conn.st, armed, queue)
  <2>1. \A i \in 1 .. Len(queue) : ~Closes(queue, i, conn.connId)
    OBVIOUS
  <2>2. new \notin Unclosed /\ "SYNACK" \notin sends
        /\ conn.fsm \notin {"CLOSED", "SYN_SENT"}
    BY <1>1, <1>4 DEF Unclosed
  <2> HIDE DEF conn
  <2> QED
    BY <1>5, <2>1, <2>2 DEF Orderly, new
<1>11. TurnsIn(a, port, h, conn, "CLOSE", sends, told, queue, none, TRUE)
  <2>1. sends \cap Once = {} /\ conn.fsm # "SYN_SENT" /\ new \notin {"SYN_SENT", "CLOSED"}
    BY <1>1, <1>4 DEF Once
  <2> HIDE DEF conn
  <2> QED
    BY <1>2, <1>7, <1>8, <1>9, <2>1 DEF TurnsIn, k, new
<1>12. told = tells \o EntryTells(tables[h].conns[p].fsm,
                                  NextState(tables[h].conns[p].fsm, "CLOSE"), "CLOSE")
  BY DEF told, entry, new
<1> QED
  BY <1>5, <1>6, <1>10, <1>11, <1>12, PerformTurns DEF conn

LEMMA CloseGoesOn ==
  ASSUME Undisturbed, NEW h \in Host, toApp[h] # <<>>, Heeding(h),
         Head(toApp[h]).kind = "PEER_CLOSED",
         LET i == Head(toApp[h]) IN Close(h, i.gate, i.connId, Tail(toApp[h]))
  PROVE  CallsInv'
<1> DEFINE i == Head(toApp[h])
           gate == i.gate
           id == i.connId
           T == tables[h]
           rest == Tail(toApp[h])
<1>1. PICK p \in DOMAIN T.conns :
         T.conns[p].gate = gate /\ T.conns[p].connId = id /\ AwaitsClose(T.conns[p])
  BY RestPends
<1>2. \A j \in 1 .. Len(rest) : ~Closes(rest, j, id)
  BY RestPends
<1> DEFINE conn == T.conns[p]
<1>3. FindConnForApp(T, gate, id) = p /\ p # NoConn /\ up[h]
  <2>1. AppsAgree(T) /\ HostsInv /\ up[h]
    BY CallsRun DEF HostsInv, HostOK, TablesOK
  <2>2. p # NoConn
    BY <2>1, ConnsOf
  <2> HIDE DEF T, gate, id
  <2> QED
    BY <1>1, <2>1, <2>2 DEF AppsAgree, FindConnForApp
<1>4. conn.fsm \in {"CLOSE_WAIT", "ESTABLISHED"}
  BY <1>1 DEF AwaitsClose
<1>5. Close(h, gate, id, rest)
  OBVIOUS
<1> DEFINE sends == {"FIN"}
           tells == <<>>
           none == {}
           armed == conn.timers \cup {"REXMIT"}
<1>6. Perform(h, p, "CLOSE", sends, tells, armed, conn.st, rest, none, TRUE)
  <2> HIDE DEF gate, id, rest
  <2> QED
    BY <1>3, <1>4, <1>5 DEF Close, Closing
<1>7. AwaitsClose(conn) /\ \A j \in 1 .. Len(rest) : ~Closes(rest, j, conn.connId)
  BY <1>1, <1>2
<1> HIDE DEF sends, tells, none, armed, rest, i
<1> QED
  BY <1>6, <1>7, CloseTurns DEF sends, tells, none, rest

LEMMA ToldClient ==
  ASSUME NEW client, NEW kind, kind \notin Failures
  PROVE  ClientAfter(client, kind).timer = client.timer
BY DEF ClientAfter, Told, CloseSocket, Failures

\* An application hears the first of its indications.
LEMMA AppGoesOn ==
  ASSUME Undisturbed, NEW a \in DOMAIN world.apps, AppStep(a[1], a)
  PROVE  CallsInv'
<1> DEFINE h == a[1]
           i == Head(toApp[h])
<1>1. /\ h \in Host /\ up[h] /\ toApp[h] # <<>> /\ a = <<h, i.gate>>
  BY CallsRun, AppAt DEF AppStep, ClientReceives, SinkReceives, EchoReceives, ThreadReceives, Receives
<1>2. \/ \E reason \in {"WRONG_SOCKET", "APP_DOWN"} : Fail(reason, h)
      \/ i.kind = "PEER_CLOSED" /\ Close(h, i.gate, i.connId, Tail(toApp[h]))
      \/ Consume(h)
  BY DEF AppStep, ClientReceives, SinkReceives, EchoReceives, ThreadReceives
<1>3. Heeding(h)
  <2>1. \/ sockets' = sockets
        \/ sockets' = [sockets EXCEPT ![a] = ClientAfter(@, i.kind)]
    BY DEF AppStep, ClientReceives, SinkReceives, EchoReceives, ThreadReceives, appVars
  <2>2. DOMAIN sockets = DOMAIN world.apps /\ \A b \in Clients : b \in DOMAIN world.apps
    BY CallsRun, AppsAre DEF Clients
  <2>3. ASSUME NEW b \in Clients, sockets'[b].timer = "CONNECT", sockets[b].timer # "CONNECT"
        PROVE  b = a /\ i.kind \in Failures
    <3>1. sockets'[b] # sockets[b]
      BY <2>3
    <3>2. b = a /\ sockets'[b] = ClientAfter(sockets[b], i.kind)
      BY <2>1, <2>2, <3>1
    <3> HIDE DEF i
    <3> QED
      BY <2>3, <3>2, ToldClient
  <2> HIDE DEF h
  <2> QED
    BY <1>1, <2>3 DEF Heeding
<1>4. CASE \E reason \in {"WRONG_SOCKET", "APP_DOWN"} : Fail(reason, h)
  BY <1>4, FailsQuietly DEF Expected
<1>5. CASE i.kind = "PEER_CLOSED" /\ Close(h, i.gate, i.connId, Tail(toApp[h]))
  <2> HIDE DEF h
  <2> QED
    BY <1>1, <1>3, <1>5, CloseGoesOn
<1>6. CASE Consume(h)
  <2> HIDE DEF h, i
  <2> QED
    BY <1>1, <1>3, <1>6, ConsumeGoesOn
<1> QED
  BY <1>2, <1>4, <1>5, <1>6

----------------------------------------------------------------------------
(* Calls and their answers. *)

\* One segment is sent in a call.
LEMMA OneSent ==
  ASSUME NEW a, NEW port, NEW gone, NEW t, wire' = (wire \ gone) \cup {t},
         \A s \in gone : s \in wire /\ Carries(a, port, s) /\ s.kind # t.kind,
         NEW ups, NEW downs,
         \/ Upward(a, port, t) /\ ups = {t.kind} /\ downs = {}
         \/ Downward(a, port, t) /\ ups = {} /\ downs = {t.kind}
  PROVE  Sends(a, port, gone, ups, downs)
<1>1. \A s : s \in wire' <=> (s \in wire /\ s \notin gone) \/ s = t
  OBVIOUS
<1>2. t \in wire' /\ t \notin gone
  BY <1>1
<1>3. \A s \in wire' : s \notin wire => s = t
  BY <1>1
<1>4. \A s \in gone : s \in wire /\ s \notin wire' /\ Carries(a, port, s)
  BY <1>1, <1>2
<1>5. \A s \in wire : s \in gone \/ s \in wire'
  BY <1>1
<1>6. /\ \A kind \in ups : Upward(a, port, t) /\ t.kind = kind
      /\ \A kind \in downs : Downward(a, port, t) /\ t.kind = kind
      /\ \/ Upward(a, port, t) /\ t.kind \in ups
         \/ Downward(a, port, t) /\ t.kind \in downs
  OBVIOUS
<1> QED
  BY <1>2, <1>3, <1>4, <1>5, <1>6 DEF Sends

LEMMA PerformRemoves ==
  ASSUME HostsInv, NEW h \in Host, NEW p \in DOMAIN tables[h].conns,
         NEW event, NEW sends, sends = {}, NEW tells, NEW armed, NEW st, NEW queue, NEW gone,
         Perform(h, p, event, sends, tells, armed, st, queue, gone, TRUE),
         NextState(tables[h].conns[p].fsm, event) = "CLOSED"
  PROVE  p \notin DOMAIN tables'[h].conns
<1> DEFINE T == tables[h]
           conn == T.conns[p]
           new == NextState(conn.fsm, event)
           changed == [conn EXCEPT !.fsm = new, !.timers = EntryTimers(conn.fsm, new, armed),
                                   !.st = st]
           put == Put(T.conns, p, changed)
           moved == WithConns(T, put)
           U == RemoveConnection(moved, p)
<1>1. tables' = [tables EXCEPT ![h] = U]
  BY DEF Perform, WithConns
<1>2. IsTables(T) /\ DOMAIN tables = Host
  BY DEF HostsInv, HostOK, TablesOK
<1> HIDE DEF put
<1>3. moved.conns = put /\ "conns" \in DOMAIN moved
  BY <1>2 DEF IsTables, WithConns
<1> HIDE DEF moved
<1>4. U.conns = Drop(moved.conns, p)
  BY <1>3 DEF RemoveConnection
<1> HIDE DEF U
<1>5. DOMAIN U.conns = DOMAIN put \ {p}
  BY <1>3, <1>4, DropGives
<1> QED
  BY <1>1, <1>2, <1>5

\* In SYN_SENT the answer arrives, or where nobody listens a refusal.
LEMMA SynSentAt ==
  ASSUME Undisturbed, NEW s \in wire, NEW h \in Host, h = s.dst, NEW p \in DOMAIN tables[h].conns,
         p = FindConnForSegment(tables[h], s.src, h, s.srcPort, s.destPort),
         tables[h].conns[p].fsm = "SYN_SENT"
  PROVE  \E a \in Clients, port \in Ephemeral :
            /\ Downward(a, port, s) /\ AtClient(a, port, h, tables[h].conns[p])
            /\ Served(a) => s.kind = "SYNACK" /\ Answered(Call(a, port)) /\ OneEach(a, port)
            /\ ~Served(a) => s.kind = "RSTACK" /\ Refused(Call(a, port))
<1> DEFINE conn == tables[h].conns[p]
<1>1. PICK a \in Clients, port \in Ephemeral : Carries(a, port, s)
  BY SegmentOf
<1> DEFINE k == Call(a, port)
<1>2. Downward(a, port, s) /\ AtClient(a, port, h, conn)
  <2>1. ConnData(conn, h, world.par)
    BY ConnIs
  <2> HIDE DEF conn
  <2>2. conn.pair.localPort \in Ephemeral
    BY <2>1 DEF ConnData, conn
  <2>3. ~AtServer(a, port, h, conn) /\ ~AtListener(a, port, h, conn)
    BY <2>2 DEF AtServer, AtListener
  <2> QED
    BY <1>1, <2>3, FoundEnd DEF conn
<1>3. k.client = {"SYN_SENT"} /\ s.kind \in k.down
  BY <1>2, SegmentKinds DEF AtClient
<1>4. /\ Served(a) => Fits(k) /\ OneEach(a, port)
      /\ ~Served(a) => Refused(k)
  BY ServedFits
<1> HIDE DEF k
<1>5. Served(a) => s.kind = "SYNACK" /\ Answered(k)
  BY <1>3, <1>4, ClientMayHear
<1>6. ~Served(a) => s.kind = "RSTACK"
  BY <1>3, <1>4 DEF Refused
<1> QED
  BY <1>2, <1>4, <1>5, <1>6 DEF k

\* The connection that is reached, under its full key.
ReachedAs(C, V, p, pair) ==
    /\ "conns" \in DOMAIN V /\ DOMAIN V.conns = DOMAIN C
    /\ DOMAIN V.conns[p] = Fields /\ V.conns[p].pair = pair
    /\ \A field \in Fields \ {"pair"} : V.conns[p][field] = C[p][field]
    /\ \A q \in DOMAIN C \ {p} : V.conns[q] = C[q]

LEMMA Reached ==
  ASSUME Undisturbed, NEW h \in Host, NEW p \in DOMAIN tables[h].conns, NEW pair
  PROVE  ReachedAs(tables[h].conns, UpdateSockPair(tables[h], p, pair), p, pair)
<1> DEFINE T == tables[h]
           conn == T.conns[p]
           V == UpdateSockPair(T, p, pair)
           moved == V.conns[p]
<1>1. "conns" \in DOMAIN T /\ DOMAIN conn = Fields /\ p \in DOMAIN T.conns
  BY CallsRun, ConnsOf
<1> HIDE DEF T
<1>2. /\ "conns" \in DOMAIN V /\ DOMAIN V.conns = DOMAIN T.conns
      /\ moved = WithPair(conn, pair)
      /\ \A q \in DOMAIN T.conns \ {p} : V.conns[q] = T.conns[q]
  BY <1>1, MovedConns
<1> HIDE DEF V, conn, moved
<1>3. moved = [conn EXCEPT !.pair = pair]
  BY <1>2 DEF WithPair
<1>4. /\ DOMAIN moved = Fields /\ moved.pair = pair
      /\ \A field \in Fields \ {"pair"} : moved[field] = conn[field]
  BY <1>1, <1>3 DEF Fields
<1> QED
  BY <1>2, <1>4 DEF V, T, conn, moved, ReachedAs

\* A refused call ends.
LEMMA ResetGoesOn ==
  ASSUME Undisturbed, NEW s \in wire, NEW h \in Host, h = s.dst, NEW p \in DOMAIN tables[h].conns,
         tables[h].conns[p].fsm = "SYN_SENT", UNCHANGED sockets,
         NEW a \in Clients, NEW port \in Ephemeral,
         Downward(a, port, s), AtClient(a, port, h, tables[h].conns[p]),
         ~Served(a), Refused(Call(a, port)),
         NEW sends, sends = {}, NEW tells, tells = <<"CONNECTION_RESET">>,
         NEW gone, gone = {s},
         Perform(h, p, "RCV_RST", sends, tells, tables[h].conns[p].timers, tables[h].conns[p].st,
                 toApp[h], gone, TRUE)
  PROVE  CallsInv'
<1> DEFINE C == tables[h].conns
           conn == C[p]
           st == conn.st
           armed == conn.timers
           queue == toApp[h]
           fsm == conn.fsm
           new == NextState(fsm, "RCV_RST")
           left == EntryTimers(fsm, new, armed)
           told == tells \o EntryTells(fsm, new, "RCV_RST")
           after == IF sends = {} THEN st ELSE UpdateRcvWnd(st)
           D == tables'[h].conns
           k == Call(a, port)
           m == Call(a, port)'
<1>1. fsm = "SYN_SENT" /\ new = "CLOSED" /\ after = st
  BY DEF NextState, Moves
<1>2. told \in Seq(Kinds) /\ NothingOf(told, {"PEER_CLOSED"})
  <2>1. EntryTells(fsm, new, "RCV_RST") = <<"CLOSED">>
    BY <1>1 DEF EntryTells
  <2> DEFINE entry == EntryTells(fsm, new, "RCV_RST")
  <2>3. told = tells \o entry
    OBVIOUS
  <2>6. entry = <<"CLOSED">>
    BY <2>1
  <2> HIDE DEF entry, told
  <2>7. "CONNECTION_RESET" \in Kinds /\ "CLOSED" \in Kinds
    BY DEF Kinds
  <2>2. /\ tells \in Seq(Kinds) /\ entry \in Seq(Kinds)
        /\ Len(tells) = 1 /\ Len(entry) = 1
        /\ tells[1] = "CONNECTION_RESET" /\ entry[1] = "CLOSED"
    BY <2>6, <2>7
  <2>4. /\ told \in Seq(Kinds) /\ Len(told) = 2
        /\ told[1] = "CONNECTION_RESET" /\ told[2] = "CLOSED"
    <3>1. told \in Seq(Kinds) /\ Len(told) = Len(tells) + Len(entry)
      BY <2>2, <2>3, ConcatProperties
    <3>2. told[1] = tells[1]
      BY <2>2, <2>3, ConcatProperties, SMTT(20)
    <3>3. told[2] = entry[2 - 1]
      BY <2>2, <2>3, ConcatProperties, SMTT(20)
    <3>4. 1 + 1 = 2 /\ 2 - 1 = 1
      OBVIOUS
    <3> QED
      BY <2>2, <3>1, <3>2, <3>3, <3>4
  <2>5. ASSUME NEW i \in 1 .. Len(told)
        PROVE  told[i] # "PEER_CLOSED"
    <3>1. i = 1 \/ i = 2
      BY <2>4
    <3> QED
      BY <2>4, <3>1
  <2> QED
    BY <2>4, <2>5 DEF NothingOf
<1>3. \/ \E reason \in {"WINDOW", "NO_PEER"} : Fail(reason, h)
      \/ Performs(h, p, "RCV_RST", sends, told, after, queue, gone) /\ Leaves(C, D, p, left, TRUE)
  BY CallsRun, PerformDoes
<1>4. CASE \E reason \in {"WINDOW", "NO_PEER"} : Fail(reason, h)
  BY <1>4, FailsQuietly DEF Expected
<1>5. CASE Performs(h, p, "RCV_RST", sends, told, after, queue, gone) /\ Leaves(C, D, p, left, TRUE)
  <2>2. p \notin DOMAIN D
    BY <1>1, CallsRun, PerformRemoves
  <2>3. Orderly(conn, "RCV_RST", sends, told, st, armed, queue)
    <3>1. conn.pair.localPort \in Ephemeral /\ ~AwaitsClose(conn)
      BY <1>1 DEF AtClient, AwaitsClose
    <3> HIDE DEF conn, told
    <3> QED
      BY <1>1, <1>2, <3>1 DEF Orderly, Unclosed
  <2>4. HeardOf(h, queue)
    BY NobodyHears
  <2>5. AtClient(a, port, h, conn)
    OBVIOUS
  <2> HIDE DEF queue, st, conn, C, armed, left, told, after
  <2>6. Performs(h, p, "RCV_RST", sends, told, st, queue, gone) /\ Leaves(C, D, p, left, TRUE)
    BY <1>1, <1>5
  <2>7. /\ world' = world /\ tables' = [tables EXCEPT ![h] = tables'[h]]
        /\ Moved(C, D, p, new, st)
    BY <2>6 DEF Performs, C, conn
  <2>8. sends \cap Once = {} /\ \A t \in gone : t \in wire /\ Downward(a, port, t)
    OBVIOUS
  <2>9. /\ OnlyIn(a, port, h, C, D) /\ WireOnlyIn(a, port)
        /\ Advances(k.client, k.server, k.up, k.down, m.client, m.server, m.up, m.down,
                    new, sends, KindsDown(a, port, gone))
    <3> HIDE DEF k, m, new
    <3> QED
      BY <2>5, <2>6, <2>8, PerformInCall DEF C, conn, k, m, new, fsm
  <2>10. m.client = {}
    <3>1. OneTurns(C, D, p)
      BY <2>7 DEF OneTurns, Moved, C
    <3>2. h = a[1] /\ C[p].pair \in ClientKeys(a, port)
      BY <2>5 DEF AtClient, conn
    <3>3. Call(a, port)'.client = StateIn(D, p)
      BY <2>2, <2>7, <3>1, <3>2, CallsRun, EndTurns DEF C
    <3> QED
      BY <2>2, <3>3 DEF StateIn
  <2>11. /\ \A b \in Clients : Finished(b) => Finished(b)'
         /\ sends = {} /\ OnlyIn(a, port, h, C, D) /\ WireOnlyIn(a, port) /\ CallFits(a, port)'
            => CallsInv'
    <3> HIDE DEF new
    <3>1. Leaves(tables[h].conns, tables'[h].conns, p,
                 EntryTimers(tables[h].conns[p].fsm, NextState(tables[h].conns[p].fsm, "RCV_RST"), armed),
                 TRUE)
      BY <2>6 DEF C, conn, left, new
    <3> QED
      BY <1>2, <2>3, <2>4, <2>6, <3>1, OrderlyGoesOn DEF C, conn
  <2>12. CallFits(a, port)'
    <3>1. Refused(k)
      OBVIOUS
    <3> HIDE DEF k, m
    <3>2. m.up \subseteq k.up /\ m.down \subseteq k.down /\ m.server = k.server
      BY <2>9 DEF Advances
    <3>3. Refused(m)
      BY <2>10, <3>1, <3>2 DEF Refused
    <3> QED
      BY <2>7, <2>10, <3>3, FitsLater DEF m
  <2> QED
    BY <2>9, <2>11, <2>12
<1> QED
  BY <1>3, <1>4, <1>5

\* What an answer opens: the connection with its full key.
Opens(C, D, p, pair, st) ==
    /\ DOMAIN D = DOMAIN C
    /\ \A q \in DOMAIN C \ {p} : D[q] = C[q]
    /\ D[p].gate = C[p].gate /\ D[p].connId = C[p].connId
    /\ D[p].pair = pair /\ D[p].fsm = "ESTABLISHED" /\ D[p].timers = C[p].timers /\ D[p].st = st

LEMMA OpenedConns ==
  ASSUME NEW V, "conns" \in DOMAIN V, NEW p, NEW st, NEW U,
         U = [V EXCEPT !.conns[p].fsm = NextState(@, "RCV_SYN_ACK"), !.conns[p].st = st]
  PROVE  U.conns = [V.conns EXCEPT ![p] =
                       [V.conns[p] EXCEPT !.fsm = NextState(V.conns[p].fsm, "RCV_SYN_ACK"), !.st = st]]
OBVIOUS

Answering(T, p, pair, st) ==
    LET V == UpdateSockPair(T, p, pair)
    IN  [V EXCEPT !.conns[p].fsm = NextState(@, "RCV_SYN_ACK"), !.conns[p].st = st]

LEMMA AnswerOpens ==
  ASSUME Undisturbed, NEW h \in Host, NEW p \in DOMAIN tables[h].conns, NEW pair, NEW st,
         tables[h].conns[p].fsm = "SYN_SENT"
  PROVE  Opens(tables[h].conns, Answering(tables[h], p, pair, st).conns, p, pair, st)
<1> DEFINE C == tables[h].conns
           V == UpdateSockPair(tables[h], p, pair)
           U == [V EXCEPT !.conns[p].fsm = NextState(@, "RCV_SYN_ACK"), !.conns[p].st = st]
           moved == V.conns[p]
           fsm == NextState(moved.fsm, "RCV_SYN_ACK")
           changed == [moved EXCEPT !.fsm = fsm, !.st = st]
           conns == [V.conns EXCEPT ![p] = changed]
<1>6. ReachedAs(C, V, p, pair)
  BY Reached
<1> HIDE DEF V
<1>1. /\ "conns" \in DOMAIN V /\ DOMAIN V.conns = DOMAIN C
      /\ DOMAIN moved = Fields /\ moved.pair = pair /\ moved.fsm = C[p].fsm
      /\ moved.gate = C[p].gate /\ moved.connId = C[p].connId
      /\ moved.timers = C[p].timers
      /\ \A q \in DOMAIN C \ {p} : V.conns[q] = C[q]
  <2> HIDE DEF C
  <2> QED
    BY <1>6 DEF ReachedAs, Fields
<1>2. U.conns = conns
  <2>1. U = [V EXCEPT !.conns[p].fsm = NextState(@, "RCV_SYN_ACK"), !.conns[p].st = st]
    OBVIOUS
  <2> HIDE DEF U
  <2> QED
    BY <1>1, <2>1, OpenedConns
<1>7. Answering(tables[h], p, pair, st) = U
  BY DEF Answering, V
<1> HIDE DEF U
<1>3. fsm = "ESTABLISHED"
  BY <1>1 DEF NextState, Moves
<1> HIDE DEF moved, fsm
<1>4. /\ changed.gate = C[p].gate /\ changed.connId = C[p].connId
      /\ changed.pair = pair /\ changed.fsm = "ESTABLISHED" /\ changed.timers = C[p].timers
      /\ changed.st = st
  BY <1>1, <1>3 DEF Fields
<1> HIDE DEF changed, C
<1>5. /\ DOMAIN conns = DOMAIN C /\ conns[p] = changed
      /\ \A q \in DOMAIN C \ {p} : conns[q] = C[q]
  BY <1>1 DEF C
<1> HIDE DEF conns
<1> QED
  BY <1>2, <1>4, <1>5, <1>7 DEF Opens, C

\* An opened connection has the shape, and its application is told.
LEMMA OpensShapes ==
  ASSUME Undisturbed, NEW h \in Host, NEW p \in DOMAIN tables[h].conns, NEW D, NEW pair, NEW st,
         Opens(tables[h].conns, D, p, pair, st), st.snd_wnd > 0, pair.localPort \in Ephemeral,
         NEW a \in Clients, NEW port \in Ephemeral, h = a[1], pair \in ClientKeys(a, port),
         tables[h].conns[p].fsm = "SYN_SENT"
  PROVE  \A q \in DOMAIN D : ConnShape(h, D[q])
<1> DEFINE C == tables[h].conns
<1>1. \A q \in DOMAIN C : ConnShape(h, C[q])
  BY ConnIs
<1>2. "REXMIT" \notin C[p].timers
  <2>1. ConnShape(h, C[p])
    BY <1>1
  <2> QED
    BY <2>1 DEF ConnShape, Unclosed
<1> DEFINE new == D[p]
<1>3. OfCall(h, pair)
  BY DEF OfCall, InCall
<1>4. new.pair = pair /\ new.timers = C[p].timers /\ new.st = st
  BY DEF Opens
<1> HIDE DEF new, C
<1>5. ConnShape(h, new)
  BY <1>2, <1>3, <1>4 DEF ConnShape
<1> QED
  BY <1>1, <1>5 DEF Opens, C, new

LEMMA OpensPends ==
  ASSUME Undisturbed, NEW h \in Host, NEW p \in DOMAIN tables[h].conns, NEW D, NEW pair, NEW st,
         Opens(tables[h].conns, D, p, pair, st),
         tables[h].conns[p].fsm = "SYN_SENT", tables[h].conns[p].pair.localPort \in Ephemeral,
         NEW R, NEW told, told = <<"ESTABLISHED">>, R = Heard(toApp[h], tables[h].conns[p], told)
  PROVE  Pending(D, R)
<1> DEFINE C == tables[h].conns
           Q == toApp[h]
           conn == C[p]
<1>1. /\ Pending(C, Q) /\ Q \in Seq(Indications(nextId)) /\ Len(Q) \in Nat
      /\ \A q \in DOMAIN C : C[q].connId = C[p].connId => q = p
  <2>1. Q \in Seq(Indications(nextId)) /\ Pending(C, Q)
    BY CallsRun, AppsAre DEF Pends
  <2>2. \A q, r \in DOMAIN C : C[q].connId = C[r].connId => q = r
    BY CallsRun, AppsAre
  <2> QED
    BY <2>1, <2>2
<1>2. ~AwaitsClose(conn)
  BY DEF AwaitsClose
<1>3. Len(told) = 1 /\ told[1] = "ESTABLISHED"
  OBVIOUS
<1> HIDE DEF Q, conn
<1>4. HearsFrom(R, Q, conn, told)
  <2>1. told \in Seq(Kinds)
    BY DEF Kinds
  <2>2. conn.gate \in Nat /\ conn.connId \in 1 .. nextId - 1
    BY ConnIs DEF IsConnection, conn
  <2>3. nextId \in Nat /\ R = Heard(Q, conn, told)
    BY CallsRun, AppsAre DEF Q, conn
  <2> QED
    BY <1>1, <2>1, <2>2, <2>3, HeardGives
<1>5. StillAwaits(C, D, p, Q)
  <2>1. ASSUME NEW i \in 1 .. Len(Q), Closes(Q, i, conn.connId)
        PROVE  FALSE
    <3>1. \E q \in DOMAIN C : C[q].connId = Q[i].connId /\ AwaitsClose(C[q])
      BY <1>1, <2>1 DEF Pending, Closes
    <3> QED
      BY <1>1, <1>2, <2>1, <3>1 DEF Closes, conn
  <2> QED
    BY <2>1 DEF StillAwaits, conn
<1>6. SaysClose(C, D, p, told)
  BY <1>3 DEF SaysClose
<1>7. /\ \A q \in DOMAIN C \ {p} : q \in DOMAIN D /\ D[q] = C[q]
      /\ D[p].gate = C[p].gate /\ D[p].connId = C[p].connId
  BY DEF Opens
<1>8. Len(told) \in Nat /\ p \in DOMAIN C /\ HearsFrom(R, Q, C[p], told)
  BY <1>3, <1>4 DEF conn
<1> HIDE DEF C
<1> QED
  BY <1>1, <1>5, <1>6, <1>7, <1>8, PendingMoves

\* A call is answered.
LEMMA SynAckGoesOn ==
  ASSUME Undisturbed, NEW s \in wire, NEW h \in Host, h = s.dst, NEW p \in DOMAIN tables[h].conns,
         tables[h].conns[p].fsm = "SYN_SENT", UNCHANGED sockets,
         NEW a \in Clients, NEW port \in Ephemeral,
         Downward(a, port, s), AtClient(a, port, h, tables[h].conns[p]),
         s.kind = "SYNACK", Served(a), Answered(Call(a, port)), OneEach(a, port),
         NEW pair, pair = SockPair(h, s.src, s.destPort, s.srcPort),
         NEW st, st.snd_wnd = s.window,
         NEW U, Opens(tables[h].conns, U.conns, p, pair, st),
         NEW R, NEW told, told = <<"ESTABLISHED">>, R = Heard(toApp[h], tables[h].conns[p], told),
         tables' = [tables EXCEPT ![h] = U], toApp' = [toApp EXCEPT ![h] = R],
         wire' = (wire \ {s}) \cup Sent(h, pair, "FIRSTACK"),
         world' = world, up' = up, error' = error
  PROVE  CallsInv'
<1> DEFINE C == tables[h].conns
           D == U.conns
           k == Call(a, port)
           m == Call(a, port)'
           t == Segment("FIRSTACK", h, pair.remoteAddr, pair.localPort, pair.remotePort)
           gone == {s}
           ups == {"FIRSTACK"}
           downs == {}
           goneDown == KindsDown(a, port, gone)
<1>1. /\ h = a[1] /\ C[p].pair \in ClientKeys(a, port) /\ C[p].pair.localPort \in Ephemeral
      /\ k.client = {"SYN_SENT"}
  BY DEF AtClient
<1>2. /\ s.src = Peer(a) /\ s.srcPort = PeerPort(a) /\ s.destPort = port
      /\ pair = SockPair(a[1], Peer(a), port, PeerPort(a))
  BY <1>1 DEF Downward
<1>3. /\ pair \in ClientKeys(a, port) /\ pair.localPort = port /\ pair.remotePort = PeerPort(a)
      /\ pair.remoteAddr = Peer(a)
  <2>1. pair \in ClientKeys(a, port)
    BY <1>2 DEF ClientKeys
  <2> QED
    BY <2>1, KeysOf
<1>4. HostsInv /\ PortsServeOnce /\ Shapes /\ \A b \in Clients : b[1] \in Host
  BY CallsRun, CallersAre
<1>5. \A q \in DOMAIN D : ConnShape(h, D[q])
  <2>1. st.snd_wnd > 0
    BY <1>4 DEF Shapes, SegmentShape
  <2> QED
    BY <1>1, <1>3, <2>1, OpensShapes
<1>6. Pending(D, R)
  BY <1>1, OpensPends
<1>7. Sends(a, port, gone, ups, downs) /\ \A r \in wire' : r \in wire \/ SegmentShape(r)
  <2>1. /\ t.kind = "FIRSTACK" /\ t.src = h /\ t.dst = pair.remoteAddr
        /\ t.srcPort = pair.localPort /\ t.destPort = pair.remotePort
    BY DEF Segment
  <2>2. Sent(h, pair, "FIRSTACK") = {t}
    BY DEF Sent
  <2> HIDE DEF t
  <2>3. Upward(a, port, t)
    BY <1>1, <1>3, <2>1 DEF Upward
  <2>4. wire' = (wire \ gone) \cup {t}
    BY <2>2
  <2>5. \A r \in gone : r \in wire /\ Carries(a, port, r) /\ r.kind # t.kind
    BY <2>1 DEF Carries
  <2>6. ups = {t.kind} /\ downs = {}
    BY <2>1
  <2>7. SegmentShape(t)
    BY <2>1, <2>3 DEF SegmentShape, Carries
  <2> HIDE DEF gone, ups, downs
  <2>8. Sends(a, port, gone, ups, downs)
    BY <2>3, <2>4, <2>5, <2>6, OneSent
  <2> QED
    BY <2>4, <2>7, <2>8
<1>8. /\ WireOnlyIn(a, port)
      /\ m.up \subseteq k.up \cup ups /\ m.down \subseteq k.down \cup downs
      /\ Spent(m.down, goneDown, downs)
      /\ ups \cap k.up \cap Once = {} /\ downs \cap k.down \cap Once = {} => OneEach(a, port)'
  <2> HIDE DEF gone, ups, downs
  <2> QED
    BY <1>4, <1>7, WireFlows DEF Flows
<1>9. m.client = {"ESTABLISHED"} /\ m.server = k.server
  <2>1. OneTurns(C, D, p) /\ p \in DOMAIN D /\ D[p].pair = pair /\ D[p].fsm = "ESTABLISHED"
    BY DEF OneTurns, Opens
  <2>2. D[p].pair \in ClientKeys(a, port)
    BY <1>3, <2>1
  <2>3. m.client = StateIn(D, p) /\ m.server = k.server
    <3>1. OneTurns(tables[h].conns, U.conns, p) /\ p \in DOMAIN U.conns
      BY <2>1
    <3>2. HostsInv /\ PortsServeOnce
      BY <1>4
    <3>3. /\ h = a[1] /\ tables[h].conns[p].pair \in ClientKeys(a, port)
          /\ U.conns[p].pair \in ClientKeys(a, port)
      BY <1>1, <2>2
    <3>4. Turned(h, U, p)
      BY <3>1 DEF Turned
    <3>5. TurnsTo(a, port, h, tables[h].conns, U.conns, p)
      BY <3>2, <3>4, EndTurned
    <3> QED
      BY <3>3, <3>5 DEF TurnsTo
  <2> QED
    BY <2>1, <2>3 DEF StateIn
<1>10. Fits(m)
  <2>1. "SYNACK" \in goneDown /\ k.up = {}
    <3>1. s \in gone /\ Downward(a, port, s) /\ s.kind = "SYNACK"
      OBVIOUS
    <3>2. "SYNACK" \in goneDown
      BY <3>1 DEF KindsDown
    <3> QED
      BY <3>2 DEF Answered
  <2>2. Spent(m.down, {"SYNACK"}, {})
    BY <1>8, <2>1 DEF Spent
  <2>3. Answered(k)
    OBVIOUS
  <2> HIDE DEF k, m
  <2> QED
    BY <1>8, <1>9, <2>2, <2>3, AnsweredFits
<1>11. OneEach(a, port)'
  BY <1>8 DEF Answered
<1>12. \A b \in Clients : Finished(b) => Finished(b)'
  <2>1. ~AllClosed(tables[h].conns)
    BY <1>1 DEF AllClosed
  <2> QED
    BY <1>4, <2>1, FinishedStays
<1>13. CallFits(a, port)'
  <2>1. m.client # {} /\ "SYN_SENT" \notin m.client /\ m = Call(a, port)'
    BY <1>9
  <2> HIDE DEF m
  <2> QED
    BY <1>10, <1>11, <2>1, FitsLater
<1>14. OnlyIn(a, port, h, C, D)
  <2>1. \A q \in DOMAIN C \ {p} : ~Alters(C, D, q)
    BY DEF Opens, Alters
  <2>2. Within(a, port, h, C[p].pair) /\ Within(a, port, h, D[p].pair) /\ DOMAIN D = DOMAIN C
    BY <1>1, <1>3 DEF Within, InCall, Opens
  <2> HIDE DEF C, D
  <2> QED
    BY <2>1, <2>2 DEF OnlyIn
<1> HIDE DEF t, k, m, gone, ups, downs
<1> QED
  BY <1>5, <1>6, <1>7, <1>8, <1>12, <1>13, <1>14, CallsGoOn

\* The window of a SYN+ACK is what the client may send.
LEMMA SndWndRead ==
  ASSUME NEW st, "snd_wnd" \in DOMAIN st, NEW window, NEW opts
  PROVE  UpdateRcvWnd(ReadOptions(UpdateSndWnd(st, window), opts)).snd_wnd = window
<1> DEFINE Holds(x) == "snd_wnd" \in DOMAIN x /\ x.snd_wnd = window
           a == UpdateSndWnd(st, window)
           b == ReadMSS(a, opts.mss)
           c == ReadWS(b, opts.ws)
           d == ReadTS(c, opts.ts)
<1>1. Holds(a)
  BY DEF UpdateSndWnd
<1> HIDE DEF a
<1>2. Holds(b)
  BY <1>1 DEF ReadMSS
<1> HIDE DEF b
<1>3. Holds(c)
  BY <1>2 DEF ReadWS
<1> HIDE DEF c
<1>4. Holds(d)
  BY <1>3 DEF ReadTS
<1>5. ReadOptions(a, opts) = d
  BY DEF ReadOptions, b, c
<1> HIDE DEF d
<1>6. UpdateRcvWnd(d).snd_wnd = window
  BY <1>4 DEF UpdateRcvWnd
<1> QED
  BY <1>5, <1>6 DEF a

\* SYN_SENT
LEMMA SynSentGoesOn ==
  ASSUME Undisturbed, NEW s \in wire, NEW h \in Host, h = s.dst, NEW p \in DOMAIN tables[h].conns,
         RcvInSynSent(h, s, p)
  PROVE  CallsInv'
<1> DEFINE conn == tables[h].conns[p]
           pair == SockPair(h, s.src, s.destPort, s.srcPort)
           V == UpdateSockPair(tables[h], p, pair)
           moved == V.conns[p]
           st == UpdateRcvWnd(ReadOptions(UpdateSndWnd(moved.st, s.window), s.opts))
           U == [V EXCEPT !.conns[p].fsm = NextState(@, "RCV_SYN_ACK"), !.conns[p].st = st]
           R == Append(toApp[h], Indication(moved, "ESTABLISHED"))
           told == <<"ESTABLISHED">>
           none == {}
           gone == {s}
<1>1. /\ p = FindConnForSegment(tables[h], s.src, h, s.srcPort, s.destPort)
      /\ tables[h].conns[p].fsm = "SYN_SENT" /\ UNCHANGED sockets
  BY DEF RcvInSynSent, Arrives, appVars
<1>2. PICK a \in Clients, port \in Ephemeral :
         /\ Downward(a, port, s) /\ AtClient(a, port, h, tables[h].conns[p])
         /\ Served(a) => s.kind = "SYNACK" /\ Answered(Call(a, port)) /\ OneEach(a, port)
         /\ ~Served(a) => s.kind = "RSTACK" /\ Refused(Call(a, port))
  BY <1>1, SynSentAt
<1>3. /\ "conns" \in DOMAIN V /\ moved.pair = pair
      /\ moved.gate = conn.gate /\ moved.connId = conn.connId
      /\ moved.timers = conn.timers /\ moved.st = conn.st
  <2>1. ReachedAs(tables[h].conns, V, p, pair)
    BY Reached
  <2> HIDE DEF V, pair
  <2> QED
    BY <2>1 DEF ReachedAs, Fields
<1>4. /\ conn.st \in StateBlock /\ IsConnection(conn, nextId) /\ nextId \in Nat
      /\ toApp[h] \in Seq(Indications(nextId))
  <2>1. ConnData(conn, h, world.par) /\ IsConnection(conn, nextId)
    BY ConnIs
  <2>2. HeardOf(h, toApp[h]) /\ HostsInv
    BY <1>1, NobodyHears, CallsRun
  <2> HIDE DEF conn
  <2> QED
    BY <2>1, <2>2 DEF ConnData, HeardOf, HostsInv
<1>5. ASSUME Served(a), Fail("WINDOW", h)
      PROVE  CallsInv'
  BY <1>5, FailsQuietly DEF Expected
<1>6. ASSUME Served(a), ~Fail("WINDOW", h)
      PROVE  CallsInv'
  <2>1. s.kind = "SYNACK" /\ Answered(Call(a, port)) /\ OneEach(a, port)
    BY <1>2, <1>6
  <2>2. /\ tables' = [tables EXCEPT ![h] = U] /\ toApp' = [toApp EXCEPT ![h] = R]
        /\ wire' = (wire \ {s}) \cup Sent(h, moved.pair, "FIRSTACK")
        /\ world' = world /\ up' = up /\ error' = error
    BY <1>6, <2>1 DEF RcvInSynSent
  <2>3. st.snd_wnd = s.window
    <3>1. "snd_wnd" \in DOMAIN moved.st
      BY <1>3, <1>4 DEF StateBlock
    <3> HIDE DEF moved
    <3> QED
      BY <3>1, SndWndRead
  <2>4. R = Heard(toApp[h], tables[h].conns[p], told)
    <3>1. Indication(moved, "ESTABLISHED") = Indication(conn, "ESTABLISHED")
      BY <1>3 DEF Indication
    <3>2. conn.gate \in Nat /\ conn.connId \in 1 .. nextId - 1 /\ "ESTABLISHED" \in Kinds
      BY <1>4 DEF IsConnection, Kinds
    <3> HIDE DEF conn, moved
    <3>3. Append(toApp[h], Indication(conn, "ESTABLISHED")) = Heard(toApp[h], conn, told)
      BY <1>4, <3>2, OneMore
    <3> QED
      BY <3>1, <3>3 DEF conn
  <2> HIDE DEF R, told, st, moved
  <2>5. Opens(tables[h].conns, U.conns, p, pair, st)
    <3>1. U = Answering(tables[h], p, pair, st)
      BY DEF Answering
    <3> HIDE DEF U, pair
    <3> QED
      BY <1>1, <3>1, AnswerOpens
  <2>6. pair = SockPair(h, s.src, s.destPort, s.srcPort) /\ told = <<"ESTABLISHED">>
    BY DEF told
  <2>7. wire' = (wire \ {s}) \cup Sent(h, pair, "FIRSTACK")
    BY <1>3, <2>2
  <2> HIDE DEF V, U, pair
  <2> QED
    BY <1>1, <1>2, <1>6, <2>1, <2>2, <2>3, <2>4, <2>5, <2>6, <2>7, SynAckGoesOn
<1>7. ASSUME ~Served(a)
      PROVE  CallsInv'
  <2>1. s.kind = "RSTACK" /\ Refused(Call(a, port))
    BY <1>2, <1>7
  <2>2. Perform(h, p, "RCV_RST", {}, <<"CONNECTION_RESET">>, moved.timers, moved.st,
                toApp[h], {s}, TRUE)
    BY <2>1 DEF RcvInSynSent
  <2> DEFINE tells == <<"CONNECTION_RESET">>
  <2>3. Perform(h, p, "RCV_RST", none, tells, tables[h].conns[p].timers, tables[h].conns[p].st,
                toApp[h], gone, TRUE)
    BY <1>3, <2>2
  <2>4. none = {} /\ tells = <<"CONNECTION_RESET">> /\ gone = {s}
    OBVIOUS
  <2> HIDE DEF V, none, tells, gone
  <2> QED
    BY <1>1, <1>2, <1>7, <2>1, <2>3, <2>4, ResetGoesOn
<1> QED
  BY <1>5, <1>6, <1>7

\* A listener p takes a call, at pair, and q goes on listening at port.
TakesCall(C, D, p, q, pair, port) ==
    /\ q \notin DOMAIN C /\ DOMAIN D = DOMAIN C \cup {q}
    /\ \A r \in DOMAIN C \ {p} : D[r] = C[r]
    /\ D[p].pair = pair /\ D[p].fsm = "SYN_RCVD" /\ D[p].timers = C[p].timers \cup {"CONN_ESTAB"}
    /\ D[q].pair.remoteAddr = NoHost /\ D[q].pair.localPort = port
    /\ D[q].fsm = "LISTEN" /\ D[q].timers = {}

LEMMA AcceptTakes ==
  ASSUME Undisturbed, NEW h \in Host, NEW s \in wire, NEW p \in DOMAIN tables[h].conns,
         tables[h].conns[p].fsm = "LISTEN", Accept(h, s, p), ~\E reason : Fail(reason, h),
         NEW pair, pair = SockPair(h, s.src, s.destPort, s.srcPort)
  PROVE  \E q : TakesCall(tables[h].conns, tables'[h].conns, p, q, pair, s.destPort)
<1> DEFINE T == tables[h]
           conn == T.conns[p]
           heard == UpdateRcvWnd(ReadOptions(UpdateSndWnd(Configure(conn.st, world.par[h]),
                                                          s.window), s.opts))
           syn == WriteSyn(heard, FALSE)
           clone == Clone(conn, s.destPort)
           q == FreshPointer(T)
           F == AddForkedConnection(T, p, pair, nextId, q, clone)
           fsm == NextState(F.conns[p].fsm, "RCV_SYN")
           timers == F.conns[p].timers \cup {"CONN_ESTAB"}
           U == InPlace(F, p, fsm, timers, syn)
           spunOff == SpunOff(conn, pair, nextId)
           listener == WithPair(clone, clone.pair)
<1> HIDE DEF heard, syn, F, U, listener, spunOff, clone, q, fsm, timers
<1>1. /\ TablesOK(T, nextId) /\ nextId \in Nat \ {0} /\ world \in Scenarios /\ DOMAIN tables = Host
      /\ "conns" \in DOMAIN T /\ DOMAIN conn = Fields
  <2>1. HostsInv /\ DOMAIN tables = Host
    BY CallsRun
  <2> QED
    BY <2>1, ConnsOf DEF HostsInv, HostOK
<1>2. nextId <= world.maxId
  BY DEF Accept
<1>3. tables' = [tables EXCEPT ![h] = U]
  BY DEF Accept, InPlace, heard, syn, F, U, clone, q, fsm, timers
<1>4. q \in Pointer \ DOMAIN T.conns
  BY <1>1, <1>2, RoomForConnection DEF q
<1>5. /\ clone.pair = Listening(conn.pair.localAddr, s.destPort)
      /\ clone.fsm = "LISTEN" /\ clone.timers = {} /\ DOMAIN clone = Fields
  BY DEF Clone, Connection, Fields, clone
<1>6. /\ listener.pair.remoteAddr = NoHost /\ listener.pair.localPort = s.destPort
      /\ listener.fsm = "LISTEN" /\ listener.timers = {}
  BY <1>5 DEF WithPair, Fields, listener, Listening, SockPair
<1>7. /\ "conns" \in DOMAIN F
      /\ DOMAIN F.conns = DOMAIN T.conns \cup {q}
      /\ F.conns[p] = spunOff
      /\ F.conns[q] = listener
      /\ \A r \in DOMAIN T.conns \ {p} : F.conns[r] = T.conns[r]
  <2>1. /\ "conns" \in DOMAIN T /\ p \in DOMAIN T.conns /\ q \notin DOMAIN T.conns
        /\ F = AddForkedConnection(T, p, pair, nextId, q, clone)
        /\ spunOff = SpunOff(T.conns[p], pair, nextId) /\ listener = WithPair(clone, clone.pair)
    BY <1>1, <1>4 DEF F, spunOff, listener
  <2> HIDE DEF T, conn
  <2>2. Forks(T, F, p, pair, nextId, q, clone)
    BY <2>1, ForkedConns
  <2> QED
    BY <2>1, <2>2 DEF Forks
<1>8. /\ DOMAIN spunOff = Fields /\ spunOff.fsm = "LISTEN" /\ spunOff.pair = pair
      /\ spunOff.timers = conn.timers
  BY <1>1 DEF SpunOff, Fields, spunOff
<1>9. /\ DOMAIN U.conns = DOMAIN F.conns
      /\ U.conns[p].pair = pair /\ U.conns[p].fsm = "SYN_RCVD"
      /\ U.conns[p].timers = conn.timers \cup {"CONN_ESTAB"}
      /\ \A r \in DOMAIN F.conns \ {p} : U.conns[r] = F.conns[r]
  <2> DEFINE changed == [spunOff EXCEPT !.fsm = fsm, !.timers = timers, !.st = syn]
             conns == [F.conns EXCEPT ![p] = changed]
  <2>1. U.conns = conns
    BY <1>7 DEF InPlace, U
  <2>2. fsm = "SYN_RCVD" /\ timers = conn.timers \cup {"CONN_ESTAB"}
    BY <1>7, <1>8 DEF NextState, Moves, fsm, timers
  <2>3. changed.pair = pair /\ changed.fsm = fsm /\ changed.timers = timers
    BY <1>8 DEF Fields
  <2> HIDE DEF changed
  <2>4. DOMAIN conns = DOMAIN F.conns /\ conns[p] = changed
        /\ \A r \in DOMAIN F.conns \ {p} : conns[r] = F.conns[r]
    BY <1>7
  <2> QED
    BY <2>1, <2>2, <2>3, <2>4
<1>10. /\ q \notin DOMAIN T.conns /\ p \in DOMAIN T.conns /\ p # q
       /\ DOMAIN U.conns = DOMAIN T.conns \cup {q} /\ U.conns[q] = listener
       /\ \A r \in DOMAIN T.conns \ {p} : U.conns[r] = T.conns[r]
  BY <1>4, <1>7, <1>9
<1>11. tables'[h] = U
  BY <1>1, <1>3
<1>12. TakesCall(T.conns, U.conns, p, q, pair, s.destPort)
  <2> HIDE DEF T
  <2> QED
    BY <1>6, <1>9, <1>10 DEF TakesCall, conn
<1> QED
  BY <1>11, <1>12

\* The answer of a listener that nobody has called announces a window.
LEMMA FreshAnswers ==
  ASSUME NEW par, Sound(par), NEW st \in StateBlock, FreshState(st), NEW window \in Window,
         NEW opts, opts.mss \in Nat \ {0}, opts.ws \in Nat \cup {-1}, opts.ts \in BOOLEAN
  PROVE  SynWindow(UpdateRcvWnd(ReadOptions(UpdateSndWnd(Configure(st, par), window), opts))) > 0
<1> DEFINE c == Configure(st, par)
           w == UpdateSndWnd(c, window)
           r == ReadOptions(w, opts)
           heard == UpdateRcvWnd(r)
<1>1. /\ par \in Parameters /\ par.mss \in Nat \ {0} /\ par.advertisedWindow \in Nat \ {0}
      /\ RQ_MAX_WIN \in Nat \ {0}
  BY DEF Sound, Parameters, RQ_MAX_WIN
<1>2. /\ c \in StateBlock /\ c.snd_mss = par.mss /\ c.maxRcvBuffer = par.advertisedWindow
      /\ ~c.ws_enabled /\ ~c.snd_ws
  BY <1>1, Configured DEF FreshState
<1> HIDE DEF c
<1>3. /\ w \in StateBlock /\ w.snd_mss = par.mss /\ w.maxRcvBuffer = par.advertisedWindow
      /\ ~w.ws_enabled /\ ~w.snd_ws
  <2>1. /\ w \in StateBlock /\ \A f \in DOMAIN c \ {"snd_wnd"} : w[f] = c[f]
    BY <1>2, SndWndUpdated
  <2> HIDE DEF w
  <2> QED
    BY <1>2, <2>1 DEF StateBlock
<1> HIDE DEF w
<1>4. r \in StateBlock /\ r.maxRcvBuffer = par.advertisedWindow /\ ~r.ws_enabled
  <2>1. w.snd_mss > 0
    BY <1>1, <1>3
  <2>2. HasRead(r, w, opts)
    BY <1>3, <2>1, OptionsRead
  <2> HIDE DEF r
  <2>3. r.ws_enabled = w.ws_enabled \/ r.ws_enabled = (w.ws_support /\ w.snd_ws)
    BY <2>2 DEF HasRead
  <2>4. r \in StateBlock /\ r.maxRcvBuffer = w.maxRcvBuffer
    BY <2>2 DEF HasRead
  <2> QED
    BY <1>3, <2>3, <2>4
<1> HIDE DEF r
<1>5. /\ heard \in StateBlock
      /\ heard.rcv_wnd = IF par.advertisedWindow > RQ_MAX_WIN THEN RQ_MAX_WIN
                         ELSE par.advertisedWindow
  BY <1>4, RcvWndUpdated
<1> HIDE DEF heard
<1>6. heard.rcv_wnd > 0 /\ heard.rcv_wnd <= RQ_MAX_WIN
  BY <1>1, <1>5
<1>7. SynWindow(heard) = heard.rcv_wnd
  BY <1>5, <1>6, SynWindowOK
<1> QED
  BY <1>6, <1>7 DEF heard, r, w, c

LEMMA SynSent ==
  ASSUME NEW h, NEW pair, NEW kind, NEW st
  PROVE  \E t : /\ SentSyn(h, pair, kind, st) = {t}
                /\ t.kind = kind /\ t.window = SynWindow(st)
                /\ t.src = h /\ t.dst = pair.remoteAddr
                /\ t.srcPort = pair.localPort /\ t.destPort = pair.remotePort
<1> DEFINE s == Segment(kind, h, pair.remoteAddr, pair.localPort, pair.remotePort)
           opts == SynOptions(st, kind = "SYN")
           window == SynWindow(st)
           t == [s EXCEPT !.opts = opts, !.window = window]
<1>1. SentSyn(h, pair, kind, st) = {t}
  BY DEF SentSyn
<1> HIDE DEF opts, window
<1>2. /\ t.kind = kind /\ t.window = window
      /\ t.src = h /\ t.dst = pair.remoteAddr
      /\ t.srcPort = pair.localPort /\ t.destPort = pair.remotePort
  BY DEF Segment
<1> HIDE DEF t
<1> QED
  BY <1>1, <1>2 DEF window

\* The listener that took a call and the one that goes on listening have the shape, and
\* neither awaits a close.
LEMMA TakesShapes ==
  ASSUME Undisturbed, NEW h \in Host, NEW p \in DOMAIN tables[h].conns, NEW D, NEW q, NEW pair,
         NEW a \in Clients, NEW port \in Ephemeral, Served(a), h = Peer(a),
         pair = SockPair(h, a[1], PeerPort(a), port),
         TakesCall(tables[h].conns, D, p, q, pair, PeerPort(a)),
         AtListener(a, port, h, tables[h].conns[p])
  PROVE  /\ \A r \in DOMAIN D : ConnShape(h, D[r])
         /\ Pending(D, toApp[h])
         /\ OnlyIn(a, port, h, tables[h].conns, D)
         /\ AllClosed(tables[h].conns) => AllClosed(D)
<1> DEFINE C == tables[h].conns
           Q == toApp[h]
<1>1. /\ C[p].pair.remoteAddr = NoHost /\ C[p].pair.localPort \notin Ephemeral
      /\ C[p].fsm = "LISTEN"
  BY DEF AtListener
<1>2. ConnShape(h, C[p]) /\ \A r \in DOMAIN C : ConnShape(h, C[r])
  BY ConnIs
<1>3. Pending(C, Q)
  BY CallsRun DEF Pends
<1>4. PeerPort(a) \notin Ephemeral
  BY CallersAre, CallsRun
<1>5. /\ pair \in ServerKeys(a, port) /\ pair.localPort = PeerPort(a)
  BY KeysOf DEF ServerKeys
<1>6. Within(a, port, h, pair) /\ OfCall(h, pair)
  BY <1>5 DEF Within, OfCall, InCall
<1>7. /\ q \notin DOMAIN C /\ DOMAIN D = DOMAIN C \cup {q}
      /\ \A r \in DOMAIN C \ {p} : D[r] = C[r]
      /\ D[p].pair = pair /\ D[p].fsm = "SYN_RCVD" /\ D[p].timers = C[p].timers \cup {"CONN_ESTAB"}
      /\ D[q].pair.remoteAddr = NoHost /\ D[q].pair.localPort = PeerPort(a)
      /\ D[q].fsm = "LISTEN" /\ D[q].timers = {}
  BY DEF TakesCall
<1> HIDE DEF C, Q
<1>8. Serves(h, PeerPort(a))
  BY DEF Served
<1>9. ConnShape(h, D[p])
  <2>1. "REXMIT" \notin C[p].timers
    BY <1>1, <1>2 DEF ConnShape, Unclosed
  <2>2. "REXMIT" \notin D[p].timers
    BY <1>7, <2>1
  <2> QED
    BY <1>4, <1>5, <1>6, <1>7, <1>8, <2>2 DEF ConnShape
<1>10. ConnShape(h, D[q])
  BY <1>4, <1>7, <1>8 DEF ConnShape, OfCall
<1>11. \A r \in DOMAIN D : ConnShape(h, D[r])
  BY <1>2, <1>7, <1>9, <1>10
<1>12. Pending(D, Q)
  <2>1. ~AwaitsClose(C[p])
    BY <1>1 DEF AwaitsClose
  <2>2. ASSUME NEW i \in 1 .. Len(Q), Q[i].kind = "PEER_CLOSED"
        PROVE  \E r \in DOMAIN D :
                  D[r].gate = Q[i].gate /\ D[r].connId = Q[i].connId /\ AwaitsClose(D[r])
    <3>1. PICK r \in DOMAIN C :
             C[r].gate = Q[i].gate /\ C[r].connId = Q[i].connId /\ AwaitsClose(C[r])
      BY <1>3, <2>2 DEF Pending
    <3>2. r \in DOMAIN D /\ D[r] = C[r]
      BY <1>7, <2>1, <3>1
    <3> QED
      BY <3>1, <3>2
  <2> QED
    BY <1>3, <2>2 DEF Pending
<1>13. OnlyIn(a, port, h, C, D)
  <2>1. \A r \in DOMAIN D : Alters(C, D, r) => r \in {p, q}
    BY <1>7 DEF Alters
  <2>2. Within(a, port, h, C[p].pair) /\ Within(a, port, h, D[p].pair)
        /\ Within(a, port, h, D[q].pair)
    BY <1>1, <1>6, <1>7 DEF Within
  <2> QED
    BY <1>7, <2>1, <2>2 DEF OnlyIn
<1>14. AllClosed(C) => AllClosed(D)
  BY <1>4, <1>5, <1>7 DEF AllClosed
<1> QED
  BY <1>11, <1>12, <1>13, <1>14 DEF C, Q

CallTaken(a, port) ==
    Call(a, port)'.client = Call(a, port).client /\ Call(a, port)'.server = {"SYN_RCVD"}

OnlyAt(h) == \A g \in Host \ {h} : tables'[g] = tables[g]

LEMMA TakesEnds ==
  ASSUME HostsInv, PortsServeOnce, world' = world, NEW h \in Host, OnlyAt(h),
         NEW p \in DOMAIN tables[h].conns, NEW q,
         NEW a \in Clients, NEW port \in Ephemeral, NEW pair \in ServerKeys(a, port),
         TakesCall(tables[h].conns, tables'[h].conns, p, q, pair, PeerPort(a)),
         AtListener(a, port, h, tables[h].conns[p])
  PROVE  CallTaken(a, port)
<1> DEFINE C == tables[h].conns
           D == tables'[h].conns
           clients == ClientKeys(a, port)
           servers == ServerKeys(a, port)
<1>1. /\ world \in Scenarios /\ DOMAIN tables = Host /\ a[1] \in Host /\ Peer(a) \in Host
      /\ a[1] # NoHost /\ PeerPort(a) \notin Ephemeral
  <2>1. world \in Scenarios /\ tables = [g \in Host |-> tables[g]]
    BY DEF HostsInv
  <2> QED
    BY <2>1, CallersAre
<1>2. \A g \in Host : g # h => tables'[g] = tables[g]
  BY DEF OnlyAt
<1>3. /\ Call(a, port).client = StatesAt(tables[a[1]].conns, clients)
      /\ Call(a, port).server = StatesAt(C, servers)
      /\ Call(a, port)'.client = StatesAt(tables'[a[1]].conns, clients)
      /\ Call(a, port)'.server = StatesAt(D, servers)
  BY SameWorld DEF Call, AtListener
<1>4. /\ q \notin DOMAIN C /\ DOMAIN D = DOMAIN C \cup {q}
      /\ \A r \in DOMAIN C \ {p} : D[r] = C[r]
      /\ D[p].pair = pair /\ D[p].fsm = "SYN_RCVD"
      /\ D[q].pair.remoteAddr = NoHost /\ D[q].pair.localPort = PeerPort(a)
  BY DEF TakesCall
<1>5. C[p].pair.localPort \notin Ephemeral /\ C[p].pair.remoteAddr = NoHost /\ h = Peer(a)
  BY DEF AtListener
<1>6. /\ pair \in servers /\ pair.localPort = PeerPort(a)
      /\ \A key \in clients : key.localPort \in Ephemeral
      /\ \A key \in servers : key.remoteAddr = a[1]
  BY KeysOf
<1>7. \A r \in DOMAIN C : C[r].pair \notin servers
  <2>1. StatesAt(C, servers) = {}
    BY <1>3 DEF AtListener
  <2> HIDE DEF C, servers
  <2> QED
    BY <2>1, StatesNone
<1> HIDE DEF C, D, clients, servers
<1>8. StatesAt(D, servers) = {"SYN_RCVD"}
  <2>1. p \in DOMAIN D /\ D[p].pair \in servers
    BY <1>4, <1>6 DEF C
  <2>2. \A r \in DOMAIN D : D[r].pair \in servers => r = p
    BY <1>1, <1>4, <1>6, <1>7
  <2> QED
    BY <1>4, <2>1, <2>2, StatesOne
<1>9. StatesAt(D, clients) = StatesAt(C, clients)
  <2>1. \A r \in DOMAIN C : C[r].pair \in clients => r \in DOMAIN D /\ D[r] = C[r]
    BY <1>4, <1>5, <1>6
  <2>2. \A r \in DOMAIN D : D[r].pair \in clients => r \in DOMAIN C /\ D[r] = C[r]
    BY <1>1, <1>4, <1>6
  <2> QED
    BY <2>1, <2>2, StatesSame
<1>10. StatesAt(tables'[a[1]].conns, clients) = StatesAt(tables[a[1]].conns, clients)
  BY <1>1, <1>2, <1>9 DEF C, D
<1> QED
  BY <1>3, <1>8, <1>10 DEF CallTaken

LEMMA SynOffers ==
  ASSUME NEW par, Sound(par), NEW opts, opts = SynOptions(SynState(par), TRUE)
  PROVE  opts.mss \in Nat \ {0} /\ opts.ws \in Nat \cup {-1} /\ opts.ts \in BOOLEAN
<1>1. /\ par.mss \in Nat \ {0} /\ par.windowScalingSupport \in BOOLEAN
      /\ par.timestampSupport \in BOOLEAN
  BY DEF Sound, Parameters
<1>2. ScaleOf(par) \in Nat
  BY SynStateIs, OwnScale
<1>3. /\ opts.mss = par.mss /\ opts.ts = par.timestampSupport
      /\ opts.ws = IF par.windowScalingSupport THEN ScaleOf(par) ELSE -1
  BY SynSays
<1>4. opts.ws \in Nat \cup {-1}
  BY <1>1, <1>2, <1>3, OptionCarried
<1> QED
  BY <1>1, <1>3, <1>4

\* LISTEN: a call is taken.
LEMMA AcceptGoesOn ==
  ASSUME Undisturbed, NEW s \in wire, NEW h \in Host, h = s.dst, NEW p \in DOMAIN tables[h].conns,
         p = FindConnForSegment(tables[h], s.src, h, s.srcPort, s.destPort),
         tables[h].conns[p].fsm = "LISTEN", s.kind = "SYN", Accept(h, s, p), UNCHANGED sockets
  PROVE  CallsInv'
<1> DEFINE conn == tables[h].conns[p]
           C == tables[h].conns
           D == tables'[h].conns
           pair == SockPair(h, s.src, s.destPort, s.srcPort)
           heard == UpdateRcvWnd(ReadOptions(UpdateSndWnd(Configure(conn.st, world.par[h]),
                                                          s.window), s.opts))
           ups == {}
           downs == {"SYNACK"}
           gone == {s}
<1>1. ASSUME NEW reason \in {"ADDRESS_IN_USE", "WINDOW"}, Fail(reason, h)
      PROVE  CallsInv'
  <2>1. reason \notin Expected
    BY DEF Expected
  <2> QED
    BY <1>1, <2>1, FailsQuietly
<1>2. ASSUME ~\E reason : Fail(reason, h)
      PROVE  CallsInv'
  <2>1. /\ \E U : tables' = [tables EXCEPT ![h] = U]
        /\ wire' = (wire \ {s}) \cup SentSyn(h, pair, "SYNACK", heard)
        /\ world' = world /\ up' = up /\ error' = error /\ toApp' = toApp
    BY <1>2 DEF Accept
  <2>2. /\ HostsInv /\ PortsServeOnce /\ DataInv /\ world \in Scenarios /\ DOMAIN tables = Host
        /\ TablesOK(tables[h], nextId) /\ nextId \in Nat /\ s.src \in Host
        /\ toApp = [g \in Host |-> toApp[g]]
    BY CallsRun DEF HostsInv, HostOK
  <2>3. PICK a \in Clients, port \in Ephemeral : Carries(a, port, s)
    BY SegmentOf
  <2> DEFINE k == Call(a, port)
             m == Call(a, port)'
  <2>4. Upward(a, port, s) => s.kind \in k.up
    BY SegmentKinds
  <2>5. Upward(a, port, s) /\ (AtServer(a, port, h, conn) \/ AtListener(a, port, h, conn))
    <3>1. conn.pair.localPort \notin Ephemeral
      BY ConnIs DEF ListensOnly, Waiting
    <3>2. ~AtClient(a, port, h, conn)
      BY <3>1 DEF AtClient
    <3> QED
      BY <2>3, <3>2, FoundEnd
  <2>6. Served(a) /\ Fits(k) /\ OneEach(a, port)
    BY <2>5, ServedFits DEF AtServer, AtListener
  <2>7. AtListener(a, port, h, conn) /\ k.server = {} /\ Calling(k)
    <3>1. AtServer(a, port, h, conn) => k.server = {"LISTEN"}
      BY DEF AtServer
    <3>2. AtListener(a, port, h, conn) => k.server = {}
      BY DEF AtListener
    <3> HIDE DEF k
    <3>3. ~AtServer(a, port, h, conn)
      BY <2>4, <2>5, <2>6, <3>1, ServerMayHear
    <3> QED
      BY <2>4, <2>5, <2>6, <3>2, <3>3, ListenerMayHear
  <2>8. /\ s.src = a[1] /\ s.srcPort = port /\ h = Peer(a) /\ s.destPort = PeerPort(a)
        /\ pair = SockPair(h, a[1], PeerPort(a), port) /\ pair \in ServerKeys(a, port)
    BY <2>5 DEF Upward, ServerKeys
  <2>9. PICK q : TakesCall(C, D, p, q, pair, s.destPort)
    <3>1. pair = SockPair(h, s.src, s.destPort, s.srcPort)
      OBVIOUS
    <3> HIDE DEF pair
    <3> QED
      BY <1>2, <3>1, AcceptTakes
  <2>10. /\ \A r \in DOMAIN D : ConnShape(h, D[r])
         /\ Pending(D, toApp[h]) /\ OnlyIn(a, port, h, C, D)
         /\ AllClosed(C) => AllClosed(D)
    <3>1. TakesCall(C, D, p, q, pair, PeerPort(a))
      BY <2>8, <2>9
    <3> HIDE DEF D, pair
    <3> QED
      BY <2>6, <2>7, <2>8, <3>1, TakesShapes
  <2>11. SynWindow(heard) > 0
    <3> DEFINE par == world.par[h]
    <3>1. /\ conn.st \in StateBlock /\ FreshState(conn.st)
      <4>1. ConnData(conn, h, world.par)
        BY ConnIs
      <4> HIDE DEF conn
      <4> QED
        BY <2>7, <4>1 DEF ConnData, AtListener
    <3>2. Sound(par) /\ Sound(world.par[s.src])
      BY <2>2, SoundHosts
    <3>3. s.window \in Window /\ s.opts = SynOptions(SynState(world.par[s.src]), TRUE)
      BY <2>2 DEF DataInv, SegmentData
    <3>4. s.opts.mss \in Nat \ {0} /\ s.opts.ws \in Nat \cup {-1} /\ s.opts.ts \in BOOLEAN
      BY <3>2, <3>3, SynOffers
    <3> HIDE DEF par, conn
    <3> QED
      BY <3>1, <3>2, <3>3, <3>4, FreshAnswers DEF par, conn
  <2>12. PICK t : /\ SentSyn(h, pair, "SYNACK", heard) = {t}
                  /\ t.kind = "SYNACK" /\ t.window = SynWindow(heard)
                  /\ t.src = h /\ t.dst = pair.remoteAddr
                  /\ t.srcPort = pair.localPort /\ t.destPort = pair.remotePort
    BY SynSent
  <2>13. Downward(a, port, t)
    BY <2>8, <2>12, KeysOf DEF Downward
  <2> HIDE DEF heard
  <2>14. Sends(a, port, gone, ups, downs) /\ \A r \in wire' : r \in wire \/ SegmentShape(r)
    <3>1. wire' = (wire \ gone) \cup {t}
      BY <2>1, <2>12
    <3>2. \A r \in gone : r \in wire /\ Carries(a, port, r) /\ r.kind # t.kind
      BY <2>3, <2>12
    <3>3. ups = {} /\ downs = {t.kind}
      BY <2>12
    <3>4. SegmentShape(t)
      BY <2>11, <2>12, <2>13 DEF SegmentShape, Carries
    <3> HIDE DEF gone, ups, downs
    <3>5. Sends(a, port, gone, ups, downs)
      BY <2>13, <3>1, <3>2, <3>3, OneSent
    <3> QED
      BY <3>1, <3>4, <3>5
  <2> DEFINE goneUp == KindsUp(a, port, gone)
  <2>15. /\ WireOnlyIn(a, port)
         /\ m.up \subseteq k.up \cup ups
         /\ m.down \subseteq k.down \cup downs /\ downs \subseteq m.down
         /\ Spent(m.up, goneUp, ups)
         /\ ups \cap k.up \cap Once = {} /\ downs \cap k.down \cap Once = {} => OneEach(a, port)'
    <3> HIDE DEF gone, ups, downs
    <3> QED
      BY <2>1, <2>2, <2>6, <2>14, WireFlows DEF Flows
  <2>16. m.client = k.client /\ m.server = {"SYN_RCVD"}
    <3>1. TakesCall(tables[h].conns, tables'[h].conns, p, q, pair, PeerPort(a))
      BY <2>8, <2>9
    <3>2. OnlyAt(h)
      BY <2>1, <2>2 DEF OnlyAt
    <3>3. HostsInv /\ PortsServeOnce /\ world' = world
      BY <2>1, <2>2
    <3>4. pair \in ServerKeys(a, port)
      BY <2>8
    <3>5. AtListener(a, port, h, tables[h].conns[p])
      BY <2>7
    <3> HIDE DEF C, D, pair, k, m
    <3>6. CallTaken(a, port)
      BY <3>1, <3>2, <3>3, <3>4, <3>5, TakesEnds
    <3> QED
      BY <3>6 DEF CallTaken, k, m
  <2>17. Fits(m)
    <3>1. s \in gone /\ Upward(a, port, s) /\ s.kind = "SYN"
      BY <2>5
    <3>2. "SYN" \in goneUp
      BY <3>1 DEF KindsUp
    <3>3. Spent(m.up, {"SYN"}, {}) /\ m.up \subseteq k.up
      BY <2>15, <3>2 DEF Spent
    <3> HIDE DEF k, m
    <3> QED
      BY <2>7, <2>15, <2>16, <3>3, AcceptsFits
  <2>18. OneEach(a, port)'
    BY <2>7, <2>15 DEF Calling
  <2>19. CallFits(a, port)'
    <3>1. m.client # {} /\ m.down # {} /\ m = Call(a, port)'
      BY <2>7, <2>15, <2>16 DEF Calling
    <3> HIDE DEF m
    <3> QED
      BY <2>1, <2>6, <2>17, <2>18, <3>1, FitsLater
  <2>20. PICK U : tables' = [tables EXCEPT ![h] = U]
    BY <2>1
  <2>21. U = tables'[h] /\ toApp' = [toApp EXCEPT ![h] = toApp[h]]
    <3>1. toApp = [toApp EXCEPT ![h] = toApp[h]]
      BY <2>2
    <3> QED
      BY <2>1, <2>2, <2>20, <3>1
  <2>22. \A b \in Clients : Finished(b) => Finished(b)'
    <3>1. \A b \in Clients : b[1] \in Host
      BY <2>2, CallersAre
    <3>2. AllClosed(tables[h].conns) => AllClosed(U.conns)
      BY <2>10, <2>21
    <3>3. \A b \in Clients : sockets'[b].timer = "CONNECT" => sockets[b].timer = "CONNECT"
      OBVIOUS
    <3> DEFINE Q == toApp[h]
    <3>4. /\ HostsInv /\ world' = world /\ tables' = [tables EXCEPT ![h] = U]
          /\ toApp' = [toApp EXCEPT ![h] = Q]
      BY <2>1, <2>2, <2>20, <2>21
    <3>5. \/ ~AllClosed(tables[h].conns)
          \/ /\ AllClosed(U.conns)
             /\ \A b \in Clients : b[1] = h /\ Quiet(b, toApp[h]) => Quiet(b, Q)
      BY <3>2
    <3> HIDE DEF Q
    <3> QED
      BY <3>1, <3>3, <3>4, <3>5, FinishedStays
  <2>23. /\ \A r \in DOMAIN U.conns : ConnShape(h, U.conns[r])
         /\ Pending(U.conns, toApp[h]) /\ OnlyIn(a, port, h, tables[h].conns, U.conns)
    BY <2>10, <2>21
  <2> HIDE DEF k, m, gone, ups, downs
  <2> QED
    BY <2>1, <2>14, <2>15, <2>19, <2>20, <2>21, <2>22, <2>23, CallsGoOn
<1>3. nextId \in Nat
  BY CallsRun DEF HostsInv
<1>4. CASE Fail("ADDRESS_IN_USE", h) \/ Fail("WINDOW", h)
  BY <1>1, <1>4
<1>5. CASE ~Fail("ADDRESS_IN_USE", h) /\ ~Fail("WINDOW", h)
  <2>1. nextId' = nextId + 1
    BY <1>5 DEF Accept
  <2>2. ~\E reason : Fail(reason, h)
    BY <1>3, <2>1 DEF Fail
  <2> QED
    BY <1>2, <2>2
<1> QED
  BY <1>4, <1>5


LEMMA ListenGoesOn ==
  ASSUME Undisturbed, NEW s \in wire, NEW h \in Host, h = s.dst, NEW p \in DOMAIN tables[h].conns,
         RcvInListen(h, s, p)
  PROVE  CallsInv'
<1>1. /\ p = FindConnForSegment(tables[h], s.src, h, s.srcPort, s.destPort)
      /\ tables[h].conns[p].fsm = "LISTEN"
  BY DEF RcvInListen, Arrives
<1>2. CASE s.kind = "SYN" /\ Accept(h, s, p) /\ UNCHANGED appVars
  <2>1. sockets' = sockets
    BY <1>2 DEF appVars
  <2> QED
    BY <1>1, <1>2, <2>1, AcceptGoesOn
<1>3. CASE s.kind = "FIRSTACK" /\ Answer(s, {"RST"})
  <2> DEFINE kinds == {"RST"}
  <2>1. kinds = {"RST"} /\ Answer(s, kinds)
    BY <1>3
  <2> HIDE DEF kinds
  <2> QED
    BY <1>1, <1>3, <2>1, LateAckGoesOn
<1> QED
  BY <1>2, <1>3 DEF RcvInListen

LEMMA SegmentGoesOn ==
  ASSUME Undisturbed, NEW s \in wire, RcvSegment(s.dst, s) \/ RcvWhileDown(s)
  PROVE  CallsInv'
<1>1. s.dst \in Host /\ up[s.dst]
  <2>1. /\ TypesInv /\ HostsInv /\ \A h \in Host : up[h]
    BY CallsRun
  <2>2. s.dst \in Host
    BY <2>1 DEF HostsInv
  <2> QED
    BY <2>1, <2>2
<1> DEFINE h == s.dst
<1>2. RcvUnknown(h, s) => CallsInv'
  BY <1>1, UnknownGoesOn
<1>3. ASSUME NEW p \in DOMAIN tables[h].conns, RcvWhileClosed(h, s, p)
      PROVE  CallsInv'
  <2> DEFINE reason == "EVENT_WHILE_CLOSED"
  <2>1. Fail(reason, h) /\ reason \notin Expected
    BY <1>3 DEF RcvWhileClosed, Expected
  <2> HIDE DEF reason
  <2> QED
    BY <2>1, FailsQuietly
<1>4. ASSUME NEW p \in DOMAIN tables[h].conns,
             \/ RcvInListen(h, s, p) \/ RcvInSynSent(h, s, p) \/ RcvElsewhere(h, s, p)
      PROVE  CallsInv'
  BY <1>1, <1>4, ListenGoesOn, SynSentGoesOn, ElsewhereGoesOn
<1> QED
  BY <1>1, <1>2, <1>3, <1>4 DEF RcvSegment, RcvWhileDown


\* Connections C become D, with a new one, of the call a client makes.
MakesCall(C, D, p, pair) ==
    /\ p \notin DOMAIN C /\ DOMAIN D = DOMAIN C \cup {p}
    /\ \A q \in DOMAIN C : D[q] = C[q]
    /\ D[p].pair = pair /\ D[p].fsm = "SYN_SENT" /\ D[p].timers = {}

PortUnused(C, port) == \A p \in DOMAIN C : C[p].pair.localPort # port

LEMMA UnusedPort ==
  ASSUME NEW T, NEW next, TablesOK(T, next), NEW port \in Ephemeral, T.ports[port] = 0
  PROVE  PortUnused(T.conns, port)
<1>1. Cardinality(Users(T, port)) = 0 /\ IsFiniteSet(DOMAIN T.conns)
  BY DEF TablesOK, PortsAgree, IsTables
<1>2. IsFiniteSet(Users(T, port))
  BY <1>1, FS_Subset DEF Users
<1>3. Users(T, port) = {}
  BY <1>1, <1>2, FS_EmptySet
<1> QED
  BY <1>3 DEF Users, PortUnused

LEMMA ConnectMakes ==
  ASSUME Undisturbed, NEW a \in Clients, ClientConnects(a), ~\E reason : Fail(reason, a[1]),
         NEW h, h = a[1]
  PROVE  \E port \in Ephemeral : \E p, pair, st, U :
            /\ pair = SockPair(NoHost, Peer(a), port, PeerPort(a))
            /\ MakesCall(tables[h].conns, U.conns, p, pair)
            /\ PortUnused(tables[h].conns, port)
            /\ tables' = [tables EXCEPT ![h] = U]
            /\ wire' = wire \cup SentSyn(h, pair, "SYN", st)
<1> DEFINE gate == a[2]
           app == world.apps[a]
           T == tables[h]
           p == FreshPointer(T)
           st == UpdateRcvWnd(Configure(Unconfigured, world.par[h]))
           syn == WriteSyn(st, TRUE)
           conn == Connection(gate, nextId, Closed, "SYN_SENT", {}, syn)
           port == GetEphemeralPort(T)
           pair == SockPair(NoHost, app.peer, port, app.port)
           A == AddSockPair(CreateConnection(T, p, conn), p, pair)
           U == [A EXCEPT !.lastPort = port]
           new == WithPair(conn, pair)
<1>1. /\ HostsInv /\ world \in Scenarios /\ up[h] /\ h \in Host /\ nextId \in Nat \ {0}
      /\ TablesOK(T, nextId)
  BY CallsRun, CallersAre DEF HostsInv, HostOK
<1>2. OpenActive(h, gate, nextId, app) /\ nextId <= world.maxId
  BY DEF ClientConnects
<1>3. ~Exhausted(T) /\ wire' = wire \cup SentSyn(h, pair, "SYN", st)
  BY <1>1, <1>2 DEF OpenActive
<1>4. tables' = [tables EXCEPT ![h] = U]
  <2>1. pair.localPort = port
    BY DEF SockPair
  <2>2. tables' = [tables EXCEPT ![h] = [A EXCEPT !.lastPort = pair.localPort]]
    BY <1>1, <1>2 DEF OpenActive
  <2> HIDE DEF pair, A
  <2> QED
    BY <2>1, <2>2
<1>5. port \in Ephemeral /\ T.ports[port] = 0
  <2>1. T.lastPort \in Ephemeral
    BY <1>1 DEF TablesOK, IsTables
  <2> QED
    BY <1>3, <2>1, FreePort
<1>6. p \notin DOMAIN T.conns
  BY <1>1, <1>2, RoomForConnection
<1> HIDE DEF port, p
<1>7. PortUnused(T.conns, port)
  BY <1>1, <1>5, UnusedPort
<1>8. pair = SockPair(NoHost, Peer(a), port, PeerPort(a))
  BY DEF Peer, PeerPort
<1> HIDE DEF pair, syn, st
<1>9. new.pair = pair /\ new.fsm = "SYN_SENT" /\ new.timers = {}
  BY DEF Connection, WithPair
<1>10. "conns" \in DOMAIN T
  BY <1>1, ConnsOf
<1>11. /\ "conns" \in DOMAIN A
       /\ DOMAIN A.conns = DOMAIN T.conns \cup {p}
       /\ A.conns[p] = new
       /\ \A q \in DOMAIN T.conns \ {p} : A.conns[q] = T.conns[q]
  BY <1>10, AddedConns
<1> HIDE DEF A, new, conn
<1>12. U.conns = A.conns
  BY <1>11
<1> HIDE DEF U
<1>13. MakesCall(T.conns, U.conns, p, pair)
  BY <1>6, <1>9, <1>11, <1>12 DEF MakesCall
<1> QED
  BY <1>3, <1>4, <1>5, <1>7, <1>8, <1>13

\* The call has an end at the client, and had none.
CallMade(a, port) ==
    /\ Call(a, port).client = {} /\ Call(a, port)'.client = {"SYN_SENT"}
    /\ Call(a, port)'.server = Call(a, port).server

LEMMA MakesEnds ==
  ASSUME HostsInv, PortsServeOnce, world' = world, NEW h \in Host, OnlyAt(h),
         NEW p, NEW a \in Clients, NEW port \in Ephemeral, h = a[1],
         NEW pair, pair = SockPair(NoHost, Peer(a), port, PeerPort(a)),
         MakesCall(tables[h].conns, tables'[h].conns, p, pair),
         PortUnused(tables[h].conns, port)
  PROVE  CallMade(a, port)
<1> DEFINE C == tables[h].conns
           D == tables'[h].conns
           clients == ClientKeys(a, port)
           servers == ServerKeys(a, port)
<1>1. Peer(a) \in Host /\ PeerPort(a) \notin Ephemeral
  BY CallersAre DEF HostsInv
<1>2. \A g \in Host : g # h => tables'[g] = tables[g]
  BY DEF OnlyAt
<1>3. /\ Call(a, port).client = StatesAt(C, clients)
      /\ Call(a, port).server = StatesAt(tables[Peer(a)].conns, servers)
      /\ Call(a, port)'.client = StatesAt(D, clients)
      /\ Call(a, port)'.server = StatesAt(tables'[Peer(a)].conns, servers)
  BY SameWorld DEF Call
<1>4. /\ p \notin DOMAIN C /\ DOMAIN D = DOMAIN C \cup {p}
      /\ \A q \in DOMAIN C : D[q] = C[q]
      /\ D[p].pair = pair /\ D[p].fsm = "SYN_SENT"
  BY DEF MakesCall
<1>5. /\ pair \in clients /\ pair.localPort = port
      /\ \A key \in clients : key.localPort = port
      /\ \A key \in servers : key.localPort = PeerPort(a)
  BY KeysOf DEF ClientKeys
<1>6. \A q \in DOMAIN C : C[q].pair \notin clients
  BY <1>5 DEF PortUnused
<1> HIDE DEF C, D, clients, servers
<1>7. StatesAt(C, clients) = {}
  BY <1>6, StatesNone
<1>8. StatesAt(D, clients) = {"SYN_SENT"}
  <2>1. p \in DOMAIN D /\ D[p].pair \in clients
    BY <1>4, <1>5
  <2>2. \A q \in DOMAIN D : D[q].pair \in clients => q = p
    BY <1>4, <1>6
  <2> QED
    BY <1>4, <2>1, <2>2, StatesOne
<1>9. StatesAt(D, servers) = StatesAt(C, servers)
  <2>1. \A q \in DOMAIN C : C[q].pair \in servers => q \in DOMAIN D /\ D[q] = C[q]
    BY <1>4
  <2>2. \A q \in DOMAIN D : D[q].pair \in servers => q \in DOMAIN C /\ D[q] = C[q]
    BY <1>1, <1>4, <1>5
  <2> QED
    BY <2>1, <2>2, StatesSame
<1>10. StatesAt(tables'[Peer(a)].conns, servers) = StatesAt(tables[Peer(a)].conns, servers)
  BY <1>1, <1>2, <1>9 DEF C, D
<1> QED
  BY <1>3, <1>7, <1>8, <1>10 DEF CallMade


\* The new end has the shape, and nobody else's connection is touched.
LEMMA MakesShapes ==
  ASSUME Undisturbed, NEW a \in Clients, NEW port \in Ephemeral, NEW h, h = a[1], NEW D, NEW p,
         NEW pair, pair = SockPair(NoHost, Peer(a), port, PeerPort(a)),
         MakesCall(tables[h].conns, D, p, pair)
  PROVE  /\ \A q \in DOMAIN D : ConnShape(h, D[q])
         /\ OnlyIn(a, port, h, tables[h].conns, D)
<1> DEFINE C == tables[h].conns
<1>1. /\ p \notin DOMAIN C /\ DOMAIN D = DOMAIN C \cup {p}
      /\ \A q \in DOMAIN C : D[q] = C[q]
      /\ D[p].pair = pair /\ D[p].fsm = "SYN_SENT" /\ D[p].timers = {}
  BY DEF MakesCall
<1>2. h \in Host
  BY CallsRun, CallersAre
<1>3. \A q \in DOMAIN C : ConnShape(h, C[q])
  BY <1>2, ConnIs
<1>4. pair \in ClientKeys(a, port) /\ pair.localPort = port
  BY KeysOf DEF ClientKeys
<1>5. Within(a, port, h, pair) /\ OfCall(h, pair)
  BY <1>4 DEF Within, OfCall, InCall
<1> HIDE DEF C
<1>6. ConnShape(h, D[p])
  BY <1>1, <1>4, <1>5 DEF ConnShape
<1>7. \A q \in DOMAIN D : ConnShape(h, D[q])
  BY <1>1, <1>3, <1>6
<1>8. OnlyIn(a, port, h, C, D)
  <2>1. \A q \in DOMAIN D : Alters(C, D, q) => q = p
    BY <1>1 DEF Alters
  <2> QED
    BY <1>1, <1>5, <2>1 DEF OnlyIn
<1> QED
  BY <1>7, <1>8 DEF C

\* A client calls.
LEMMA ConnectGoesOn ==
  ASSUME Undisturbed, NEW a \in DOMAIN world.apps, ClientConnects(a)
  PROVE  CallsInv'
<1> DEFINE h == a[1]
           called == ClientConnecting(sockets[a], nextId)
           ups == {"SYN"}
           downs == {}
           gone == {}
<1>1. /\ AppKind(a) = "client" /\ sockets[a].timer = "CONNECT" /\ toApp[h] = <<>>
      /\ sockets' = [sockets EXCEPT ![a] = called]
      /\ OpenActive(h, a[2], nextId, world.apps[a])
  BY DEF ClientConnects
<1>2. a \in Clients
  BY <1>1 DEF Clients
<1>3. /\ HostsInv /\ PortsServeOnce /\ world \in Scenarios /\ DOMAIN tables = Host /\ h \in Host
      /\ up[h] /\ nextId \in Nat /\ DOMAIN sockets = DOMAIN world.apps
      /\ toApp = [g \in Host |-> toApp[g]]
  BY <1>2, CallsRun, CallersAre DEF HostsInv
<1>4. ASSUME NEW reason \in {"PORTS_EXHAUSTED", "ADDRESS_IN_USE"}, Fail(reason, h)
      PROVE  CallsInv'
  <2>1. reason \notin Expected
    BY DEF Expected
  <2> QED
    BY <1>4, <2>1, FailsQuietly
<1>5. CASE Fail("PORTS_EXHAUSTED", h) \/ Fail("ADDRESS_IN_USE", h)
  BY <1>4, <1>5
<1>6. CASE ~Fail("PORTS_EXHAUSTED", h) /\ ~Fail("ADDRESS_IN_USE", h)
  <2>1. /\ nextId' = nextId + 1 /\ world' = world /\ up' = up /\ error' = error /\ toApp' = toApp
    BY <1>1, <1>3, <1>6 DEF OpenActive
  <2>2. ~\E reason : Fail(reason, h)
    BY <1>3, <2>1 DEF Fail
  <2>3. PICK port \in Ephemeral :
           \E p, pair, st, U :
              /\ pair = SockPair(NoHost, Peer(a), port, PeerPort(a))
              /\ MakesCall(tables[h].conns, U.conns, p, pair)
              /\ PortUnused(tables[h].conns, port)
              /\ tables' = [tables EXCEPT ![h] = U]
              /\ wire' = wire \cup SentSyn(h, pair, "SYN", st)
    BY <1>2, <2>2, ConnectMakes
  <2>4. PICK p, pair, st, U :
           /\ pair = SockPair(NoHost, Peer(a), port, PeerPort(a))
           /\ MakesCall(tables[h].conns, U.conns, p, pair)
           /\ PortUnused(tables[h].conns, port)
           /\ tables' = [tables EXCEPT ![h] = U]
           /\ wire' = wire \cup SentSyn(h, pair, "SYN", st)
    BY <2>3
  <2> DEFINE k == Call(a, port)
             m == Call(a, port)'
  <2>5. PICK t : /\ SentSyn(h, pair, "SYN", st) = {t} /\ t.kind = "SYN"
                 /\ t.src = h /\ t.dst = pair.remoteAddr
                 /\ t.srcPort = pair.localPort /\ t.destPort = pair.remotePort
    BY SynSent
  <2>6. Upward(a, port, t)
    <3>1. /\ pair.remoteAddr = Peer(a) /\ pair.localPort = port
          /\ pair.remotePort = PeerPort(a)
      BY <2>4 DEF SockPair
    <3> QED
      BY <2>5, <3>1 DEF Upward
  <2>7. Sends(a, port, gone, ups, downs) /\ \A s \in wire' : s \in wire \/ SegmentShape(s)
    <3>1. wire' = (wire \ gone) \cup {t}
      BY <2>4, <2>5
    <3>2. ups = {t.kind} /\ downs = {} /\ \A s \in gone : FALSE
      BY <2>5
    <3>3. SegmentShape(t)
      BY <1>2, <2>5, <2>6 DEF SegmentShape, Carries
    <3> HIDE DEF gone, ups, downs
    <3>4. Sends(a, port, gone, ups, downs)
      BY <2>6, <3>1, <3>2, OneSent
    <3> QED
      BY <3>1, <3>3, <3>4
  <2>8. /\ WireOnlyIn(a, port)
        /\ m.up \subseteq k.up \cup ups /\ ups \subseteq m.up
        /\ m.down \subseteq k.down \cup downs
        /\ OneEach(a, port) /\ ups \cap k.up \cap Once = {} /\ downs \cap k.down \cap Once = {}
              => OneEach(a, port)'
    <3> HIDE DEF gone, ups, downs
    <3> QED
      BY <1>2, <1>3, <2>1, <2>7, WireFlows DEF Flows
  <2>9. U = tables'[h] /\ OnlyAt(h)
    BY <1>3, <2>4 DEF OnlyAt
  <2>10. k.client = {} /\ m.client = {"SYN_SENT"} /\ m.server = k.server
    <3> HIDE DEF h, k, m
    <3>1. h = a[1]
      BY DEF h
    <3>2. CallMade(a, port)
      BY <1>2, <1>3, <2>1, <2>4, <2>9, <3>1, MakesEnds
    <3> QED
      BY <3>2 DEF CallMade, k, m
  <2>11. ~Finished(a)
    BY <1>1 DEF Finished
  <2>12. /\ Served(a) => Unused(k) /\ OneEach(a, port)
         /\ ~Served(a) => Refused(k)
    BY <1>2, <2>10, <2>11, ServedFits
  <2>13. /\ Served(a) => Fits(m) /\ OneEach(a, port)'
         /\ ~Served(a) => Refused(m)
    <3>1. m.up \subseteq k.up \cup {"SYN"} /\ m.down \subseteq k.down
      BY <2>8
    <3>2. Served(a) => OneEach(a, port)'
      BY <2>8, <2>12 DEF Unused
    <3> HIDE DEF k, m
    <3> QED
      BY <2>10, <2>12, <3>1, <3>2, CallsFits
  <2>14. CallFits(a, port)'
    <3>1. m.client # {} /\ m.up # {} /\ m = Call(a, port)'
      BY <2>8, <2>10
    <3> HIDE DEF m
    <3> QED
      BY <2>1, <2>13, <3>1, FitsLater
  <2>15. \A b \in Clients : Finished(b) => Finished(b)'
    <3>1. ASSUME NEW b \in Clients, Finished(b)
          PROVE  Finished(b)'
      <4>1. b # a /\ b[1] # h /\ b[1] \in Host /\ b \in DOMAIN world.apps
        BY <1>2, <1>3, <2>11, <3>1, CallersAre
      <4>2. /\ sockets'[b] = sockets[b] /\ toApp'[b[1]] = toApp[b[1]]
            /\ tables'[b[1]] = tables[b[1]]
        BY <1>1, <1>3, <2>1, <2>9, <4>1 DEF OnlyAt
      <4> HIDE DEF h
      <4>3. /\ sockets'[b].timer # "CONNECT" /\ Quiet(b, toApp'[b[1]])
            /\ AllClosed(tables'[b[1]].conns)
        BY <3>1, <4>2 DEF Finished
      <4> QED
        BY <4>3 DEF Finished, Quiet, AllClosed
    <3> QED
      BY <3>1
  <2>16. toApp' = [toApp EXCEPT ![h] = toApp[h]] /\ Pending(U.conns, toApp[h])
    <3>1. toApp = [toApp EXCEPT ![h] = toApp[h]]
      BY <1>3
    <3>2. 1 .. Len(toApp[h]) = {}
      BY <1>1
    <3> QED
      BY <2>1, <3>1, <3>2 DEF Pending
  <2>17. /\ \A q \in DOMAIN U.conns : ConnShape(h, U.conns[q])
         /\ OnlyIn(a, port, h, tables[h].conns, U.conns)
    BY <1>2, <2>4, MakesShapes
  <2> HIDE DEF k, m, gone, ups, downs, h
  <2> QED
    BY <1>2, <1>3, <2>1, <2>4, <2>7, <2>8, <2>14, <2>15, <2>16, <2>17, CallsGoOn
<1> QED
  BY <1>5, <1>6


----------------------------------------------------------------------------
(* The beginning, and every step. *)

LEMMA ListenShape ==
  ASSUME world \in Scenarios, NEW a \in DOMAIN world.apps, Listener(a), NEW id,
         NEW h, h = a[1], NEW p \in DOMAIN Listen(Empty, a, id).conns
  PROVE  LET conn == Listen(Empty, a, id).conns[p]
         IN  /\ ConnShape(h, conn)
             /\ conn.pair.remoteAddr = NoHost
<1> DEFINE q == FreshPointer(Empty)
           port == world.apps[a].port
           pair == Listening(NoHost, port)
           st == Configure(Unconfigured, world.par[h])
           conn == Connection(a[2], id, Closed, "LISTEN", {}, st)
           U == Listen(Empty, a, id)
           new == WithPair(conn, pair)
<1>1. Serves(h, port)
  BY DEF Serves
<1>2. port \notin Ephemeral
  <2>1. AppKind(a) # "client"
    BY AppAt DEF Listener
  <2> QED
    BY <2>1, ScenariosAssumption DEF AppKind
<1>3. U = AddSockPair(CreateConnection(Empty, q, conn), q, pair)
  BY DEF Listen
<1> HIDE DEF st, q, port
<1>4. new.pair = pair /\ new.fsm = "LISTEN" /\ new.timers = {}
  BY DEF Connection, WithPair
<1>5. pair.localPort = port /\ pair.remoteAddr = NoHost
  BY DEF Listening, SockPair
<1>6. "conns" \in DOMAIN Empty /\ DOMAIN Empty.conns = {}
  BY EmptyTables DEF Empty
<1> HIDE DEF U, conn, pair
<1>7. DOMAIN U.conns = DOMAIN Empty.conns \cup {q} /\ U.conns[q] = WithPair(conn, pair)
  BY <1>3, <1>6, AddedConns
<1>8. U.conns[p] = new
  BY <1>6, <1>7 DEF U
<1> HIDE DEF new
<1>9. ConnShape(h, new)
  BY <1>1, <1>2, <1>4, <1>5 DEF ConnShape, OfCall
<1>10. new.pair.remoteAddr = NoHost
  BY <1>4, <1>5
<1> QED
  BY <1>8, <1>9, <1>10 DEF U

LEMMA InitShape ==
  ASSUME Init, NEW h \in Host, NEW p \in DOMAIN tables[h].conns
  PROVE  ConnShape(h, tables[h].conns[p]) /\ tables[h].conns[p].pair.remoteAddr = NoHost
<1> DEFINE listeners == {a \in AppsOf(h) : Listener(a)}
           it == CHOOSE a \in listeners : TRUE
<1>1. tables[h] = IF listeners = {} THEN Empty ELSE Listen(Empty, it, world.apps[it].id)
  BY DEF Init
<1>2. listeners # {}
  BY <1>1, EmptyTables
<1>3. it \in listeners
  BY <1>2
<1>4. it \in DOMAIN world.apps /\ Listener(it) /\ it[1] = h
  BY <1>3 DEF AppsOf
<1>5. world \in Scenarios
  BY DEF Init
<1> HIDE DEF it, listeners
<1> DEFINE id == world.apps[it].id
<1>6. tables[h] = Listen(Empty, it, id)
  BY <1>1, <1>2
<1> HIDE DEF id
<1> QED
  BY <1>4, <1>5, <1>6, ListenShape

LEMMA InitCalls ==
  ASSUME Init
  PROVE  CallsInv
<1>1. /\ wire = {} /\ error.reason = "none" /\ world \in Scenarios
      /\ \A h \in Host : up[h] /\ toApp[h] = <<>>
  BY DEF Init
<1>2. ClosesInTime
  BY <1>1 DEF ClosesInTime
<1>3. Shapes
  BY <1>1, InitShape DEF Shapes
<1>4. Pends
  <2>1. ASSUME NEW h \in Host
        PROVE  Pending(tables[h].conns, toApp[h])
    <3>1. 1 .. Len(toApp[h]) = {}
      BY <1>1
    <3> QED
      BY <3>1 DEF Pending
  <2> QED
    BY <2>1 DEF Pends
<1>5. ASSUME PortsServeOnce, NEW a \in Clients, NEW port \in Ephemeral
      PROVE  CallFits(a, port)
  <2> DEFINE k == Call(a, port)
  <2>1. a[1] \in Host /\ Peer(a) \in Host /\ Peer(a) # NoHost /\ a[1] # NoHost
    BY <1>1, <1>5, CallersAre
  <2>2. ASSUME NEW h \in Host, NEW keys \in {ClientKeys(a, port), ServerKeys(a, port)}
        PROVE  StatesAt(tables[h].conns, keys) = {}
    <3>1. \A key \in keys : key.remoteAddr # NoHost
      BY <2>1, KeysOf
    <3>2. \A p \in DOMAIN tables[h].conns : tables[h].conns[p].pair \notin keys
      BY <3>1, InitShape
    <3> QED
      BY <3>2, StatesNone
  <2>3. k.client = {} /\ k.server = {}
    BY <2>1, <2>2 DEF Call
  <2>4. k.up = {} /\ k.down = {}
    BY <1>1 DEF Call, KindsUp, KindsDown
  <2>5. OneEach(a, port)
    BY <1>1 DEF OneEach
  <2> HIDE DEF k
  <2>6. Fits(k) /\ Unused(k) /\ Refused(k) /\ Awaited(k)
    BY <2>3, <2>4 DEF Fits, Over, Unused, Refused, Awaited
  <2> QED
    BY <2>5, <2>6 DEF CallFits, k
<1> QED
  BY <1>2, <1>3, <1>4, <1>5 DEF CallsInv, CallsFit

Kept == world' = world /\ operations' = operations

LEMMA CommandsStay ==
  /\ \A reason, h : Fail(reason, h) => Kept
  /\ \A h : Consume(h) => Kept
  /\ \A s, kinds : Answer(s, kinds) => Kept
BY DEF Fail, Consume, Answer, Kept

LEMMA PerformStays ==
  ASSUME NEW h, NEW p, NEW event, NEW sends, NEW tells, NEW armed, NEW st, NEW queue, NEW gone,
         NEW removes, Perform(h, p, event, sends, tells, armed, st, queue, gone, removes)
  PROVE  Kept
<1> DEFINE T == tables[h]
           conn == T.conns[p]
           new == NextState(conn.fsm, event)
           after == IF sends = {} THEN st ELSE UpdateRcvWnd(st)
<1>1. CASE (sends # {} /\ ~WindowFits(after)) \/ (sends # {} /\ conn.pair.remoteAddr = NoHost)
  <2>1. \E reason : Fail(reason, h)
    BY <1>1 DEF Perform
  <2> QED
    BY <2>1, CommandsStay
<1>2. CASE ~(sends # {} /\ ~WindowFits(after)) /\ ~(sends # {} /\ conn.pair.remoteAddr = NoHost)
  BY <1>2 DEF Perform, Kept
<1> QED
  BY <1>1, <1>2

LEMMA CloseStays ==
  ASSUME NEW h, NEW gate, NEW connId, NEW queue, Close(h, gate, connId, queue)
  PROVE  Kept
<1> DEFINE p == FindConnForApp(tables[h], gate, connId)
           conn == tables[h].conns[p]
           early == conn.fsm \in {"LISTEN", "SYN_SENT"}
           sends == IF early THEN {} ELSE {"FIN"}
           armed == IF early THEN conn.timers ELSE conn.timers \cup {"REXMIT"}
           st == conn.st
<1>1. \/ Kept
      \/ \E reason : Fail(reason, h)
      \/ Perform(h, p, "CLOSE", sends, <<>>, armed, st, queue, {}, TRUE)
  BY DEF Close, Kept
<1> HIDE DEF p, sends, armed, st
<1> QED
  BY <1>1, CommandsStay, PerformStays

LEMMA AppsKeep ==
  ASSUME NEW a, ClientConnects(a) \/ StopTimePasses(a) \/ AppStep(a[1], a)
  PROVE  Kept /\ Running
<1>1. CASE ClientConnects(a)
  BY <1>1, CommandsStay DEF ClientConnects, OpenActive, Kept
<1>2. CASE StopTimePasses(a)
  BY <1>2 DEF StopTimePasses, Kept
<1>3. CASE AppStep(a[1], a)
  <2> DEFINE h == a[1]
             i == Head(toApp[h])
  <2>1. Running
    BY <1>3 DEF AppStep, ClientReceives, SinkReceives, EchoReceives, ThreadReceives, Receives
  <2>2. \/ Consume(h)
        \/ Close(h, i.gate, i.connId, Tail(toApp[h]))
        \/ \E reason : Fail(reason, h)
    BY <1>3 DEF AppStep, ClientReceives, SinkReceives, EchoReceives, ThreadReceives
  <2> QED
    BY <2>1, <2>2, CommandsStay, CloseStays
<1> QED
  BY <1>1, <1>2, <1>3

LEMMA SegmentsKeep ==
  ASSUME NEW s, RcvSegment(s.dst, s) \/ RcvWhileDown(s) \/ LoseSegment(s)
  PROVE  Kept /\ Running
<1> DEFINE h == s.dst
<1>1. CASE RcvUnknown(h, s) \/ RcvWhileDown(s) \/ LoseSegment(s)
  BY <1>1, CommandsStay DEF RcvUnknown, RcvWhileDown, LoseSegment, Arrives
<1>2. ASSUME NEW p, RcvInListen(h, s, p)
      PROVE  Kept /\ Running
  BY <1>2, CommandsStay DEF RcvInListen, Accept, Arrives, Kept
<1>3. ASSUME NEW p, RcvInSynSent(h, s, p)
      PROVE  Kept /\ Running
  BY <1>3, CommandsStay, PerformStays DEF RcvInSynSent, Arrives, Kept
<1>4. ASSUME NEW p, RcvWhileClosed(h, s, p)
      PROVE  Kept /\ Running
  BY <1>4, CommandsStay DEF RcvWhileClosed, Arrives
<1>5. ASSUME NEW p, RcvElsewhere(h, s, p)
      PROVE  Kept /\ Running
  BY <1>5, PerformStays DEF RcvElsewhere, Arrives
<1> QED
  BY <1>1, <1>2, <1>3, <1>4, <1>5 DEF RcvSegment

LEMMA TimersKeep ==
  ASSUME NEW h, NEW p, LastSymbol(h, p) \/ TimerFires(h, p)
  PROVE  Kept /\ Running
BY PerformStays DEF LastSymbol, TimerFires, Kept

\* Nothing has restarted after a step that restarts something.
LEMMA OnceBefore ==
  ASSUME Kept, PortsServeOnce'
  PROVE  PortsServeOnce
BY DEF Kept, PortsServeOnce, AppKind

LEMMA NextCalls ==
  ASSUME HostsInv, TypesInv, AppsInv, DataInv, CallsInv, [Next]_vars
  PROVE  CallsInv'
<1> SUFFICES ASSUME PortsServeOnce'
             PROVE  CallsInv'
  BY DEF CallsInv
<1>1. ASSUME Kept, Running
      PROVE  Undisturbed
  BY <1>1, OnceBefore DEF Undisturbed
<1>2. ASSUME NEW a \in DOMAIN world.apps,
             ClientConnects(a) \/ StopTimePasses(a) \/ AppStep(a[1], a)
      PROVE  CallsInv'
  <2>1. Undisturbed
    BY <1>1, <1>2, AppsKeep
  <2> QED
    BY <1>2, <2>1, ConnectGoesOn, StopTimeGoesOn, AppGoesOn
<1>3. ASSUME NEW s \in wire, RcvSegment(s.dst, s) \/ RcvWhileDown(s) \/ LoseSegment(s)
      PROVE  CallsInv'
  <2>1. Undisturbed
    BY <1>1, <1>3, SegmentsKeep
  <2> QED
    BY <1>3, <2>1, SegmentGoesOn, LoseGoesOn
<1>4. ASSUME NEW h \in Host, Crash(h) \/ Shutdown(h) \/ Start(h)
      PROVE  CallsInv'
  <2>1. operations' = operations + 1
    BY <1>4 DEF Crash, Shutdown, Start, Operates
  <2>2. operations \in Nat
    <3>1. world.maxOperations \in Nat
      BY ScenariosAssumption DEF HostsInv
    <3> QED
      BY <3>1 DEF TypesInv
  <2>3. operations' = 0
    BY DEF PortsServeOnce
  <2> QED
    BY <2>1, <2>2, <2>3
<1>5. ASSUME NEW h \in Host, NEW p \in Pointer, LastSymbol(h, p) \/ TimerFires(h, p)
      PROVE  CallsInv'
  <2>1. Undisturbed
    BY <1>1, <1>5, TimersKeep
  <2> QED
    BY <1>5, <2>1, LastSymbolGoesOn, TimerGoesOn
<1>6. CASE UNCHANGED vars
  <2>1. Kept /\ tables' = tables /\ up' = up /\ sockets' = sockets /\ toApp' = toApp
        /\ wire' = wire /\ error' = error
    BY <1>6 DEF vars, Kept
  <2>2. PortsServeOnce
    BY <2>1, OnceBefore
  <2>3. ClosesInTime' /\ (Running' <=> Running)
    BY <2>1, <2>2 DEF CallsInv, ClosesInTime, Running
  <2>4. world' = world
    BY <2>1 DEF Kept
  <2>5. Shapes'
    <3>1. \A h \in Host : \A p \in DOMAIN tables[h].conns : ConnShape(h, tables[h].conns[p])'
      BY <2>1, <2>2, <2>4, SameWorld DEF ConnShape, Shapes, CallsInv
    <3>2. \A s \in wire : SegmentShape(s)'
      BY <2>2, <2>4, SameWorld DEF SegmentShape, Carries, Shapes, CallsInv
    <3> QED
      BY <2>1, <2>2, <3>1, <3>2 DEF Shapes, CallsInv
  <2>6. Running => Pends'
    BY <2>1, <2>2 DEF CallsInv, Pends, Pending, AwaitsClose
  <2>7. Running => CallsFit'
    <3>1. ASSUME NEW a \in Clients, NEW port \in Ephemeral, CallFits(a, port)
          PROVE  CallFits(a, port)'
      <4>1. Call(a, port)' = Call(a, port)
        BY <2>1, <2>4, SameWorld DEF Call, KindsUp, KindsDown
      <4>2. OneEach(a, port)' <=> OneEach(a, port)
        BY <2>1, <2>4, SameWorld DEF OneEach, Alike
      <4>3. Finished(a)' <=> Finished(a)
        BY <2>1 DEF Finished, Quiet, AllClosed
      <4>4. Awaited(Call(a, port))' <=> Awaited(Call(a, port))
        BY <2>4, <4>1 DEF Awaited
      <4> DEFINE k == Call(a, port)
      <4>5. k' = k
        BY <4>1
      <4> HIDE DEF k
      <4> QED
        BY <2>4, <3>1, <4>2, <4>3, <4>4, <4>5, SameWorld DEF CallFits, k, Fits, Unused, Refused,
           Calling, Answered, Opening, Opened, Ending, Over
    <3>2. Clients' = Clients
      BY <2>4, SameWorld
    <3> QED
      BY <2>2, <3>1, <3>2 DEF CallsInv, CallsFit
  <2> QED
    BY <2>2, <2>3, <2>5, <2>6, <2>7 DEF CallsInv
<1> QED
  BY <1>2, <1>3, <1>4, <1>5, <1>6 DEF Next


LEMMA CallsHold == Spec => []CallsInv
<1>1. Init => CallsInv
  BY InitCalls
<1>2. HostsInv /\ TypesInv /\ AppsInv /\ DataInv /\ CallsInv /\ [Next]_vars => CallsInv'
  BY NextCalls
<1> QED
  BY <1>1, <1>2, HostsHold, TypesHold, AppsHold, DataHolds, PTL DEF Spec

\* A call in SYN_SENT has its SYN, or an answer that ends it, on its way.
LEMMA SynIsAnswered ==
  ASSUME Undisturbed
  PROVE  SynAnswered
<1> SUFFICES ASSUME Running, ~world.loses, NEW h \in Host, NEW p \in DOMAIN tables[h].conns,
                    tables[h].conns[p].fsm = "SYN_SENT"
             PROVE  LET port == tables[h].conns[p].pair.localPort
                    IN  \E s \in wire :
                          \/ s.kind = "SYN" /\ s.src = h /\ s.srcPort = port
                          \/ s.kind \in {"SYNACK", "RSTACK"} /\ s.dst = h /\ s.destPort = port
  BY DEF SynAnswered
<1> DEFINE conn == tables[h].conns[p]
<1>1. PICK a \in Clients, port \in Ephemeral :
         AtClient(a, port, h, conn) \/ AtServer(a, port, h, conn)
  BY EndOf
<1> DEFINE k == Call(a, port)
<1>2. CallFits(a, port)
  BY CallsRun DEF CallsFit
<1>3. ~AtServer(a, port, h, conn)
  <2>1. AtServer(a, port, h, conn) => k.server = {"SYN_SENT"} /\ Fits(k)
    BY <1>2 DEF AtServer, CallFits
  <2> HIDE DEF k
  <2> QED
    BY <2>1 DEF Fits, Calling, Answered, Opening, Opened, Ending, Over
<1>4. /\ h = a[1] /\ conn.pair.localPort = port /\ k.client = {"SYN_SENT"}
  BY <1>1, <1>3, KeysOf DEF AtClient
<1>5. (Fits(k) \/ Refused(k)) /\ (k.up # {} \/ k.down # {})
  BY <1>2, <1>4 DEF CallFits, Awaited
<1>6. k.up = KindsUp(a, port, wire) /\ k.down = KindsDown(a, port, wire)
  BY DEF Call
<1> HIDE DEF k, conn
<1>7. k.up \subseteq {"SYN"} /\ k.down \subseteq {"SYNACK", "RSTACK"}
  BY <1>4, <1>5 DEF Fits, Calling, Answered, Opening, Opened, Ending, Over, Refused
<1>8. \/ \E s \in wire : Upward(a, port, s) /\ s.kind = "SYN"
      \/ \E s \in wire : Downward(a, port, s) /\ s.kind \in {"SYNACK", "RSTACK"}
  BY <1>5, <1>6, <1>7 DEF KindsUp, KindsDown
<1> QED
  BY <1>4, <1>8 DEF Upward, Downward, conn

\* While nothing has restarted and no host calls twice, a call that has gone out is answered
\* unless something is lost, no application closes a connection that is gone or closing,
\* and no client is told a window of 0 (RQConnection::process_OPEN_ACTIVE, processSegment).
THEOREM UndisturbedHold == Spec => []UndisturbedCalls
<1>1. ASSUME HostsInv, TypesInv, AppsInv, DataInv, CallsInv
      PROVE  UndisturbedCalls
  <2> SUFFICES ASSUME PortsServeOnce
               PROVE  SynAnswered /\ ClosesInTime /\ NoWindowOfZero
    BY DEF UndisturbedCalls
  <2>1. ClosesInTime /\ Shapes
    BY <1>1 DEF CallsInv
  <2>2. SynAnswered
    <3>1. CASE Running
      BY <1>1, <3>1, SynIsAnswered DEF Undisturbed
    <3>2. CASE ~Running
      BY <3>2 DEF SynAnswered
    <3> QED
      BY <3>1, <3>2
  <2>3. NoWindowOfZero
    <3>1. ASSUME NEW c \in Host, NEW s \in Host, NEW p \in DOMAIN tables[c].conns,
                 NEW q \in DOMAIN tables[s].conns, Ends(c, p, s, q)
          PROVE  tables[c].conns[p].st.snd_wnd > 0
      <4>1. ConnShape(c, tables[c].conns[p])
        BY <2>1, <3>1 DEF Shapes
      <4> QED
        BY <3>1, <4>1 DEF ConnShape, Ends
    <3> QED
      BY <3>1 DEF NoWindowOfZero, ForAllEnds
  <2> QED
    BY <2>1, <2>2, <2>3
<1> QED
  BY <1>1, HostsHold, TypesHold, AppsHold, DataHolds, CallsHold, PTL

=============================================================================
