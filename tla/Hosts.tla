-------------------------------- MODULE Hosts --------------------------------
(***************************************************************************)
(* Hosts with several connections: each has a RaptorQ module with its      *)
(* tables and applications on its gates.  Connections are opened, forked   *)
(* from listeners, closed, timed out and removed; hosts crash, shut down   *)
(* and start; segments are reordered, lost, and arrive late at tables that *)
(* have moved on.                                                          *)
(*                                                                         *)
(* A command is executed in the step of the application that issues it:    *)
(* ConnectionLifecycle separates the two.  The data phase is the last      *)
(* symbol alone (PullTransfer has the rest).  The retransmission timer     *)
(* fires once, for the last time.                                          *)
(***************************************************************************)
EXTENDS RQStates, HeaderOptions, HostTables, HostApps

CONSTANTS
    Scenarios       \* one of which is played

\* A scenario: the applications and the parameters of the hosts, which of them restart,
\* whether segments are lost and stop times pass; bounds on the ids of sockets and
\* connections, and on the crashes, shutdowns and starts.  A host has one server at most,
\* which listens below the ephemeral ports; ids are handed out from 1.  Sinks and thread
\* servers refuse lifecycle operations; a window and a segment are not empty.
ASSUME ScenariosAssumption ==
    \A w \in Scenarios :
        /\ DOMAIN w.apps \subseteq Host \X Nat
        /\ IsFiniteSet(DOMAIN w.apps)
        /\ Cardinality(DOMAIN w.apps) <= w.maxId
        /\ \A a \in DOMAIN w.apps :
              LET app == w.apps[a]
              IN  /\ app.kind \in {"client", "sink", "echo", "threads"}
                  /\ app.id \in 1 .. Cardinality(DOMAIN w.apps)
                  /\ app.kind = "client" => app.peer \in Host
                  /\ app.kind # "client" =>
                        /\ app.port \notin Ephemeral
                        /\ \A b \in DOMAIN w.apps \ {a} :
                              b[1] = a[1] => w.apps[b].kind = "client"
        /\ DOMAIN w.par = Host
        /\ \A h \in Host : w.par[h] \in Parameters /\ ~InvalidWindow(w.par[h])
        /\ w.restarts \subseteq Host
        /\ \A a \in DOMAIN w.apps :
              a[1] \in w.restarts => w.apps[a].kind \in {"client", "echo"}
        /\ w.loses \in BOOLEAN
        /\ w.stops \in BOOLEAN
        /\ w.maxId \in Nat
        /\ w.maxOperations \in Nat

\* Every connection has an id of its own, and room for it: memory is not modelled.
ASSUME PointersAssumption ==
    IsFiniteSet(Pointer) => \A w \in Scenarios : w.maxId <= Cardinality(Pointer)
VARIABLES
    world,       \* the scenario
    tables,      \* the tables of each host's RaptorQ module
    up,          \* hosts whose node status is UP
    sockets,     \* the socket of each application, with a client's timer
    threads,     \* socketMap of a thread server, at each host
    toApp,       \* indications on their way to the applications of a host
    wire,        \* segments in the network: equal ones are one
    nextId,      \* getUniqueNumber
    operations,  \* lifecycle operations so far
    error        \* the runtime error that ended the simulation, and where

vars == <<world, tables, up, sockets, threads, toApp, wire, nextId, operations, error>>

appVars == <<sockets, threads>>

Running == error.reason = "none"

\* An application is <<host, gate>>.
AppKind(a) == world.apps[a].kind
AppsOf(h) == {a \in DOMAIN world.apps : a[1] = h}
Listener(a) == AppKind(a) \in {"sink", "echo", "threads"}

Fail(reason, h) ==
    /\ error' = [reason |-> reason, at |-> h]
    /\ UNCHANGED <<world, tables, up, toApp, wire, nextId, operations>>

----------------------------------------------------------------------------
\* Connections and segments.

Connection(gate, connId, pair, fsm, timers, st) ==
    [gate |-> gate, connId |-> connId, pair |-> pair, fsm |-> fsm, timers |-> timers,
     done |-> FALSE, st |-> st]

NoOptions == [mss |-> 0, ws |-> -1, ts |-> FALSE]

Segment(kind, src, dst, srcPort, destPort) ==
    [kind |-> kind, src |-> src, dst |-> dst, srcPort |-> srcPort, destPort |-> destPort,
     opts |-> NoOptions, window |-> 0, copy |-> 1]

\* Segments of a connection; the network layer fills in an unspecified source.  A FIN is
\* sent twice.
Sent(h, pair, kind) ==
    LET s == Segment(kind, h, pair.remoteAddr, pair.localPort, pair.remotePort)
    IN  IF kind = "FIN" THEN {s, [s EXCEPT !.copy = 2]} ELSE {s}

SentSyn(h, pair, kind, st) ==
    LET s == Segment(kind, h, pair.remoteAddr, pair.localPort, pair.remotePort)
    IN  {[s EXCEPT !.opts = SynOptions(st, kind = "SYN"), !.window = SynWindow(st)]}

Reply(s, kind) == {Segment(kind, s.dst, s.src, s.destPort, s.srcPort)}

CarriesAck == {"SYNACK", "FIRSTACK", "FIN", "ACK", "RSTACK"}

Indication(conn, kind) == [gate |-> conn.gate, connId |-> conn.connId, kind |-> kind]

----------------------------------------------------------------------------
\* What a connection p of host h does in an event: it sends, tells its application, and
\* changes state.  queue are the indications already on their way, gone the segment it
\* has received; a connection that a timer closes is not removed.
Perform(h, p, event, sends, tells, armed, st, queue, gone, removes) ==
    LET T == tables[h]
        conn == T.conns[p]
        new == NextState(conn.fsm, event)
        after == IF sends = {} THEN st ELSE UpdateRcvWnd(st)
        changed == [conn EXCEPT !.fsm = new, !.timers = EntryTimers(conn.fsm, new, armed),
                                !.st = after]
        told == tells \o EntryTells(conn.fsm, new, event)
        moved == [T EXCEPT !.conns = Put(@, p, changed)]
    IN  IF sends # {} /\ ~WindowFits(after) THEN Fail("WINDOW", h)
        ELSE IF sends # {} /\ conn.pair.remoteAddr = NoHost THEN Fail("NO_PEER", h)
        ELSE /\ tables' = [tables EXCEPT ![h] =
                    IF removes /\ new = "CLOSED" THEN RemoveConnection(moved, p) ELSE moved]
             /\ toApp' = [toApp EXCEPT ![h] =
                    queue \o [i \in 1 .. Len(told) |-> Indication(conn, told[i])]]
             /\ wire' = (wire \ gone) \cup UNION {Sent(h, conn.pair, k) : k \in sends}
             /\ UNCHANGED <<world, up, nextId, operations, error>>

Closing == {"FIN_WAIT_1", "FIN_WAIT_2", "CLOSING", "LAST_ACK", "TIME_WAIT"}

\* The CLOSE command of an application.
Close(h, gate, connId, queue) ==
    LET p == FindConnForApp(tables[h], gate, connId)
        conn == tables[h].conns[p]
        early == conn.fsm \in {"LISTEN", "SYN_SENT"}
    IN  IF ~up[h]
        THEN /\ toApp' = [toApp EXCEPT ![h] = queue]
             /\ UNCHANGED <<world, tables, up, wire, nextId, operations, error>>
        ELSE IF p = NoConn THEN Fail("NOT_OPEN", h)
        ELSE IF conn.fsm = "CLOSED" THEN Fail("EVENT_WHILE_CLOSED", h)
        ELSE IF conn.fsm \in Closing THEN Fail("DUPLICATE_CLOSE", h)
        ELSE Perform(h, p, "CLOSE", IF early THEN {} ELSE {"FIN"}, <<>>,
                     IF early THEN conn.timers ELSE conn.timers \cup {"REXMIT"}, conn.st,
                     queue, {}, TRUE)

\* The listener an application opens, in a host with tables T.
Listen(T, a, connId) ==
    LET p == FreshPointer(T)
        pair == Listening(NoHost, world.apps[a].port)
        st == Configure(Unconfigured, world.par[a[1]])
    IN  AddSockPair(CreateConnection(T, p, Connection(a[2], connId, Closed, "LISTEN", {}, st)),
                    p, pair)

Init ==
    /\ world \in Scenarios
    /\ sockets = [a \in DOMAIN world.apps |->
                    IF Listener(a) THEN ListeningSocket(world.apps[a].id)
                                   ELSE InitialClient(world.apps[a].id)]
    /\ tables = [h \in Host |->
                    LET listeners == {a \in AppsOf(h) : Listener(a)}
                    IN  IF listeners = {} THEN Empty
                        ELSE LET a == CHOOSE a \in listeners : TRUE
                             IN  Listen(Empty, a, world.apps[a].id)]
    /\ up = [h \in Host |-> TRUE]
    /\ threads = [h \in Host |-> NoThreads]
    /\ toApp = [h \in Host |-> <<>>]
    /\ wire = {}
    /\ nextId = Cardinality(DOMAIN world.apps) + 1
    /\ operations = 0
    /\ error = [reason |-> "none", at |-> NoHost]

----------------------------------------------------------------------------
\* Applications.

\* OPEN_ACTIVE: a new connection and its SYN; a host that is down drops the command.
OpenActive(h, gate, connId, app) ==
    LET T == tables[h]
        p == FreshPointer(T)
        st == UpdateRcvWnd(Configure(Unconfigured, world.par[h]))
        created == CreateConnection(T, p,
                       Connection(gate, connId, Closed, "SYN_SENT", {}, WriteSyn(st, TRUE)))
        pair == SockPair(NoHost, app.peer, GetEphemeralPort(T), app.port)
    IN  IF ~up[h]
        THEN /\ nextId' = nextId + 1
             /\ UNCHANGED <<world, tables, up, toApp, wire, operations, error>>
        ELSE IF Exhausted(T) THEN Fail("PORTS_EXHAUSTED", h)
        ELSE IF InUse(T, pair) THEN Fail("ADDRESS_IN_USE", h)
        ELSE /\ tables' = [tables EXCEPT ![h] =
                    [AddSockPair(created, p, pair) EXCEPT !.lastPort = pair.localPort]]
             /\ wire' = wire \cup SentSyn(h, pair, "SYN", st)
             /\ nextId' = nextId + 1
             /\ UNCHANGED <<world, up, toApp, operations, error>>

\* Timers run after the messages already on their way.
ClientConnects(a) ==
    /\ Running
    /\ AppKind(a) = "client"
    /\ sockets[a].timer = "CONNECT"
    /\ toApp[a[1]] = <<>>
    /\ nextId <= world.maxId
    /\ sockets' = [sockets EXCEPT ![a] = ClientConnecting(@, nextId)]
    /\ OpenActive(a[1], a[2], nextId, world.apps[a])
    /\ UNCHANGED threads

StopTimePasses(a) ==
    /\ Running
    /\ world.stops
    /\ AppKind(a) = "client"
    /\ ~sockets[a].over
    /\ sockets' = [sockets EXCEPT ![a].over = TRUE]
    /\ UNCHANGED <<world, tables, up, threads, toApp, wire, nextId, operations, error>>

Consume(h) ==
    /\ toApp' = [toApp EXCEPT ![h] = Tail(@)]
    /\ UNCHANGED <<world, tables, up, wire, nextId, operations, error>>

\* The first indication for an application of h.
Receives(h, a, kinds) ==
    /\ Running
    /\ toApp[h] # <<>>
    /\ a = <<h, Head(toApp[h]).gate>>
    /\ AppKind(a) \in kinds

ClientReceives(h, a) ==
    /\ Receives(h, a, {"client"})
    /\ LET i == Head(toApp[h])
       IN  /\ sockets' = [sockets EXCEPT ![a] = ClientAfter(@, i.kind)]
           /\ IF i.connId # sockets[a].connId THEN Fail("WRONG_SOCKET", h)
              ELSE IF i.kind = "PEER_CLOSED" THEN Close(h, i.gate, i.connId, Tail(toApp[h]))
              ELSE Consume(h)
    /\ UNCHANGED threads

\* A sink only counts.
SinkReceives(h, a) ==
    /\ Receives(h, a, {"sink"})
    /\ Consume(h)
    /\ UNCHANGED appVars

EchoReceives(h, a) ==
    /\ Receives(h, a, {"echo"})
    /\ LET i == Head(toApp[h])
       IN  IF ~up[h] THEN Fail("APP_DOWN", h)
           ELSE IF i.kind = "PEER_CLOSED" THEN Close(h, i.gate, i.connId, Tail(toApp[h]))
           ELSE Consume(h)
    /\ UNCHANGED appVars

ThreadReceives(h, a) ==
    /\ Receives(h, a, {"threads"})
    /\ LET i == Head(toApp[h])
       IN  /\ threads' = [threads EXCEPT ![h] = ThreadsAfter(@, i.connId, i.kind)]
           /\ IF i.kind = "PEER_CLOSED" THEN Close(h, i.gate, i.connId, Tail(toApp[h]))
              ELSE Consume(h)
    /\ UNCHANGED sockets

----------------------------------------------------------------------------
\* Segments.  s has arrived at h for connection p.
Arrives(h, s, p) ==
    /\ Running
    /\ s.dst = h
    /\ up[h]
    /\ p = FindConnForSegment(tables[h], s.src, h, s.srcPort, s.destPort)

Answer(s, kinds) ==
    /\ wire' = (wire \ {s}) \cup UNION {Reply(s, k) : k \in kinds}
    /\ UNCHANGED <<world, tables, up, sockets, threads, toApp, nextId, operations, error>>

RcvWhileDown(s) ==
    /\ Running
    /\ ~up[s.dst]
    /\ Answer(s, {})

\* Wrong: a SYN is refused without an ACK bit, which SYN_SENT ignores.
RcvUnknownPlainReset(h, s) ==
    /\ Arrives(h, s, NoConn)
    /\ Answer(s, IF s.kind \in {"RST", "RSTACK"} THEN {} ELSE {"RST"})

\* segmentArrivalWhileClosed
RcvUnknown(h, s) ==
    /\ Arrives(h, s, NoConn)
    /\ Answer(s, CASE s.kind \in {"RST", "RSTACK"} -> {}
                   [] s.kind \in CarriesAck \ {"RSTACK"} -> {"RST"}
                   [] OTHER -> {"RSTACK"})

\* cloneListeningConnection configures the connection it is called on, not the clone.
Clone(conn, localPort) ==
    Connection(conn.gate, conn.connId, Listening(conn.pair.localAddr, localPort),
               "LISTEN", {}, Unconfigured)

\* processSegmentInListen: the connection that listened takes the call, a clone of it
\* goes on listening.
Accept(h, s, p) ==
    LET T == tables[h]
        conn == T.conns[p]
        pair == SockPair(h, s.src, s.destPort, s.srcPort)
        st == UpdateRcvWnd(ReadOptions(UpdateSndWnd(Configure(conn.st, world.par[h]), s.window),
                                       s.opts))
        clone == Clone(conn, s.destPort)
        forked == AddForkedConnection(T, p, pair, nextId, FreshPointer(T), clone)
    IN  /\ nextId <= world.maxId
        /\ IF InUse(UpdateSockPair(T, p, pair), clone.pair) THEN Fail("ADDRESS_IN_USE", h)
           ELSE IF ~WindowFits(st) THEN Fail("WINDOW", h)
           ELSE /\ tables' = [tables EXCEPT ![h] =
                       [forked EXCEPT !.conns[p].fsm = NextState(@, "RCV_SYN"),
                                      !.conns[p].timers = @ \cup {"CONN_ESTAB"},
                                      !.conns[p].st = WriteSyn(st, FALSE)]]
                /\ wire' = (wire \ {s}) \cup SentSyn(h, pair, "SYNACK", st)
                /\ nextId' = nextId + 1
                /\ UNCHANGED <<world, up, toApp, operations, error>>

RcvInListen(h, s, p) ==
    /\ Arrives(h, s, p)
    /\ tables[h].conns[p].fsm = "LISTEN"
    /\ \/ s.kind = "SYN" /\ Accept(h, s, p) /\ UNCHANGED appVars
       \/ s.kind = "FIRSTACK" /\ Answer(s, {"RST"})

\* SYN_SENT: the local address is learnt, the options are read and the handshake ends.
RcvInSynSent(h, s, p) ==
    /\ Arrives(h, s, p)
    /\ tables[h].conns[p].fsm = "SYN_SENT"
    /\ LET T == UpdateSockPair(tables[h], p, SockPair(h, s.src, s.destPort, s.srcPort))
           conn == T.conns[p]
           st == UpdateRcvWnd(ReadOptions(UpdateSndWnd(conn.st, s.window), s.opts))
       IN  CASE s.kind = "SYNACK" ->
                  IF ~WindowFits(st) THEN Fail("WINDOW", h)
                  ELSE /\ tables' = [tables EXCEPT ![h] =
                              [T EXCEPT !.conns[p].fsm = NextState(@, "RCV_SYN_ACK"),
                                        !.conns[p].st = st]]
                       /\ wire' = (wire \ {s}) \cup Sent(h, conn.pair, "FIRSTACK")
                       /\ toApp' = [toApp EXCEPT ![h] = Append(@, Indication(conn, "ESTABLISHED"))]
                       /\ UNCHANGED <<world, up, nextId, operations, error>>
             [] s.kind = "RSTACK" ->
                  Perform(h, p, "RCV_RST", {}, <<"CONNECTION_RESET">>, conn.timers, conn.st,
                          toApp[h], {s}, TRUE)
             [] OTHER -> Perform(h, p, "IGNORE", {}, <<>>, conn.timers, conn.st,
                                 toApp[h], {s}, TRUE)
    /\ UNCHANGED appVars

\* performStateTransition's assertion: the connection was closed by a timer.
RcvWhileClosed(h, s, p) ==
    /\ Arrives(h, s, p)
    /\ tables[h].conns[p].fsm = "CLOSED"
    /\ Fail("EVENT_WHILE_CLOSED", h)
    /\ UNCHANGED appVars

\* processSegment1stThru8th; what flows while ESTABLISHED is left out.
RcvElsewhere(h, s, p) ==
    /\ Arrives(h, s, p)
    /\ LET conn == tables[h].conns[p]
           o == CASE s.kind = "FIN" -> FinOutcome(conn.fsm, conn.timers)
                  [] s.kind # "FIN" /\ conn.fsm = "ESTABLISHED" ->
                        Outcome("IGNORE", <<>>, <<>>, conn.timers)
                  [] OTHER -> OtherOutcome(conn.fsm, conn.timers)
       IN  /\ conn.fsm \notin {"SYN_SENT", "CLOSED"}
           /\ conn.fsm = "LISTEN" => s.kind \notin {"SYN", "FIRSTACK"}
           /\ Perform(h, p, o.event, {o.sends[i] : i \in 1 .. Len(o.sends)}, o.tells, o.timers,
                      conn.st, toApp[h], {s}, TRUE)
    /\ UNCHANGED appVars

\* The last symbol of a transfer, told as PEER_CLOSED.
LastSymbol(h, p) ==
    /\ Running
    /\ p \in DOMAIN tables[h].conns
    /\ LET conn == tables[h].conns[p]
       IN  /\ conn.fsm = "ESTABLISHED"
           /\ conn.pair.localPort \notin Ephemeral
           /\ ~conn.done
           /\ tables' = [tables EXCEPT ![h].conns[p].done = TRUE]
           /\ toApp' = [toApp EXCEPT ![h] = Append(@, Indication(conn, "PEER_CLOSED"))]
    /\ UNCHANGED <<world, up, sockets, threads, wire, nextId, operations, error>>

\* Timers: the end of CONN_ESTAB and of 2MSL, and the retransmission timer's last tick.
TimerFires(h, p) ==
    /\ Running
    /\ p \in DOMAIN tables[h].conns
    /\ LET conn == tables[h].conns[p]
           Fires(timer, event, tells) ==
               /\ timer \in conn.timers
               /\ Perform(h, p, event, {}, tells, conn.timers \ {timer}, conn.st, toApp[h], {},
                          FALSE)
       IN  \/ Fires("CONN_ESTAB", "TIMEOUT_CONN_ESTAB", <<>>)
           \/ Fires("TIMEOUT_2MSL", "TIMEOUT_2MSL", <<>>)
           \/ Fires("REXMIT", "ABORT", <<"TIMED_OUT">>)
    /\ UNCHANGED appVars

----------------------------------------------------------------------------
\* Lifecycle operations, on hosts with clients and echo servers: the others refuse them.

Operates(h) ==
    /\ Running
    /\ h \in world.restarts
    /\ operations < world.maxOperations
    /\ operations' = operations + 1
    /\ UNCHANGED <<world, threads>>

GoesDown(h) ==
    /\ up' = [up EXCEPT ![h] = FALSE]
    /\ tables' = [tables EXCEPT ![h] = Empty]
    /\ UNCHANGED <<toApp, wire, nextId, error>>

ClientsOf(h) == {a \in AppsOf(h) : AppKind(a) = "client"}

\* cancelEvent refuses a timer that has been deleted, scheduleAt one that is scheduled.
LacksTimer(h) == \E a \in ClientsOf(h) : sockets[a].timer = "NONE"
TimerTwice(h) == \E a \in ClientsOf(h) : StartsTimer(sockets[a]) /\ sockets[a].timer = "CONNECT"

RefuseOperation(reason, h) ==
    /\ error' = [reason |-> reason, at |-> h]
    /\ UNCHANGED <<tables, up, sockets, toApp, wire, nextId>>

\* The client's timer is cancelled, its socket does not hear of it.
Crash(h) ==
    /\ Operates(h)
    /\ up[h]
    /\ IF LacksTimer(h) THEN RefuseOperation("NO_TIMER", h)
       ELSE /\ GoesDown(h)
            /\ sockets' = [a \in DOMAIN sockets |->
                   IF a \in ClientsOf(h) THEN ClientStopped(sockets[a]) ELSE sockets[a]]

\* The applications close, but their commands reach a module that is down.
Shutdown(h) ==
    /\ Operates(h)
    /\ up[h]
    /\ IF LacksTimer(h) THEN RefuseOperation("NO_TIMER", h)
       ELSE /\ GoesDown(h)
            /\ sockets' = [a \in DOMAIN sockets |->
                   CASE a \in ClientsOf(h) -> ClientShutDown(sockets[a])
                     [] a \in AppsOf(h) \ ClientsOf(h) -> CloseSocket(sockets[a])
                     [] OTHER -> sockets[a]]

\* The client schedules its timer, which may already be set by a failure it was told of
\* while it was down; the echo server listens with a renewed socket.
Start(h) ==
    /\ Operates(h)
    /\ ~up[h]
    /\ toApp[h] = <<>>
    /\ LET listeners == AppsOf(h) \ ClientsOf(h)
       IN  /\ listeners # {} => nextId <= world.maxId
           /\ IF TimerTwice(h) THEN RefuseOperation("TIMER_TWICE", h)
              ELSE /\ up' = [up EXCEPT ![h] = TRUE]
                   /\ nextId' = nextId + Cardinality(listeners)
                   /\ sockets' = [a \in DOMAIN sockets |->
                         CASE a \in ClientsOf(h) -> ClientStarted(sockets[a])
                           [] a \in listeners -> ListeningSocket(nextId)
                           [] OTHER -> sockets[a]]
                   /\ tables' = [tables EXCEPT ![h] =
                         IF listeners = {} THEN @
                         ELSE Listen(@, CHOOSE a \in listeners : TRUE, nextId)]
                   /\ UNCHANGED <<toApp, wire, error>>

LoseSegment(s) ==
    /\ Running
    /\ world.loses
    /\ Answer(s, {})

----------------------------------------------------------------------------
AppStep(h, a) ==
    \/ ClientReceives(h, a)
    \/ SinkReceives(h, a)
    \/ EchoReceives(h, a)
    \/ ThreadReceives(h, a)

RcvSegment(h, s) ==
    \/ RcvUnknown(h, s)
    \/ \E p \in DOMAIN tables[h].conns :
          \/ RcvInListen(h, s, p)
          \/ RcvInSynSent(h, s, p)
          \/ RcvWhileClosed(h, s, p)
          \/ RcvElsewhere(h, s, p)

Next ==
    \/ \E a \in DOMAIN world.apps : ClientConnects(a) \/ StopTimePasses(a) \/ AppStep(a[1], a)
    \/ \E s \in wire : RcvSegment(s.dst, s) \/ RcvWhileDown(s) \/ LoseSegment(s)
    \/ \E h \in Host :
          \/ Crash(h) \/ Shutdown(h) \/ Start(h)
          \/ \E p \in Pointer : LastSymbol(h, p) \/ TimerFires(h, p)

Spec == Init /\ [][Next]_vars

----------------------------------------------------------------------------
(* Properties. *)

Window == 0 .. RQ_MAX_WIN

TypeOK ==
    /\ world \in Scenarios
    /\ \A h \in Host :
          /\ DOMAIN tables[h].conns \subseteq Pointer
          /\ tables[h].lastPort \in Ephemeral
          /\ \A p \in DOMAIN tables[h].conns :
                LET conn == tables[h].conns[p]
                IN  /\ conn.connId \in 1 .. world.maxId
                    /\ conn.fsm \in States
                    /\ conn.timers \subseteq Timers
                    /\ conn.st.snd_wnd \in Window
                    /\ conn.st.snd_wnd_scale \in 0 .. 14
    /\ up \in [Host -> BOOLEAN]
    /\ \A a \in DOMAIN world.apps :
          /\ sockets[a].state \in SocketStates
          /\ sockets[a].connId \in 1 .. world.maxId
          /\ AppKind(a) = "client" => sockets[a].timer \in ClientTimers /\ sockets[a].over \in BOOLEAN
    /\ \A h \in Host : \A id \in DOMAIN threads[h] :
          id \in 1 .. world.maxId /\ threads[h][id].state \in SocketStates
    /\ \A s \in wire : s.window \in Window /\ s.dst \in Host
    /\ nextId \in 1 .. world.maxId + 1
    /\ operations \in 0 .. world.maxOperations

\* rqAppConnMap, rqConnMap and usedEphemeralPorts describe the connections of the host and
\* nothing else, through forks, removals, timeouts and resets: no entry dangles, none is
\* missing, and each port is counted as often as it is used.
TablesAgree == \A h \in Host : Agree(tables[h])

\* No two connections of a host have the same ephemeral port (getEphemeralPort).
PortsApart ==
    \A h \in Host : \A p, q \in DOMAIN tables[h].conns :
        LET port(r) == tables[h].conns[r].pair.localPort
        IN  p # q /\ port(p) = port(q) => port(p) \notin Ephemeral

\* Forking leaves a server its listener: the connection under the id of the listening
\* socket, reached by every caller the host does not know yet (addForkedConnection).
ListenerKept ==
    \A a \in DOMAIN world.apps :
        Listener(a) /\ up[a[1]] =>
            LET T == tables[a[1]]
                p == FindConnForApp(T, a[2], sockets[a].connId)
            IN  /\ p # NoConn
                /\ T.conns[p].fsm = "LISTEN"
                /\ T.conns[p].pair = Listening(NoHost, world.apps[a].port)
                /\ \A h \in Host, port \in Ephemeral :
                      LET q == FindConnForSegment(T, h, a[1], port, world.apps[a].port)
                      IN  T.conns[q].pair.remoteAddr # h => T.conns[q].fsm = "LISTEN"

\* The two ends of a transfer: a client's connection and the one that serves it.
Ends(c, p, s, q) ==
    LET client == tables[c].conns[p]
        server == tables[s].conns[q]
    IN  /\ client.fsm = "ESTABLISHED"
        /\ server.fsm = "ESTABLISHED"
        /\ client.pair.localPort \in Ephemeral
        /\ client.pair = SockPair(c, s, server.pair.remotePort, server.pair.localPort)
        /\ server.pair = SockPair(s, c, client.pair.remotePort, client.pair.localPort)

ForAllEnds(P(_, _, _, _)) ==
    \A c, s \in Host : \A p \in DOMAIN tables[c].conns, q \in DOMAIN tables[s].conns :
        Ends(c, p, s, q) => P(c, s, tables[c].conns[p].st, tables[s].conns[q].st)

\* Window scaling and timestamps are enabled for a connection if both endpoints support
\* them (RaptorQ.ned:209, 211), at both ends, and both use the smaller of the two segment
\* sizes (processMSSOption); each end scales by what the other has announced.
OptionsAgree ==
    LET Agreed(c, s, client, server) ==
            LET both(support) == world.par[c][support] /\ world.par[s][support]
            IN  /\ client.ws_enabled = both("windowScalingSupport")
                /\ server.ws_enabled = client.ws_enabled
                /\ client.ts_enabled = both("timestampSupport")
                /\ server.ts_enabled = client.ts_enabled
                /\ client.snd_mss = server.snd_mss
                /\ client.snd_mss \in {world.par[c].mss, world.par[s].mss}
                /\ \A h \in {c, s} : client.snd_mss <= world.par[h].mss
                /\ client.ws_enabled /\ client.rcv_wnd_scale <= 14
                       => server.snd_wnd_scale = client.rcv_wnd_scale
                /\ server.ws_enabled /\ server.rcv_wnd_scale <= 14
                       => client.snd_wnd_scale = server.rcv_wnd_scale
    IN  ForAllEnds(Agreed)

\* No end is told a window the other cannot buffer, and the server none of 0.  A client is
\* told 0 only by a server that scales its windows: one that answers a second call over a
\* connection that fell back to LISTEN takes the scale of the first for agreed, and sends
\* the low 16 bits (updateRcvWnd, sendSynAck).
WindowHonest ==
    LET Honest(c, s, client, server) ==
            /\ server.snd_wnd \in 1 .. client.maxRcvBuffer
            /\ client.snd_wnd \in 0 .. server.maxRcvBuffer
            /\ client.snd_wnd = 0 => server.ws_enabled /\ server.maxRcvBuffer > RQ_MAX_WIN
    IN  ForAllEnds(Honest)

Serving ==
    {"ESTABLISHED", "CLOSE_WAIT", "FIN_WAIT_1", "FIN_WAIT_2", "CLOSING", "LAST_ACK"}

\* While nothing is on its way to it, a thread server has one thread for each connection it
\* has accepted and not been told the end of: none is forgotten, none comes back
\* (RaptorQSrvHostApp::handleMessage makes one for every id it does not know).
ThreadsMatch ==
    \A a \in DOMAIN world.apps :
        LET h == a[1]
        IN  AppKind(a) = "threads" /\ toApp[h] = <<>> =>
                DOMAIN threads[h] = {tables[h].conns[p].connId : p \in
                    {q \in DOMAIN tables[h].conns :
                        tables[h].conns[q].gate = a[2] /\ tables[h].conns[q].fsm \in Serving}}

\* A client has no timer that ends SYN_SENT, and no SYN is sent again: unless something is
\* lost, the SYN or an answer that ends SYN_SENT is on its way.
SynAnswered ==
    Running /\ ~world.loses =>
        \A h \in Host : \A p \in DOMAIN tables[h].conns :
            LET port == tables[h].conns[p].pair.localPort
            IN  tables[h].conns[p].fsm = "SYN_SENT" =>
                  \E s \in wire :
                      \/ s.kind = "SYN" /\ s.src = h /\ s.srcPort = port
                      \/ s.kind \in {"SYNACK", "RSTACK"} /\ s.dst = h /\ s.destPort = port

\* No application closes a connection that is gone or closing.
ClosesInTime == error.reason \notin {"NOT_OPEN", "DUPLICATE_CLOSE"}

NoWindowOfZero ==
    LET Open(c, s, client, server) == client.snd_wnd > 0
    IN  ForAllEnds(Open)

\* Nothing has restarted, clients do not call each other, and a host has one at most, which
\* only connects again where nobody listens, or after a time-out, which leaves its port in
\* use.
PortsServeOnce ==
    /\ operations = 0
    /\ \A a, b \in DOMAIN world.apps :
          AppKind(a) = "client" /\ AppKind(b) = "client" /\ a[1] = b[1] => a = b
    /\ \A a \in DOMAIN world.apps : world.apps[a].port \notin Ephemeral

\* What a late segment of an earlier connection can disturb, and nothing else: a SYN is
\* taken by a server that still waits in TIME_WAIT, a first close becomes a second one in
\* CLOSE_WAIT, a second call of a half-open connection is answered with the wrong window.
UndisturbedCalls == PortsServeOnce => SynAnswered /\ ClosesInTime /\ NoWindowOfZero

\* What ends the simulation: ports only run out when live connections have them all, an
\* address is only in use where a second listener has been forked from a connection that
\* fell back to LISTEN, a window only fails to fit where its scale was set by hand or none
\* is large enough; the connection that has no peer to answer is a listener that a FIN has
\* met; a client only starts with its timer set if it was told of a failure while its host
\* was down, and only misses its timer if its time was over; no application is told about
\* another's connection.  (Closing too late is the subject of UndisturbedCalls.)
FailsOnlyAsKnown ==
    LET h == error.at
        Some(P(_)) == \E p \in DOMAIN tables[h].conns : P(tables[h].conns[p])
        Listens(conn) == conn.fsm = "LISTEN" /\ conn.pair.remoteAddr = NoHost
    IN  /\ error.reason # "WRONG_SOCKET"
        /\ error.reason = "PORTS_EXHAUSTED" =>
              \A port \in Ephemeral : Some(LAMBDA conn : conn.pair.localPort = port)
        /\ error.reason = "ADDRESS_IN_USE" =>
              Some(LAMBDA conn : Listens(conn) /\ conn.pair.localAddr = h)
        /\ error.reason = "WINDOW" =>
              \/ world.par[h].windowScalingFactor > -1
              \/ Scaled(world.par[h].advertisedWindow, 14) > RQ_MAX_WIN
        /\ error.reason = "NO_PEER" =>
              \E s \in wire :
                 /\ s.kind = "FIN" /\ s.dst = h
                 /\ Some(LAMBDA conn : Listens(conn) /\ conn.pair.localPort = s.destPort)
        /\ error.reason = "TIMER_TWICE" =>
              \E a \in ClientsOf(h) :
                 sockets[a].timer = "CONNECT" /\ sockets[a].state \in {"SOCKERROR", "CLOSED"}
        /\ error.reason = "NO_TIMER" => \E a \in ClientsOf(h) : sockets[a].over

=============================================================================
