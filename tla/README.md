# Polyraptor: specification and verification

Polyraptor is a receiver-driven data transport for data centres, implemented for
OMNeT++/INET. A sender pushes an initial window of encoding symbols; from then on the
receiver pulls one symbol per request, and one pacer per host releases the requests of all
the host's connections in turn. Switches (NDP) trim a symbol they cannot queue to its header
instead of dropping it. This directory holds TLA+ models of the protocol as the code
implements it, configurations that check them with TLC, and theorems checked by TLAPS.

## The system

Paths are relative to `src/`; `RaptorQ/` stands for `rqtransportlayer/RaptorQ/`.

| Component | State | Operations | Hard part |
|---|---|---|---|
| `RQConnection`, data phase (`RaptorQ/RQConnectionRcvSegment.cc`) | `esi`, `request_id`, `numberReceivedSymbols`, `connFinished`, `pullQueue` | `sendInitialWindow`, arrival of a request, a symbol, a header; `addRequestToPullsQueue` | loss, reordering and trimming; last window; one counter for the requests of a multicast group |
| `RaptorQ` host module, pacer (`RaptorQ/RaptorQ.cc`) | `requestCONNMap`, `counter`, `nap`, `requestTimerMsg` | `sendFirstRequest`, `process_REQUEST_TIMER`, `requestTimer`, close of a multi-source group | lost wake-ups, fairness, connections joining |
| `RaptorQ` host module, tables | `rqAppConnMap`, `rqConnMap`, `usedEphemeralPorts`, `lastEphemeralPort` | find, create, fork, remove a connection; ports; crash, shutdown, start | connections closed by a timer, forked listeners, ports that run out, restarts |
| `RQConnection`, FSM (`RQConnectionBase.cc`, `RQConnectionEventProc.cc`) | `fsm`, four timers, `rexmit_count` | commands OPEN, SEND, CLOSE, ABORT; segments; timeouts | handshake and teardown crossing each other, loss |
| `RQConnection`, header options (`RQConnectionUtil.cc`) | `ws_*`, `ts_*`, `snd_mss`, `rcv_wnd`, `snd_wnd` | writing and reading the options of SYN and SYN+ACK, `updateRcvWnd` | both ends have to agree; scales and windows at their limits |
| Flavours (`RaptorQ/flavours/`) | `snd_una`, `snd_nxt`, `snd_max`, `rexmitTimer`, regions | `established`, `sendCommandInvoked`, `processRexmitTimer`, `connectionClosed` | what a timer sends again, and when it may |
| Queues (`RaptorQ/queues/`) | byte ranges, regions, messages | enqueue, create a segment, discard; insert, merge, extract | numbers that wrap, overlaps, gaps |
| `RQSegment`, `RQCommand` (mostly generated) | message fields | truncation, payload messages | |
| `RQSocket`, `RQSocketMap` (`rqtransportlayer/contract/raptorq/`) | `sockstate`, `connId` | bind, listen, connect, send, close, abort, `processMessage` | messages that cross |
| `RQSinkApp` and the client/server applications (`application/raptorqapp/`) | bytes received, timers, threads | data, indications, stop time, lifecycle operations | timers against restarts; threads against late indications |
| `CentralScheduler` (`FatTreeRQ/`) and `CentralSchedulerTCP` (`FatTreeTCP/`) | flow lists, groups, racks, ports, gates | traffic matrix, applications of each flow, groups, forwarding table, completion count | ports and gates counted in two places; groups across racks |
| `multicastOrganiser`, NED, ini, Matlab and shell | | configuration and plots | none modelled |

Interaction. Everything runs in one OMNeT++ event loop: a handler is atomic, and concurrency
is the order in which scheduled messages are delivered. Applications and transport exchange
commands and indications as messages. Connections call the host module directly
(`requestCONNMap`, `sendFirstRequest`, `requestTimer`), and the host's timer calls back into
the connections' queues. Hosts exchange segments through the network, which loses, trims and
reorders them and duplicates none. The scheduler runs once at the start, creates the
applications of all servers, and is told by the sinks when they have been told PEER_CLOSED.

What makes the components correct:

* data phase - no more than the initial window outstanding; requests in order; no credit lost
  while the network only trims; every symbol delivered once, the end told once; in a multicast
  group, no receiver overrun by more than it lags behind, and each completes on its own;
* pacer - never asleep while an unfinished connection has a request; round robin fair;
* FSM - timers only in the states that handle them; both ends reach CLOSED; handshake and
  TIME_WAIT end; connections that are closed are removed;
* tables - they describe the live connections and nothing else; ports differ; a listener stays;
* options - both ends agree; windows are neither 0 nor larger than the buffer;
* socket and application - the indications keep a contract, the socket's state agrees with
  the connection's, a thread server has a thread for each connection;
* queues - what is passed up is what was written, in order and once;
* schedulers - each flow has its sink, port and gate; groups differ; forwarding tables reach
  the receivers; the simulation stops when its flows are done.

The full list of hazards, each at its line with the property that covers it, is in
`PROJECT.json`.

## Modules

| Module | Models | Role |
|---|---|---|
| `TokenTransfer` | what a pull-driven transfer promises | abstract specification |
| `PullRules` | which arrivals ask, what gap a request or a symbol shows, when a transfer ends | operators shared by the next two |
| `PullTransfer` | data phase and pacer at one receiving host, with the senders and the network | detailed specification, implements `TokenTransfer` |
| `MulticastTransfer` | one sender and a group of receivers on hosts of their own, from the SYN on | specification |
| `PacerFairness` | `PullTransfer` with a history variable that counts overtaking | composed with `PullTransfer` |
| `SocketContract` | which indications an application may be told, in which order | abstract specification |
| `RQStates` | transition table, entry actions, timers of the FSM | operators shared by `ConnectionLifecycle` and `Hosts` |
| `SendSide` | sequence numbers, send queue, the SEND path, what each flavour resends | operators of `ConnectionLifecycle` |
| `ConnectionLifecycle` | handshake, teardown, sockets, timers and unknown connections, both endpoints of one connection | detailed specification, implements `SocketContract` |
| `HeaderOptions` | MSS, window scale, timestamps, windows | operators of `Hosts` |
| `HostTables` | `rqAppConnMap`, `rqConnMap`, ports, lookups, forking | operators of `Hosts` |
| `HostApps` | `RQSocket`, `RQSocketMap`, client timer and stop time, server threads | operators of `Hosts` |
| `Hosts` | several hosts with several connections, crashes, shutdowns and starts | specification composing the four above |
| `DataQueues` | the eight queue classes, truncation of segments, transfer modes | operators, evaluated by `MCDataQueues` |
| `FatTree`, `MulticastRoutes` | addresses and cables; `multicastInfoList` | operators of the schedulers |
| `FlowPlacement` | traffic matrix, applications, completion count | shared by both schedulers |
| `CentralScheduler`, `CentralSchedulerTCP` | the phases of the two schedulers | composed by `Schedulers` |
| `Schedulers` | either scheduler, by the parameters | specification |
| `PullTransfer_proofs` | theorems about `PullTransfer`: types, pacer and window; end, tokens and credit | TLAPS |
| `PacerFairness_proofs` | theorem about `PacerFairness` | TLAPS |
| `Multicast_proofs` | theorems about `MulticastTransfer` | TLAPS |
| `Lifecycle_proofs` | theorems about `ConnectionLifecycle`: types, timers and FINs; the contract with the applications and their sockets | TLAPS |
| `Hosts_proofs` | theorems about `HostTables` and the connections of `Hosts` | TLAPS |
| `HostCalls_proofs` | theorems about the two ends of a call, the sockets, the threads and the failures of `Hosts` | TLAPS |
| `UndisturbedCalls_proofs` | theorem about the calls of `Hosts` where nothing restarts and ports serve once | TLAPS |
| `Schedulers_proofs` | theorems about `FlowPlacement` and `Schedulers` | TLAPS |
| `MC...` | instances; `MCDataQueues` also the assumptions about the queues | TLC |

### PullTransfer

The variables carry the names of the code's fields; the sender's and the receiver's copies of
`esi` and `request_id`, one field in the code that two roles use, are told apart by prefix
(`sndEsi`, `rcvEsi`, `sndRequestId`, `rcvRequestId`). `requestCONNMap` is the sequence of
connections in the order of their `connIndex`; `counter` is kept as the code leaves it,
between 0 and the size of the map, and `Slot` wraps it as the code does before use.

| Action | Code |
|---|---|
| `SendInitialWindow` | `sendInitialWindow` on the application's write |
| `RcvRequest` | request arrival; `RequestsGap` is `requestsGap` with its test |
| `Establish`, `RcvFirstAck` | SYN_RCVD branch; the handlers below it test the old state, so the segment is swallowed |
| `RcvHeader` | header arrival |
| `RcvSymbol`, `RcvExcessSymbol` | symbol arrival; `Asks`, `NextEsi` and `IsFinal` are its branches; the excess case is the jump past the rest |
| `RequestTimerFires`, `ReleaseRequest` | `process_REQUEST_TIMER` |
| `CloseGroup` | the sink's close command and the host's loop over the group |
| `Trim`, `LoseSegment`, `LoseRequest`, `InOrder` | the network, external |

`OrderedSpec` restricts the network to what it does without faults: switches trim, one path
keeps its order, headers overtake.

### MulticastTransfer

The sender has one connection, to its edge router. What the receivers send carries
`isMulticastReceiver`, and the sender's host takes the router's address for its source
(`RaptorQ.cc`, line 217), so the SYN+ACKs and requests of the whole group reach the one
connection and its one `request_id`. The router's replication and its rewriting of addresses
and ports are external. The fabric trims and keeps the order of each path; the receivers are
alone on their hosts; nobody closes, so no FIN is in the session. Each receiver is a record:
its connection and the pacer of its host.

With a group the promises of `PullTransfer` change: `WindowBound` and the token refinement
hold for the receiver that is furthest ahead only, and `OverrunBounded` says what is left of
them for the others.

### ConnectionLifecycle

One connection between "client" (active open, sends the symbols) and "server" (the
connection a forking listener spins off). `RQStates` has the transition table of
`performStateTransition` and what `stateEntered` tells and does to the timers; `Perform` puts a
handler and its transition together. Each command, each group of segment handlers and each
timer is an action. `error` records the runtime error with which OMNeT++ ends a simulation:
nothing happens afterwards. Messages between application and connection are queues and take
any time; the code sends most of them with zero delay and some with a configured one
(`RaptorQEchoApp`), so the model's orders include the code's. The data phase is one symbol or
request at a time.

`snd` is the byte-oriented send side the connection has from TCP (`SendSide`). The symbol path
never advances it, but three things use it: a request written before the connection is
established (`WriteEarly`) is queued there, CLOSE compares the queue with what has been sent,
and RQReno and RQVegas resend from it. A setup names the flavour, the length of the early
request (0: none), whether the network reorders, whether timers wait until no message is in
transit (`timely`: they run for seconds), and `maxRexmit`.

`Closers`, `Answerers` and `Aborters` say which application closes on its own, answers
PEER_CLOSED with a close (`RaptorQAppBase`, the server threads; `RQSinkApp` does neither), or
aborts.

### Hosts

A host is its tables (`HostTables`), its applications (`HostApps`) and its node status. A
scenario (`world`) says which application is on which gate, the parameters of each host
(`HeaderOptions`), which hosts restart, whether segments are lost and whether a client's stop
time passes. A command is executed in the step of the application that issues it, the data
phase is its last symbol, and the retransmission timer fires once, for the last time:
`ConnectionLifecycle` and `PullTransfer` have what is left out here. `error` names the runtime
error and the host.

### DataQueues

A connection creates a send and a receive queue, and the symbol path puts nothing into the
receive queue. The classes are therefore modelled as operators, one per operation, and
`MCDataQueues` states what the two interfaces promise as assumptions that TLC evaluates with
the run `hosts`: for a stream of 6 bytes whose numbers wrap, sent in every cut of up to 4 bytes
into a buffer of 5, after any 6 arrivals and reads. Four of the assumptions record where
the promise fails (see the observations below).

### Schedulers

Applications are created one flow per step although one event of the simulation creates them
all, and random draws are choices from `draws`. `FatTree` is the address arithmetic and the
cables of a fat tree with parameter `K`; `MulticastRoutes` fills the forwarding table in the
four stages of the code. `running` is the simulation itself, which only reports ends of flows.

## Runs

Deadlock checking is off in every run because transfers, connections and simulations end.

| Run | Shows | States |
|---|---|---|
| `lossy_pull` | types, `WindowBound`, `PullsInOrder`, `NoLostWakeup`, `EndOfTransfer`, `ImplementsTokens`; two connections of a multi-source group, window 2, 3 symbols each, quota 3, loss, reordering, one trimmed symbol each | 524 k |
| `ordered_pull` | `EnoughCredit`, `BoundedOvertaking`, `Completes`, `SinksGetQuota`; three connections of 3 symbols, two of them a group with quota 5, two trimmed symbols of the third, paths in order | 113 k |
| `multicast` | types, `OverrunBounded`, `EnoughCredit`, `EveryoneCompletes`; two receivers of 4 symbols, one trimmed once, the other twice | 201 k |
| `lossy_lifecycle` | types, `TimersMatchState`, `SocketAgrees`, `KeepsContract`, `FinHasOneNumber`, `ActiveEndCanResend`; both sides close, the client may abort, loss, reordering, free timers; RQReno and RQVegas with an early request | 1.33 M |
| `orderly_teardown` | `HandshakeEnds`, `TeardownCompletes`, `CloseIsAnswered`; no faults, four flavours, with and without an early request, all applications close and answer | 91 k |
| `hosts` | types, `TablesAgree`, `PortsApart`, `ListenerKept`, `OptionsAgree`, `WindowHonest`, `ThreadsMatch`, `UndisturbedCalls`, `FailsOnlyAsKnown`; 44 scenarios; also the assumptions about the queues | 326 k |
| `schedulers` | types, `AppsApart`, `FlowsMeetTheirSink`, `GroupsApart`, `FailsOnlyAlone`, `RoutesReachReceivers`, `StopsWhenShortFlowsDone`, `ShortFlowsEndTheRun`; 16 servers, both schedulers, with and without groups | 21 k |

Five runs end in a violation; each is a place where the code departs from one of its own
comments or assertions (`findings` in `PROJECT.json`):

| Run | What happens |
|---|---|
| `small_transfer` | a transfer no larger than the window: a header's request is queued and the pacer is never started |
| `not_deleted` | a connection closed by the retransmission timer stays in the tables in state CLOSED |
| `lost_fin` | the repeated FIN is lost and TIME_WAIT has no timer |
| `first_close` | a late symbol in CLOSE_WAIT counts as a close; the application's only close is a "duplicate" |
| `multicast_same_pod` | a receiver in another rack of the sender's pod makes the forwarding table of the whole group end early |

### What else the models show

The code allows the following. It is described here and no run claims the opposite.

Data phase and multicast

* A symbol that arrives behind the expected number asks for nothing, and no request was sent
  in its stead (the loops at lines 524 and 544 of `RQConnectionRcvSegment.cc` are commented
  out), so before the last window every overtaken symbol costs one credit. `EnoughCredit` and
  `Completes` therefore hold for `OrderedSpec` only.
* In a multicast group the fastest receiver clocks the sender. A slower one gets symbols it
  has not asked for and can have more than the window in flight towards it.

FSM and send side

* In SYN_RCVD every segment without a FIN establishes the server, a reset too.
* The active side starts no timer (`RQConnectionEventProc.cc`, lines 76-77), so a lost SYN or
  SYN+ACK leaves the client in SYN_SENT. `HandshakeEnds` is checked without loss.
* A request written before the connection is established is queued and never sent. A later
  CLOSE sends a FIN and then "defers" it (`RQConnectionEventProc.cc`, line 248): the connection
  stays ESTABLISHED with its retransmission timer running, and the peer's TIME_WAIT never ends.
* The passive end never moves `snd_una` past its own SYN, so in RQReno and RQVegas its first
  retransmission asks the send queue for a byte in front of it and fails the assertion at line 62 of
  `RQMsgBasedSendQueue.cc`; after a deferred close RQVegas also misses a region.
  `ActiveEndCanResend` is what holds, for the other end.
* DumbRQ has no retransmission timer, and what it passes to `sendData` is neither a read nor a
  write, so that function ends without returning a value: the model takes either.

Hosts

* After a crash a client's ports start over. If the server still has the old connection, the
  new SYN is taken for a segment of it and the client waits in SYN_SENT for ever. Without a
  crash the same happens when the ports come round while the server is in TIME_WAIT.
* A late segment of the connection that had a port before is taken in CLOSE_WAIT for a close, and
  the application's first close stops the simulation. `UndisturbedCalls` says that neither
  happens where no host has gone down, none has a second client and clients do not call each
  other.
* A half-open connection that falls back to LISTEN keeps `ws_enabled` from its first call. Its
  SYN+ACK to a second caller then carries the low 16 bits of an unlimited window: 0 for a
  buffer of 131072 (`WindowHonest` says when, `UndisturbedCalls` when not).
* A connection that times out in SYN_RCVD falls back to LISTEN beside the listener that was
  forked from it; the next caller that reaches it stops the simulation (address in use).
* A client told of a failure while its node is down sets its timer, and the start of the node
  schedules it again, which the kernel refuses. A client whose stop time has deleted its timer
  cannot be crashed or shut down: it cancels a null pointer.
* `renewSocket` discards the binding made before it, so clients always use ephemeral ports.

Queues

* `RQByteStreamRcvQueue::Region::merge` copies the part behind a region's end from the start of
  the other region's bytes, so a segment that ends inside bytes already held, or a second copy
  of one, corrupts the stream (`OverlapsAreNot`).
* The line added to `RQMsgBasedRcvQueue` and `RQSymbolsRcvQueue` (line 77) renumbers the first
  message: a read while there is a gap before it leaves it in the queue for ever
  (`MessagesStuck`); with an empty list it writes behind the list's end.
* "Send queue is full" is not noticed for a write that laps the queue (`FullByHalf`).
  `truncateSegment` has no caller.
* The transfer modes `bytecount` and `bytestream` that the NED files offer give the queues of
  `object` (`ModesIgnored`).

Schedulers

* The sinks of long flows and of groups count as completed short flows, so a simulation that
  has them stops early.
* A replica of the TCP baseline is compared with the draw before it only
  (`CentralSchedulerTCP.cc`, line 741), so two replicas may be on one server.
* Draws are repeated until they are new; when nothing new is left the loop does not end.

### Bounds

`IW` is 2 (8 in the code): with 2 there is a full window, a last window that differs from it,
and two symbols in flight to overtake each other. `Wanted` is 3 or 4, above the window, or 2,
at the window, where no symbol asks. Two connections share the pacer and three where the order
of service matters. `TrimLimit` (0 to 2) bounds how many symbols of a connection may be trimmed,
which bounds the requests; a trimmed symbol is replaced by one with a higher number, so without
it the runs would be infinite. `GroupQuota` is smaller than the sum of the members' symbols, so
the group closes early. `Completes` speaks of connections in no group: the end of a group is
told through its quota.

`maxRexmit` is 1 or 2 (12 in the code): the counter only has to reach its limit, and with 2 a
flavour resends once before. An early request has 10 bytes, one segment, or 600, two. `Symbols`
is 1 or 2, for a transfer with and without a pull.

`Hosts` has two ephemeral ports, so that three clients exhaust them and the search wraps; each
scenario bounds the ids of sockets and connections (`maxId`) and the crashes, shutdowns and
starts (`maxOperations`), and equal segments in the network are one. There are 9 places for
connections, as many as a scenario has ids, so memory never runs out. Its 36 pairs of parameters
take each option with and without support at either end, windows on both sides of 65535, and
scales set by hand that fit and do not fit.

`K` is 4, the smallest fat tree with another rack in the pod and another pod: 16 servers. The
draws of each scenario contain servers of the same rack, pod and of other pods.

### Fairness

The simulation kernel delivers every scheduled event. `PullTransfer!Fairness` is weak fairness
of each connection's write, of the delivery of each connection's requests and, in path order,
of its segments, of the timer and of each group's close command. `ConnectionLifecycle!Fairness`
is weak fairness of each endpoint's indications, commands, segments and timers.
`MulticastTransfer!Fairness` is that of one receiver's events, and `EveryoneCompletes` assumes it
of that receiver alone. `Schedulers` has weak fairness of its next-state relation: its steps are
one event, and flows end by what `Completes` says. Applications' own decisions (connect, close,
abort), crashes, losses and trims are never fair.

## Proofs

Checked by TLAPS for every value of the constants that the ASSUMEs of each module allow. Each
theorem is `Spec => []P` for an inductive invariant that implies `P`; the invariants were
checked by TLC on the runs' instances before they were proved.

### Data phase: `PullTransfer_proofs`, `PacerFairness_proofs`

For every finite set of connections, window, sizes, groups, quota and trim limit.

* `TypeCorrect` - `TypeOK`.
* `PacerNeverSleepsOnRequest` - `NoLostWakeup`, for transfers larger than the window
  (`LargeTransfers`; `small_transfer` shows that without it queued requests are not sent). The
  invariant is `PacerInv`: `NoLostWakeup` is not inductive, because a pacer that has never run
  does not nap and `addRequestToPullsQueue` would not wake it. `PacerAwake` says that a pacer
  is set, naps or has only finished connections or empty queues; `FreshUntilRegistered` says
  that a connection the pacer does not know has received nothing; `SymbolsNumbered` says that
  symbols in flight carry positive numbers, so that a first symbol shows no negative gap and
  therefore asks.
* `WindowHolds` - `WindowBound`, and `RequestsStayInOrder` - `PullsInOrder`. The invariant is
  `WindowInv`: `WindowBound` needs the network to be finite (its elements are counted), nothing
  of a connection to be in flight before its initial window (`QuietBeforeStart`), and
  `PullsInOrder`, by which requests never weigh less than nothing: the gap a request reports
  never exceeds the requests queued and not yet answered, so answering it turns that many
  request credits into symbols.
* `EndHolds` - `EndOfTransfer`. `Delivery` relates what is counted, handed over and told, and
  says what finishes a connection: an excess symbol, or the close of its group. The proof
  showed that a transfer of no symbols is an exception: nothing arrives that could end it, so
  the property speaks of `Wanted > 0`.
* `TransferImplementsTokens` - the refinement of `TokenTransfer`. Each action is a step of the
  tokens or a stutter under `TokenInv`, which is `WindowInv`, `Delivery` and `SymbolsDistinct`
  (no two symbols in flight have the same number, so taking one spends one token).
* `CreditHolds` - `OrderedSpec => []EnoughCredit`. `PathInOrder` says that, until a
  connection has what it wants, the symbols on its path are ahead of the number it expects:
  none is overtaken, so every arrival asks or belongs to the last window.
* `OvertakingHolds` - `FairSpec => []BoundedOvertaking`. `Turn` is how far a place of the map is
  from the pacer's position; `TurnComes` says that whoever has been overtaken has its turn
  before the one that overtook it. A connection joins the map once and with its first request, so
  it has neither overtaken nor been overtaken, and the turns of the others keep their order.
  Here, too, the proof showed that a transfer of no symbols is an exception: it can queue a
  request without ever joining the map, so the property speaks of `Wanted > 0`.

### Multicast: `Multicast_proofs`

For every finite group, window, size and trim limit: `MulticastTypes` - `TypeOK`, `OverrunHolds` -
`OverrunBounded`, `GroupCreditHolds` - `EnoughCredit`. `GroupInv` describes each receiver by what
leads its path (SYN, acknowledgement, data in order), by its queue of requests with consecutive
numbers, and by how many requests it may have made (no more than segments taken); `Clocked` says
that the sender's one request number never passes what some receiver has released.

### Lifecycle: `Lifecycle_proofs`

For every set of setups (flavour, early request, reordering, retransmission limit), of closing,
answering and aborting applications, and every number of symbols.

* `LifecycleTypes` - `TypeOK`. `TypeInv` adds that a closed connection has no timers and that the
  retransmission counter has not passed its limit while its timer runs.
* `TimersHold` - `TimersMatchState`, `FinNumberHolds` - `FinHasOneNumber`, `ResendHolds` -
  `ActiveEndCanResend`. They share one invariant, `CloseInv`, because they depend on each
  other: `Fits` says of an endpoint which states go with which timers, which sequence numbers
  and which FINs already sent. The timer's handler resends what `snd` says, `snd` is advanced by
  the FIN, and a FIN is sent again only by that timer or by CLOSE; and the server writes
  nothing early, so the cases of a deferred close belong to the client.
* `ContractHolds` - `KeepsContract`, the refinement of `SocketContract`. `Told` says, for each state,
  what can have been told before: nothing during the handshake, nothing final before the
  end, and, while ESTABLISHED, PEER_CLOSED at most once and only with the last symbol.
* `SocketHolds` - `SocketAgrees`. The property speaks of the moments when nothing is queued between
  socket and connection, the invariant must speak of all others: `SocketFits` says for each pair of
  a socket's and a connection's state what may stand in the two queues and what they end with.
  The delicate cases are those where the two cross: a client that has closed while connecting
  is told ESTABLISHED, reopens its socket and writes (the write is then refused, because its CLOSE is
  ahead of it); PEER_CLOSED meets a CLOSE that is on its way; a deferred close leaves a socket closed
  and the connection ESTABLISHED.

### Hosts: `Hosts_proofs`

For every set of hosts, range of ports, and set of scenarios - any number of clients, one
server at most on a host, below the ephemeral ports, ids handed out one by one and a place in
memory for each: `TablesHold` - `TablesAgree`, `PortsHold` - `PortsApart`, `ListenerHolds` -
`ListenerKept`.

The first half are lemmas about `HostTables`: each operation keeps `TablesOK` (tables that agree,
ids that differ, each ephemeral port used once) under what its caller has checked.
`FindConnForSegment` gives the caller that: a connection found for a segment has its port and
either has the caller's own socket pair or that pair is free (`FoundConn`), and so
`updateSockPair` never overwrites another's entry. The second half shows that each action
of `Hosts` keeps `HostsInv`. Two parts of it are not obvious: `Untold`, nobody has been told about
a connection in LISTEN or SYN_RCVD, so that no CLOSE command can reach the listener or the
connection that may fall back to LISTEN; and `ListensOnly`, such connections have no ephemeral
port, and a connection without a peer listens and has no timers.

### Calls: `HostCalls_proofs`

For the same scenarios, any pair of parameters and any maximal window: `OptionsHold` -
`OptionsAgree`, `WindowsHold` - `WindowHonest`, `HostTypes` - `TypeOK`, `ThreadsHold` -
`ThreadsMatch`, `FailuresHold` - `FailsOnlyAsKnown`.

The agreement of two ends says nothing about the segments that brought it about, and cannot be
shown by looking at two ends alone: a client reads a SYN+ACK of a server it has not met, long
after the server's connection may have gone, and a connection that fell back to LISTEN keeps
the state block of the call before. `DataInv` is therefore about one side at a time: each
connection's state block is what the parameters of its two hosts determine (`SynState`,
`ServerState`, `ClientState`), and each SYN and SYN+ACK says what the parameters of its sender,
and of both, determine. That a host keeps its parameters, and that a call back to the same
port comes from the same host, is what makes it inductive. Lemmas about `HeaderOptions` say what
reading options and writing them makes of a state block; `ScaleOf` is shown to be the least scale
that makes a buffer fit. The window of 0 is in `AnnouncedTo`: only the low bits of a window of a
server that has not scaled it.

`TypesInv` has what the types of sockets and threads need: a socket has the fields its application
uses, operations keep the counters below their bounds, and each thread is kept under
its own id, which is below the next one.

`ThreadsMatch` is about the moments when nothing is on its way to a server; `AppsInv` must say what
threads there will be when it has heard what still is. `WillServe` reads that off the queue: a
server will have a thread for an id if it has one now and nothing is said about it, or if what
is said last about it does not end it, and that is so exactly for the connections it is serving
(`ThreadsFit`). Each step of a connection must therefore say last what it has become (`Speaks`),
which the state machine does (`HandlersSpeak`), and no connection may be renamed while it serves: the
id of a listener passes to its clone before anybody has been told about it. The rest is about
clients: one has no connection but the one its socket names (`OneCall`), because it calls again
only when the last connection has failed and a failure is told by a closed connection alone
(`FailuresEnd`).

`FailsOnlyAsKnown` is inductive relative to these: a step that fails changes neither the tables nor
the parameters, so it is enough to know its reason in the state before it (`Known`). Every reason
it speaks of needs another part: that no application is told about another's connection needs `OneCall`; ports
only run out when all are taken, because the search tries every port (`EveryPortTried`) and the
port set counts the connections (`PortsAgree`); a window that is known not to fit needs the scale the
parameters determine (`DataInv`, `KnownWindow`); an address is in use only where a second listener
has it, because the first moves to another key when it accepts (`AddressTaken`); no peer is missing but
where a FIN meets a listener, because every other event that sends belongs to a connection
with a caller; and a client whose node is down when it starts has its timer set only if it has
been told of a failure meanwhile (`RetriesInv`). That last part needs `NoMore`: the client has one
failure at most on its way to it, and nothing behind it but the end of the connection, so that no later
indication sets the state of its socket back. Four reasons are left free: an event while
closed and a close of a connection that is gone or closing are what `UndisturbedCalls` forbids where
nothing disturbs a call, and an indication for an application that is down follows a crash or a
shutdown by the model's own guard.

### Undisturbed calls: `UndisturbedCalls_proofs`

For the same scenarios: `UndisturbedHold` - `UndisturbedCalls`. While nothing has restarted and
each port of a client serves one call (`PortsServeOnce`), every SYN is answered unless something
is lost (`SynAnswered`), no application closes a connection that is gone or closing, and no
client is told a window of 0.

Each of the three depends on segments sent long ago, so the invariant, `CallsInv`, is about calls.
A call is what a client has to do with its server from one of its ports: the connections it
has at both ends and the kinds of the segments between them (`Call`). `Fits` lists the phases a call
goes through: the SYN is out, it is answered, one end is established, both are, the server has
closed, it is over; `Refused` is a call to a port where nobody listens. What can
still be on its way in a phase is what later steps may meet: a server that gave up waiting
listens again and resets the third segment when it comes; the two FINs may cross, and both may be
acknowledged after the client has gone.

* Each connection and each segment belongs to one call at most (`KeysApart`, `SegmentsApart`),
  because nobody but the one client of a host uses an ephemeral port. A step therefore moves one call
  and leaves the others alone (`CallsMove`), and each action has only to show where it takes
  that call.
* `OneEach` - a call has one SYN, one SYN+ACK and one third segment on its way at most, so that
  none is met a second time by an end that has moved on.
* `Finished` - where a port has served, its client does not call again: its timer is not set to
  connect, no failure is on its way to it and its connections are closed. It is here that a
  second client, or a restart, would break the argument.
* `Pends` - an application is told to close once, and the connection waits for it until it does.
* `Shapes` - no connection before its FIN runs a retransmission timer, and no SYN+ACK carries a
  window of 0: that needs a server that accepts a second call with the scaling of the first,
  and a connection that fell back to LISTEN keeps its caller's port, which calls only once.

### Schedulers: `Schedulers_proofs`

For every even number of ports of a switch, every set of scenarios within what the parameters
allow (`ScenariosAssumption`) and every shuffle that is a permutation: `SchedulerTypes` - `TypeOK`,
`AppsApartHold` - `AppsApart`, `FlowsMeet` - `FlowsMeetTheirSink`, `GroupsHold` - `GroupsApart`,
`FailsHold` - `FailsOnlyAlone`, `StopsHold` - `StopsWhenShortFlowsDone`.

`PlacementInv` is stronger than what it is for. Sinks have not only different ports but the port
80 + i, so that a client's port tells which sink it meets; gates lie below the size of the gate
vector, so that the next one is new to sinks and clients alike; and a client has the class of its
sink, so that only the members of a multi-source group can meet. `Placed` shows this for
any step that gives disjoint sets of servers new sinks and new clients, and each scheduler's
connection is an instance of it. Three parts are about when steps happen:

* `LongFits` - a long flow's port is counted at the source and used at the destination. That
  is right because long flows are placed first and run along a permutation: no two share an
  end, so both counts are zero when one is placed.
* `SessionFits` - the later clients of a TCP session take the last sink of the hub, which is the one
  the first client made because nothing else is placed in between.
* `FailsOnlyAlone` - a flow from a server to itself is drawn only from a cycle of length one.

`CountInv` adds the count that ends a simulation: with short flows only, connections and flows
still to be placed add up to `numShortFlows`, and what has ended is a set of connections as
large as the count. A flow cannot end after the count is reached because none is left.

### Only model-checked

* Liveness under fairness: `Completes`, `SinksGetQuota`, `EveryoneCompletes`, `HandshakeEnds`,
  `TeardownCompletes`, `CloseIsAnswered`, `ShortFlowsEndTheRun` (outside the prover's reach).
* `RoutesReachReceivers`: that a forwarding table of CASE-built paths, looked up hop by hop, is a
  tree that reaches its receivers. It speaks of one group at a time, and the run has groups of
  three with receivers in the sender's rack, in its pod and in other pods, in a tree of 16 servers.
* What the queues of `DataQueues` compute, which is induction over the segments received.

## Not modelled, and why

* The pacer's maps across removals. `requestCONNMap` and `connInfoMultiSrcList` keep a connection
  that has been removed; `PullTransfer` has these maps but removes nothing, `Hosts` removes and has
  no pacer, so `TablesAgree` is about the other two maps and the port set.
* Time. The pacer's 8 microseconds and the retransmission back-off are not numbers here; that
  a napping pacer's timer is pushed back by each further request is therefore not covered.
* The coding: that any `numSymbolsToGet` symbols decode is the premise of the code, which
  counts symbols.
* Congestion windows, SACK and the reactions to data acknowledgements: inherited; the windows
  are computed and not read, the reactions not reached by the symbol path.
* Simultaneous open and a SEND that turns a listener active: no application issues them.
  READ_REQUEST reads from an empty queue and STATUS reads state; `DataQueues` has the former's
  loop.
* What the client, echo and thread applications do with data: the symbol path passes data to
  sinks only.
* A scheduler that runs multicast and multi-source groups at once: the parameter files never do.
* `CentralScheduler`'s code that is commented out, `multicastOrganiser` (it handles no
  message), generated serialisation and descriptors, statistics, topologies, plots.

## Plan

1. Done: the data phase, unicast, multi-source and multicast; the lifecycle of a connection with
   its flavours; hosts with their tables, options and applications; the queues; both schedulers;
   the theorems about the data phase, multicast, the lifecycle, hosts and the schedulers.
2. Time as a counter in the pacer, so that the timer a request restarts can be stated.
