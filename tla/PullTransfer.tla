---------------------------- MODULE PullTransfer ----------------------------
(***************************************************************************)
(* The data phase of Polyraptor at one receiving host.                     *)
(*                                                                         *)
(* Every connection in Conn ends at the same host and comes from a sender  *)
(* of its own.  A sender pushes an initial window of IW encoding symbols   *)
(* and from then on sends one new symbol for each pull request.  The       *)
(* receiving RQConnection queues pull requests; the host module RaptorQ    *)
(* paces them: one request per tick of one timer, round robin over the     *)
(* connections of requestCONNMap.                                          *)
(*                                                                         *)
(* The state starts where the handshake ends: the sender is ESTABLISHED    *)
(* and its first ACK is on the way, the receiver is in SYN_RCVD.           *)
(*                                                                         *)
(* The network is external.  A switch whose queue is full trims a symbol   *)
(* to a header (isHeader); Next also lets packets be lost and overtake     *)
(* each other, OrderedNext only trims and keeps the order of the packets   *)
(* of one path.  No packet is duplicated.                                  *)
(***************************************************************************)
EXTENDS Integers, Sequences, FiniteSets, Functions, PullRules

CONSTANTS
    Conn,        \* the connections that end at the host
    Wanted,      \* numSymbolsToGet of each connection
    Groups,      \* the multi-source groups: sets of connections of one sink
    GroupQuota,  \* symbols after which a sink closes its group (70000 B / 1000 B)
    TrimLimit    \* bound: a switch trims only the symbols of a connection up to this

ASSUME ConnAssumption == IsFiniteSet(Conn)
ASSUME IWAssumption == IW \in Nat \ {0}
ASSUME WantedAssumption == Wanted \in [Conn -> Nat]
ASSUME GroupsAssumption == Groups \subseteq SUBSET Conn /\ GroupQuota \in Nat \ {0}
ASSUME TrimAssumption == TrimLimit \in [Conn -> Nat]

VARIABLES
    \* --- senders
    sndEsi,                \* state->esi: symbols generated and sent
    sndRequestId,          \* state->request_id: requests answered
    \* --- network
    wire,                  \* segments on their way to the host
    requestWire,           \* pull requests on their way to the senders
    \* --- receiving connections
    fsm,                   \* state of the receiving RQConnection
    rcvEsi,                \* state->esi: highest symbol number accounted for
    rcvRequestId,          \* state->request_id: requests queued so far
    numberReceivedSymbols,
    receivedSymbols,       \* length of receivedSymbolsList: symbols given to the app
    connFinished,
    isfinalReceived,       \* isfinalReceivedPrintedOut: PEER_CLOSED given to the app
    pullQueue,             \* sequence numbers of the queued requests
    \* --- the host module
    requestCONNMap,        \* connections in the order of their connIndex
    counter,               \* position of the round robin
    nap,
    requestTimer,          \* requestTimerMsg->isScheduled()
    groupClosed            \* groups whose close command the host has processed

sndVars  == <<sndEsi, sndRequestId>>
dataVars == <<fsm, rcvEsi, rcvRequestId, numberReceivedSymbols, receivedSymbols,
              isfinalReceived, pullQueue>>
hostVars == <<requestCONNMap, counter, nap, requestTimer, groupClosed>>
vars     == <<sndVars, wire, requestWire, dataVars, connFinished, hostVars>>

----------------------------------------------------------------------------
\* Segments.  kind is what RQConnection::processSegment1stThru8th tells apart
\* by isWriter, isReader and isHeader.

FirstAck(c)    == [kind |-> "ACK", conn |-> c, ssn |-> 0]
Symbol(c, i)   == [kind |-> "SYMBOL", conn |-> c, ssn |-> i]
Header(c, i)   == [kind |-> "HEADER", conn |-> c, ssn |-> i]
Request(c, i)  == [conn |-> c, seq |-> i]

Segments == [kind : {"ACK", "SYMBOL", "HEADER"}, conn : Conn, ssn : Nat]
Requests == [conn : Conn, seq : Nat]

\* Symbols and headers of c in flight: what counts against the window.
DataOf(c) == {p \in wire : p.conn = c /\ p.kind # "ACK"}

----------------------------------------------------------------------------
Init ==
    /\ sndEsi = [c \in Conn |-> 0]
    /\ sndRequestId = [c \in Conn |-> 0]
    /\ wire = {FirstAck(c) : c \in Conn}
    /\ requestWire = {}
    /\ fsm = [c \in Conn |-> "SYN_RCVD"]
    /\ rcvEsi = [c \in Conn |-> 0]
    /\ rcvRequestId = [c \in Conn |-> 0]
    /\ numberReceivedSymbols = [c \in Conn |-> 0]
    /\ receivedSymbols = [c \in Conn |-> 0]
    /\ connFinished = [c \in Conn |-> FALSE]
    /\ isfinalReceived = [c \in Conn |-> FALSE]
    /\ pullQueue = [c \in Conn |-> <<>>]
    /\ requestCONNMap = <<>>
    /\ counter = 0
    /\ nap = FALSE
    /\ requestTimer = FALSE
    /\ groupClosed = {}

----------------------------------------------------------------------------
\* Senders.

\* The numbers of the next k symbols: esi is one behind the symbol it numbers.
NewSymbols(c, k) == {Symbol(c, i) : i \in sndEsi[c] + 1 .. sndEsi[c] + k}

\* The app's write request reaches the established connection.
SendInitialWindow(c) ==
    /\ sndEsi[c] = 0
    /\ wire' = wire \cup NewSymbols(c, IW)
    /\ sndEsi' = [sndEsi EXCEPT ![c] = IW]
    /\ sndRequestId' = [sndRequestId EXCEPT ![c] = 0]
    /\ UNCHANGED <<requestWire, dataVars, connFinished, hostVars>>

RcvRequest(r) ==
    LET c == r.conn
        gap == RequestsGap(r.seq, sndRequestId[c])
    IN  /\ requestWire' = requestWire \ {r}
        /\ wire' = wire \cup NewSymbols(c, gap)
        /\ sndEsi' = [sndEsi EXCEPT ![c] = @ + gap]
        /\ sndRequestId' = [sndRequestId EXCEPT ![c] = @ + gap]
        /\ UNCHANGED <<dataVars, connFinished, hostVars>>

----------------------------------------------------------------------------
\* The receiving connection and the host module it calls.

Registered(c) == \E i \in 1 .. Len(requestCONNMap) : requestCONNMap[i] = c

AllPullQueuesEmpty(map, queue) == \A i \in 1 .. Len(map) : queue[map[i]] = <<>>

AllConnFinished(map, finished) == \A i \in 1 .. Len(map) : finished[map[i]]

\* Wrong: the new request goes to the front.
AddRequestInFront(c) ==
    /\ rcvRequestId' = [rcvRequestId EXCEPT ![c] = @ + 1]
    /\ pullQueue' = [pullQueue EXCEPT ![c] = <<rcvRequestId[c] + 1>> \o @]

\* addRequestToPullsQueue without its last step, the timer.
AddRequestToPullsQueue(c) ==
    /\ rcvRequestId' = [rcvRequestId EXCEPT ![c] = @ + 1]
    /\ pullQueue' = [pullQueue EXCEPT ![c] = Append(@, rcvRequestId[c] + 1)]

\* Wrong: no wake-up from a nap.
TimerNotWoken(added, registers) ==
    \/ requestTimer
    \/ registers /\ ~AllPullQueuesEmpty(requestCONNMap', pullQueue')

\* addRequestToPullsQueue restarts the timer during a nap; sendFirstRequest, called
\* when a connection is added to requestCONNMap, starts it if there is a request.
TimerAfter(added, registers) ==
    \/ requestTimer
    \/ added /\ nap
    \/ registers /\ ~AllPullQueuesEmpty(requestCONNMap', pullQueue')

\* Any segment that arrives in SYN_RCVD establishes the connection and nothing else:
\* the handlers below test the state before the transition.
Establish(p) ==
    /\ fsm[p.conn] = "SYN_RCVD"
    /\ fsm' = [fsm EXCEPT ![p.conn] = "ESTABLISHED"]
    /\ wire' = wire \ {p}
    /\ UNCHANGED <<sndVars, requestWire, rcvEsi, rcvRequestId, numberReceivedSymbols,
                   receivedSymbols, isfinalReceived, pullQueue, connFinished, hostVars>>

RcvFirstAck(p) ==
    /\ fsm[p.conn] = "ESTABLISHED"
    /\ p.kind = "ACK"
    /\ wire' = wire \ {p}
    /\ UNCHANGED <<sndVars, requestWire, dataVars, connFinished, hostVars>>

RcvHeader(p) ==
    LET c == p.conn
        registers == numberReceivedSymbols[c] = 0 /\ ~Registered(c)
    IN  /\ fsm[c] = "ESTABLISHED"
        /\ p.kind = "HEADER"
        /\ wire' = wire \ {p}
        /\ AddRequestToPullsQueue(c)
        /\ requestCONNMap' = IF registers THEN Append(requestCONNMap, c) ELSE requestCONNMap
        /\ requestTimer' = TimerAfter(TRUE, registers)
        /\ UNCHANGED <<sndVars, requestWire, fsm, rcvEsi, numberReceivedSymbols,
                       receivedSymbols, isfinalReceived, connFinished, counter, nap,
                       groupClosed>>

\* A symbol after the last wanted one: it only marks the connection finished.
RcvExcessSymbol(p) ==
    LET c == p.conn
        n == numberReceivedSymbols[c] + 1
    IN  /\ fsm[c] = "ESTABLISHED"
        /\ p.kind = "SYMBOL"
        /\ n > Wanted[c]
        /\ wire' = wire \ {p}
        /\ rcvEsi' = [rcvEsi EXCEPT ![c] = @ + 1]
        /\ numberReceivedSymbols' = [numberReceivedSymbols EXCEPT ![c] = n]
        /\ connFinished' = [connFinished EXCEPT ![c] = TRUE]
        /\ requestTimer' = (requestTimer /\ ~AllConnFinished(requestCONNMap, connFinished'))
        /\ UNCHANGED <<sndVars, requestWire, fsm, rcvRequestId, receivedSymbols,
                       isfinalReceived, pullQueue, requestCONNMap, counter, nap,
                       groupClosed>>

RcvSymbol(p) ==
    LET c == p.conn
        n == numberReceivedSymbols[c] + 1
        gap == p.ssn - (rcvEsi[c] + 1)
        asks == Asks(n, gap, Wanted[c], connFinished[c])
        registers == n = 1 /\ ~Registered(c)
    IN  /\ fsm[c] = "ESTABLISHED"
        /\ p.kind = "SYMBOL"
        /\ n <= Wanted[c]
        /\ wire' = wire \ {p}
        /\ rcvEsi' = [rcvEsi EXCEPT ![c] = NextEsi(@, p.ssn, n, Wanted[c], connFinished[c])]
        /\ numberReceivedSymbols' = [numberReceivedSymbols EXCEPT ![c] = n]
        /\ IF asks THEN AddRequestToPullsQueue(c) ELSE UNCHANGED <<rcvRequestId, pullQueue>>
        /\ requestCONNMap' = IF registers THEN Append(requestCONNMap, c) ELSE requestCONNMap
        /\ requestTimer' = TimerAfter(asks, registers)
        /\ receivedSymbols' = [receivedSymbols EXCEPT ![c] = IF connFinished[c] THEN @ ELSE @ + 1]
        /\ isfinalReceived' =
               [isfinalReceived EXCEPT ![c] = @ \/ IsFinal(n, Wanted[c], connFinished[c])]
        /\ UNCHANGED <<sndVars, requestWire, fsm, connFinished, counter, nap, groupClosed>>

----------------------------------------------------------------------------
\* The pacer, RaptorQ::process_REQUEST_TIMER.

\* Position k places after the round robin's (0-based, as the iterator is advanced).
Slot(k) ==
    IF counter + k < Len(requestCONNMap)
    THEN counter + k
    ELSE counter + k - Len(requestCONNMap)

QueueAt(k) == pullQueue[requestCONNMap[Slot(k) + 1]]

\* Two wrong round robins: the position never wraps, and it stays on the connection
\* it has served.
ReleaseWithoutWrap ==
    \E k \in 0 .. Len(requestCONNMap) - 1 :
        LET c == requestCONNMap[Slot(k) + 1]
        IN  /\ pullQueue[c] # <<>>
            /\ \A j \in 0 .. k - 1 : QueueAt(j) = <<>>
            /\ requestWire' = requestWire \cup {Request(c, Head(pullQueue[c]))}
            /\ pullQueue' = [pullQueue EXCEPT ![c] = Tail(@)]
            /\ counter' = counter + k + 1

ReleaseSameAgain ==
    \E k \in 0 .. Len(requestCONNMap) - 1 :
        LET c == requestCONNMap[Slot(k) + 1]
        IN  /\ pullQueue[c] # <<>>
            /\ \A j \in 0 .. k - 1 : QueueAt(j) = <<>>
            /\ requestWire' = requestWire \cup {Request(c, Head(pullQueue[c]))}
            /\ pullQueue' = [pullQueue EXCEPT ![c] = Tail(@)]
            /\ counter' = Slot(k)

\* The next connection with a request sends it, and the timer is set again.
ReleaseRequest ==
    \E k \in 0 .. Len(requestCONNMap) - 1 :
        LET c == requestCONNMap[Slot(k) + 1]
        IN  /\ pullQueue[c] # <<>>
            /\ \A j \in 0 .. k - 1 : QueueAt(j) = <<>>
            /\ requestWire' = requestWire \cup {Request(c, Head(pullQueue[c]))}
            /\ pullQueue' = [pullQueue EXCEPT ![c] = Tail(@)]
            /\ counter' = Slot(k) + 1

RequestTimerFires ==
    /\ requestTimer
    /\ LET allEmpty == AllPullQueuesEmpty(requestCONNMap, pullQueue)
           allDone == AllConnFinished(requestCONNMap, connFinished)
       IN  \/ /\ allDone
              /\ requestTimer' = FALSE
              /\ UNCHANGED <<nap, counter, pullQueue, requestWire>>
           \/ /\ ~allDone
              /\ allEmpty
              /\ nap' = TRUE
              /\ requestTimer' = FALSE
              /\ UNCHANGED <<counter, pullQueue, requestWire>>
           \/ /\ ~allDone
              /\ ~allEmpty
              /\ nap' = FALSE
              /\ requestTimer' = TRUE
              /\ ReleaseRequest
    /\ UNCHANGED <<sndVars, wire, fsm, rcvEsi, rcvRequestId, numberReceivedSymbols,
                   receivedSymbols, isfinalReceived, connFinished, requestCONNMap,
                   groupClosed>>

\* The sink of a multi-source group has counted its quota of bytes and its close
\* command reaches the host: the group's registered connections are marked finished.
GroupTotal(g) == SumFunctionOnSet(receivedSymbols, g)

CloseGroup(g) ==
    /\ g \notin groupClosed
    /\ GroupTotal(g) >= GroupQuota
    /\ groupClosed' = groupClosed \cup {g}
    /\ connFinished' = [c \in Conn |-> connFinished[c] \/ (c \in g /\ Registered(c))]
    /\ UNCHANGED <<sndVars, wire, requestWire, dataVars, requestCONNMap, counter, nap,
                   requestTimer>>

----------------------------------------------------------------------------
\* The network.

Trim(p) ==
    /\ p.kind = "SYMBOL"
    /\ p.ssn <= TrimLimit[p.conn]
    /\ wire' = (wire \ {p}) \cup {Header(p.conn, p.ssn)}
    /\ UNCHANGED <<sndVars, requestWire, dataVars, connFinished, hostVars>>

LoseSegment(p) ==
    /\ wire' = wire \ {p}
    /\ UNCHANGED <<sndVars, requestWire, dataVars, connFinished, hostVars>>

LoseRequest(r) ==
    /\ requestWire' = requestWire \ {r}
    /\ UNCHANGED <<sndVars, wire, dataVars, connFinished, hostVars>>

\* On one path the first ACK leads, symbols keep their order and headers, which
\* switches send first, may overtake symbols.
InOrder(p) ==
    \A q \in wire : q.conn = p.conn /\ q.kind # "HEADER" /\ q.ssn < p.ssn
                        => p.kind = "HEADER" /\ q.kind # "ACK"

----------------------------------------------------------------------------
RcvSegment(p) ==
    \/ Establish(p)
    \/ RcvFirstAck(p)
    \/ RcvHeader(p)
    \/ RcvExcessSymbol(p)
    \/ RcvSymbol(p)

Endpoints ==
    \/ \E c \in Conn : SendInitialWindow(c)
    \/ \E r \in requestWire : RcvRequest(r)
    \/ RequestTimerFires
    \/ \E g \in Groups : CloseGroup(g)

Next ==
    \/ Endpoints
    \/ \E p \in wire : RcvSegment(p) \/ Trim(p) \/ LoseSegment(p)
    \/ \E r \in requestWire : LoseRequest(r)

OrderedNext ==
    \/ Endpoints
    \/ \E p \in wire : (InOrder(p) /\ RcvSegment(p)) \/ Trim(p)

Spec == Init /\ [][Next]_vars

\* The simulation kernel delivers every scheduled event: each app's write, each
\* packet in flight, the timer.  A multi-source sink's close is a packet of the app.
Fairness ==
    /\ \A c \in Conn :
        /\ WF_vars(SendInitialWindow(c))
        /\ WF_vars(\E r \in requestWire : r.conn = c /\ RcvRequest(r))
        /\ WF_vars(\E p \in wire : p.conn = c /\ InOrder(p) /\ RcvSegment(p))
    /\ WF_vars(RequestTimerFires)
    /\ \A g \in Groups : WF_vars(CloseGroup(g))

OrderedSpec == Init /\ [][OrderedNext]_vars /\ Fairness

----------------------------------------------------------------------------
(* Properties. *)

\* Every variable has its type; the round robin's position stays on the map.
TypeOK ==
    /\ sndEsi \in [Conn -> Nat]
    /\ sndRequestId \in [Conn -> Nat]
    /\ wire \subseteq Segments
    /\ requestWire \subseteq Requests
    /\ fsm \in [Conn -> {"SYN_RCVD", "ESTABLISHED"}]
    /\ rcvEsi \in [Conn -> Nat]
    /\ rcvRequestId \in [Conn -> Nat]
    /\ numberReceivedSymbols \in [Conn -> Nat]
    /\ receivedSymbols \in [Conn -> Nat]
    /\ connFinished \in [Conn -> BOOLEAN]
    /\ isfinalReceived \in [Conn -> BOOLEAN]
    /\ pullQueue \in [Conn -> Seq(Nat)]
    /\ requestCONNMap \in Seq(Conn)
    /\ counter \in 0 .. Len(requestCONNMap)
    /\ nap \in BOOLEAN
    /\ requestTimer \in BOOLEAN
    /\ groupClosed \subseteq Groups

\* What may still turn into a symbol of c: the initial window before it is sent, then
\* the data in flight and the requests that have not been answered.
Outstanding(c) ==
    IF sndEsi[c] = 0
    THEN IW
    ELSE Cardinality(DataOf(c)) + rcvRequestId[c] - sndRequestId[c]

\* Per-connection self clocking: however packets are lost, trimmed and reordered, and
\* although one late request is answered for all the ones before it, no more than the
\* initial window is ever in flight, and in flight or asked for
\* (RQConnectionRcvSegment.cc, request and symbol arrival).
WindowBound == \A c \in Conn : Cardinality(DataOf(c)) <= IW /\ Outstanding(c) <= IW

\* The queued requests are the latest ones, in order and without a hole, and every
\* request on its way and every one answered was queued before them: the sender's gap
\* computation never answers a request that is still in the receiver's queue.
PullsInOrder ==
    \A c \in Conn :
        LET released == rcvRequestId[c] - Len(pullQueue[c])
        IN  /\ \A i \in 1 .. Len(pullQueue[c]) : pullQueue[c][i] = released + i
            /\ sndRequestId[c] <= released
            /\ \A r \in requestWire : r.conn = c => r.seq <= released

\* The pacer never sleeps on a request: while an unfinished connection it knows has
\* a queued request, its timer is set (process_REQUEST_TIMER's nap against
\* addRequestToPullsQueue's wake-up and sendFirstRequest's start).
NoLostWakeup ==
    \A c \in Conn : Registered(c) /\ ~connFinished[c] /\ pullQueue[c] # <<>> => requestTimer

\* The end is told to the app exactly when everything wanted has been handed over,
\* or the connection's multi-source group has been closed.  (Of a transfer of no
\* symbols no end is told: its first symbol is already an excess one.)
EndOfTransfer ==
    \A c \in Conn :
        /\ isfinalReceived[c] =>
              \/ receivedSymbols[c] = Wanted[c]
              \/ \E g \in groupClosed : c \in g
        /\ numberReceivedSymbols[c] >= Wanted[c] /\ Wanted[c] > 0
              => isfinalReceived[c]

\* While the network only trims, the window of an unfinished connection stays full
\* until the last window, and from then on there are always enough symbols and
\* requests outstanding to finish, although the last symbols ask for nothing (the
\* last-window branches of the symbol handler).
EnoughCredit ==
    \A c \in Conn :
        \/ connFinished[c]
        \/ Outstanding(c) = IW
        \/ numberReceivedSymbols[c] + Outstanding(c) >= Wanted[c]

\* A comment on the header handler: a header leads to "send new request with pacing".
\* A queued request is sent unless its connection has finished.
QueuedRequestsSent ==
    \A c \in Conn : pullQueue[c] # <<>> ~> (pullQueue[c] = <<>> \/ connFinished[c])

\* The sink of a group is given its quota, and its close command is processed.
SinksGetQuota == \A g \in Groups : <>(g \in groupClosed)

\* Every transfer completes: the app is told the end of each connection that has its
\* sink to itself.
Completes == \A c \in Conn : (\A g \in Groups : c \notin g) => <>isfinalReceived[c]

\* The detailed protocol implements the token transfer.
Tokens == INSTANCE TokenTransfer WITH
              tokens <- [c \in Conn |-> Outstanding(c)],
              delivered <- receivedSymbols,
              stopped <- connFinished,
              closed <- isfinalReceived

ImplementsTokens == Tokens!Spec

============================================================================
