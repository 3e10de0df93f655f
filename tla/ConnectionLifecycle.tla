------------------------- MODULE ConnectionLifecycle -------------------------
(***************************************************************************)
(* The life of one Polyraptor connection: handshake, transfer, teardown.   *)
(*                                                                         *)
(* "client" opens actively and pushes symbols, "server" is the connection  *)
(* a forking listener spins off.  Each endpoint is an RQConnection inside  *)
(* its RaptorQ module, and an application in front of it that holds an     *)
(* RQSocket.  Application and connection exchange commands and             *)
(* indications as messages; the endpoints exchange segments.               *)
(*                                                                         *)
(* The data phase is reduced to what the teardown meets (PullTransfer has  *)
(* the rest): the client's write sends one symbol, a symbol that is not    *)
(* the last is answered by a pull request and a pull request by a symbol.  *)
(*                                                                         *)
(* Numbers are those of the send side (SendSide): nothing that sends       *)
(* symbols advances them, so CLOSE finds something pending only when a     *)
(* request was written before the connection was established; and the code *)
(* never reads an acknowledgement number after SYN_SENT.                   *)
(***************************************************************************)
EXTENDS RQStates, SendSide, SequencesExt

CONSTANTS
    Closers,         \* endpoints whose application may close on its own
    Answerers,       \* endpoints whose application answers PEER_CLOSED with close
    Aborters,        \* endpoints whose application may abort
    Symbols,         \* numSymbolsToGet
    Loses,           \* BOOLEAN: segments are lost
    Setups           \* how the hosts and the network may be configured

Endpoint == {"client", "server"}

Peer(e) == IF e = "client" THEN "server" ELSE "client"

ASSUME AppsAssumption ==
    Closers \subseteq Endpoint /\ Answerers \subseteq Endpoint /\ Aborters \subseteq Endpoint
ASSUME TransferAssumption == Symbols \in Nat \ {0} /\ Loses \in BOOLEAN

\* rqAlgorithmClass of both hosts; the size of a request that the client writes while it
\* still connects, 0 for none; whether segments of one direction overtake each other and
\* whether a timer outlasts every message in transit; MAX_REXMIT_COUNT (12 in the source).
ASSUME SetupsAssumption ==
    Setups \subseteq [algorithm : Flavours, request : Nat, reorders : BOOLEAN,
                      timely : BOOLEAN, maxRexmit : Nat]

VARIABLES
    setup,        \* the configuration of this simulation
    \* --- connections
    fsm,          \* state of the connection's FSM
    known,        \* the host's tables hold the connection
    timers,       \* which of its timers are scheduled
    rexmitCount,  \* state->rexmit_count
    snd,          \* the send side (SendSide)
    received,     \* numberReceivedSymbols
    \* --- applications
    sockstate,    \* RQSocket::sockstate
    toApp,        \* indications on their way to the application
    toConn,       \* commands on their way to the connection
    \* --- network
    listening,    \* the server host has a listener
    wire,         \* segments on their way to each endpoint
    \* --- the simulation and its history
    error,        \* the runtime error that ended the simulation, or "none"
    told,         \* every indication sent
    aborted,      \* an abort has been processed
    closeCalls,   \* close commands issued
    finSeqs       \* numbers of the FINs sent

connVars == <<setup, fsm, known, timers, rexmitCount, snd, received>>
appVars  == <<sockstate, toApp, toConn>>
history  == <<told, aborted, closeCalls, finSeqs>>
vars     == <<connVars, appVars, listening, wire, error, history>>

----------------------------------------------------------------------------
Kinds == {"SYN", "SYNACK", "FIRSTACK", "ACK", "FIN", "RST", "RSTACK", "SYMBOL", "PULL"}

\* Segments that carry the ACK bit, and those that carry the id of the served file.
Acks == {"SYNACK", "FIRSTACK", "ACK", "FIN", "RSTACK"}
CarriesFileId == {"SYN", "FIRSTACK"}

\* An event with the indications and the timers its handler has left, then the
\* transition.  A segment or a command that closes the connection removes it.
Perform(e, event, tells, armed) ==
    LET new == NextState(fsm[e], event)
        all == tells \o EntryTells(fsm[e], new, event)
    IN  /\ fsm' = [fsm EXCEPT ![e] = new]
        /\ timers' = [timers EXCEPT ![e] = EntryTimers(fsm[e], new, armed)]
        /\ toApp' = [toApp EXCEPT ![e] = @ \o all]
        /\ told' = [told EXCEPT ![e] = @ \o all]

RemoveIfClosed(e) == known' = [known EXCEPT ![e] = fsm'[e] # "CLOSED"]

Fail(reason) ==
    /\ error' = reason
    /\ UNCHANGED <<connVars, appVars, listening, wire, history>>

Running == error = "none"

----------------------------------------------------------------------------
Init ==
    /\ setup \in Setups
    /\ fsm = [e \in Endpoint |-> IF e = "client" THEN "INIT" ELSE "LISTEN"]
    /\ listening \in BOOLEAN
    /\ known = [e \in Endpoint |-> e = "server" /\ listening]
    /\ timers = [e \in Endpoint |-> {}]
    /\ rexmitCount = [e \in Endpoint |-> 0]
    /\ snd = [e \in Endpoint |-> Unnumbered]
    /\ received = [e \in Endpoint |-> 0]
    /\ sockstate = [e \in Endpoint |-> "BOUND"]
    /\ toApp = [e \in Endpoint |-> <<>>]
    /\ toConn = [e \in Endpoint |-> <<>>]
    /\ wire = [e \in Endpoint |-> <<>>]
    /\ error = "none"
    /\ told = [e \in Endpoint |-> <<>>]
    /\ aborted = [e \in Endpoint |-> FALSE]
    /\ closeCalls = [e \in Endpoint |-> 0]
    /\ finSeqs = [e \in Endpoint |-> {}]

----------------------------------------------------------------------------
\* Applications.

Command(e, commands) == toConn' = [toConn EXCEPT ![e] = @ \o commands]

Connect ==
    /\ Running
    /\ sockstate["client"] = "BOUND"
    /\ sockstate' = [sockstate EXCEPT !["client"] = "CONNECTING"]
    /\ Command("client", <<"OPEN_ACTIVE">>)
    /\ UNCHANGED <<connVars, toApp, listening, wire, error, history>>

\* RQSocket::send by a client that does not wait to be connected (once, a bound).
WriteEarly ==
    /\ Running
    /\ setup.request > 0
    /\ sockstate["client"] = "CONNECTING"
    /\ fsm["client"] \in {"INIT", "SYN_SENT"}
    /\ ~Contains(toConn["client"], "SEND")
    /\ snd["client"].queue.end = 1
    /\ Command("client", <<"SEND">>)
    /\ UNCHANGED <<connVars, sockstate, toApp, listening, wire, error, history>>

\* RQSocket::close by an application that has had enough.
AppCloses(e) ==
    /\ Running
    /\ e \in Closers
    /\ sockstate[e] \in {"CONNECTED", "CONNECTING", "PEER_CLOSED"}
    /\ sockstate' = [sockstate EXCEPT ![e] = IF @ = "CONNECTED" THEN "LOCALLY_CLOSED" ELSE "CLOSED"]
    /\ Command(e, <<"CLOSE">>)
    /\ closeCalls' = [closeCalls EXCEPT ![e] = @ + 1]
    /\ UNCHANGED <<connVars, toApp, listening, wire, error, told, aborted, finSeqs>>

AppAborts(e) ==
    /\ Running
    /\ e \in Aborters
    /\ sockstate[e] \notin {"BOUND", "CLOSED", "SOCKERROR"}
    /\ sockstate' = [sockstate EXCEPT ![e] = "CLOSED"]
    /\ Command(e, <<"ABORT">>)
    /\ UNCHANGED <<connVars, toApp, listening, wire, error, history>>

\* RQSocket::processMessage and the callbacks: the client writes when it is connected,
\* an answering application closes when its peer has.
AppReceives(e) ==
    /\ Running
    /\ toApp[e] # <<>>
    /\ LET indication == Head(toApp[e])
           answers == indication = "PEER_CLOSED" /\ e \in Answerers
       IN  /\ sockstate' = [sockstate EXCEPT ![e] =
                  CASE indication = "ESTABLISHED" -> "CONNECTED"
                    [] indication = "PEER_CLOSED" -> IF answers THEN "CLOSED" ELSE "PEER_CLOSED"
                    [] indication = "CLOSED" -> "CLOSED"
                    [] OTHER -> "SOCKERROR"]
           /\ Command(e, CASE answers -> <<"CLOSE">>
                           [] indication = "ESTABLISHED" /\ e = "client" -> <<"SEND">>
                           [] OTHER -> <<>>)
           /\ closeCalls' = [closeCalls EXCEPT ![e] = IF answers THEN @ + 1 ELSE @]
    /\ toApp' = [toApp EXCEPT ![e] = Tail(@)]
    /\ UNCHANGED <<connVars, listening, wire, error, told, aborted, finSeqs>>

----------------------------------------------------------------------------
\* Commands, RQConnection::processAppCommand.

\* The next command for e, for a connection the host knows: event, and what it sends.
TakeCommand(e, command) ==
    /\ Running
    /\ toConn[e] # <<>>
    /\ Head(toConn[e]) = command

Execute(e, event, sends, armed) ==
    /\ Perform(e, event, <<>>, armed)
    /\ RemoveIfClosed(e)
    /\ toConn' = [toConn EXCEPT ![e] = Tail(@)]
    /\ wire' = [wire EXCEPT ![Peer(e)] = @ \o sends]
    /\ UNCHANGED <<setup, received, sockstate, listening, error, closeCalls>>

SendSideOf(e, new) == snd' = [snd EXCEPT ![e] = new]

ProcessOpenActive(e) ==
    /\ TakeCommand(e, "OPEN_ACTIVE")
    /\ fsm[e] = "INIT"
    /\ Execute(e, "OPEN_ACTIVE", <<"SYN">>, timers[e])
    /\ SendSideOf(e, SynNumbered(snd[e]))
    /\ UNCHANGED <<rexmitCount, aborted, finSeqs>>

\* A request before the connection is established is queued, and nothing takes it from
\* there: established sends only the first ACK.
ProcessEarlySend(e) ==
    /\ TakeCommand(e, "SEND")
    /\ known[e]
    /\ fsm[e] \in {"SYN_SENT", "SYN_RCVD"}
    /\ Execute(e, "SEND", <<>>, timers[e])
    /\ SendSideOf(e, [snd[e] EXCEPT !.queue = EnqueueAppData(@, setup.request)])
    /\ UNCHANGED <<rexmitCount, aborted, finSeqs>>

\* The client's application writes: the initial window is sent, once.
ProcessSend(e) ==
    /\ TakeCommand(e, "SEND")
    /\ known[e]
    /\ fsm[e] \in {"ESTABLISHED", "CLOSE_WAIT"}
    /\ \E sends \in SendCommandInvoked(setup.algorithm, Request(2), snd[e].started) :
          /\ Execute(e, "SEND", IF sends THEN <<"SYMBOL">> ELSE <<>>, timers[e])
          /\ SendSideOf(e, [snd[e] EXCEPT !.started = @ \/ sends])
    /\ UNCHANGED <<rexmitCount, aborted, finSeqs>>

\* A CLOSE before the peer is known only closes.
ProcessEarlyClose(e) ==
    /\ TakeCommand(e, "CLOSE")
    /\ known[e]
    /\ fsm[e] \in {"LISTEN", "SYN_SENT"}
    /\ Execute(e, "CLOSE", <<>>, timers[e])
    /\ UNCHANGED <<rexmitCount, snd, aborted, finSeqs>>

NoteFins(e, seqs) == finSeqs' = [finSeqs EXCEPT ![e] = @ \cup seqs]

RexmitStarted(e) == IF HasRexmitTimer(setup.algorithm) THEN timers[e] \cup {"REXMIT"} ELSE timers[e]

\* Wrong: the FIN is sent once.
ProcessCloseOneFin(e) ==
    /\ TakeCommand(e, "CLOSE")
    /\ known[e]
    /\ fsm[e] \in {"SYN_RCVD", "ESTABLISHED", "CLOSE_WAIT"}
    /\ Execute(e, IF FinDeferred(snd[e]) THEN "IGNORE" ELSE "CLOSE", <<"FIN">>, RexmitStarted(e))
    /\ SendSideOf(e, AfterClose(snd[e]))
    /\ NoteFins(e, ToSet(CloseNumbers(snd[e])))
    /\ rexmitCount' = [rexmitCount EXCEPT ![e] = 0]
    /\ UNCHANGED aborted

\* Otherwise the FIN is sent, twice, and the retransmission timer started.  Queued bytes
\* defer the second one and the transition.
ProcessClose(e) ==
    /\ TakeCommand(e, "CLOSE")
    /\ known[e]
    /\ fsm[e] \in {"SYN_RCVD", "ESTABLISHED", "CLOSE_WAIT"}
    /\ Execute(e, IF FinDeferred(snd[e]) THEN "IGNORE" ELSE "CLOSE",
               [i \in DOMAIN CloseNumbers(snd[e]) |-> "FIN"], RexmitStarted(e))
    /\ SendSideOf(e, AfterClose(snd[e]))
    /\ NoteFins(e, ToSet(CloseNumbers(snd[e])))
    /\ rexmitCount' = [rexmitCount EXCEPT ![e] = 0]
    /\ UNCHANGED aborted

ProcessAbort(e) ==
    /\ TakeCommand(e, "ABORT")
    /\ known[e]
    /\ fsm[e] \notin {"INIT", "CLOSED"}
    /\ LET resets == fsm[e] \in {"SYN_RCVD", "ESTABLISHED", "FIN_WAIT_1", "FIN_WAIT_2", "CLOSE_WAIT"}
       IN  Execute(e, "ABORT", IF resets THEN <<"RST">> ELSE <<>>, timers[e])
    /\ aborted' = [aborted EXCEPT ![e] = TRUE]
    /\ UNCHANGED <<rexmitCount, snd, finSeqs>>

\* Commands that end the simulation: for a connection that is gone (the host makes a
\* new one, which is not open), that is closing, or that was closed and never removed.
RejectCommand(e) ==
    /\ Running
    /\ toConn[e] # <<>>
    /\ Head(toConn[e]) # "OPEN_ACTIVE"
    /\ \/ ~known[e] /\ Fail("NOT_OPEN")
       \/ known[e] /\ fsm[e] = "CLOSED" /\ Fail("EVENT_WHILE_CLOSED")
       \/ /\ known[e]
          /\ fsm[e] \in {"FIN_WAIT_1", "FIN_WAIT_2", "CLOSING", "LAST_ACK", "TIME_WAIT"}
          /\ \/ Head(toConn[e]) = "CLOSE" /\ Fail("DUPLICATE_CLOSE")
             \/ Head(toConn[e]) = "SEND" /\ Fail("CLOSING")

----------------------------------------------------------------------------
\* Segments, RQConnection::process_RCV_SEGMENT.

\* The i-th segment on the way to e is the next to arrive.
Arrives(e, i, kinds) ==
    /\ Running
    /\ i = 1 \/ setup.reorders
    /\ wire[e][i] \in kinds

Deliver(e, i, sends) == wire' = [wire EXCEPT ![e] = RemoveAt(@, i), ![Peer(e)] = @ \o sends]

Handle(e, i, event, sends, tells, armed) ==
    /\ known[e]
    /\ Perform(e, event, tells, armed)
    /\ RemoveIfClosed(e)
    /\ Deliver(e, i, sends)
    /\ UNCHANGED <<setup, rexmitCount, sockstate, toConn, listening, error,
                   aborted, closeCalls, finSeqs>>

\* LISTEN: a SYN makes the connection the server's, anything else of the served file
\* carries an ACK and is reset.
RcvInListen(e, i) ==
    /\ Arrives(e, i, CarriesFileId)
    /\ fsm[e] = "LISTEN"
    /\ \/ /\ wire[e][i] = "SYN"
          /\ Handle(e, i, "RCV_SYN", <<"SYNACK">>, <<>>, timers[e] \cup {"CONN_ESTAB"})
          /\ SendSideOf(e, SynNumbered(snd[e]))
       \/ /\ wire[e][i] # "SYN"
          /\ Handle(e, i, "IGNORE", <<"RST">>, <<>>, timers[e])
          /\ UNCHANGED snd
    /\ UNCHANGED received

RcvSynAck(e, i) ==
    /\ Arrives(e, i, {"SYNACK"})
    /\ fsm[e] = "SYN_SENT"
    /\ \E reply \in ActiveReplies(setup.algorithm) :
          /\ Handle(e, i, "RCV_SYN_ACK", IF reply = "NONE" THEN <<>> ELSE <<reply>>,
                    <<"ESTABLISHED">>, timers[e])
          /\ SendSideOf(e, [SynAcknowledged(snd[e]) EXCEPT !.started = reply = "SYMBOL"])
    /\ UNCHANGED received

RcvInSynSent(e, i) ==
    /\ Arrives(e, i, Kinds \ {"SYNACK"})
    /\ fsm[e] = "SYN_SENT"
    /\ \/ /\ wire[e][i] = "RSTACK"
          /\ Handle(e, i, "RCV_RST", <<>>, <<"CONNECTION_RESET">>, timers[e])
       \/ /\ wire[e][i] # "RSTACK"
          /\ Handle(e, i, "IGNORE", <<>>, <<>>, timers[e])
    /\ UNCHANGED <<snd, received>>

\* processSegment1stThru8th outside ESTABLISHED.
HandleOutcome(e, i, o) == Handle(e, i, o.event, o.sends, o.tells, o.timers)

RcvFin(e, i) ==
    /\ Arrives(e, i, {"FIN"})
    /\ fsm[e] \notin {"SYN_SENT", "CLOSED"}
    /\ HandleOutcome(e, i, FinOutcome(fsm[e], timers[e]))
    /\ UNCHANGED <<snd, received>>

RcvClosing(e, i) ==
    /\ Arrives(e, i, Kinds \ {"FIN"})
    /\ fsm[e] \notin {"INIT", "CLOSED", "SYN_SENT", "ESTABLISHED"}
    /\ fsm[e] = "LISTEN" => wire[e][i] \notin CarriesFileId
    /\ HandleOutcome(e, i, OtherOutcome(fsm[e], timers[e]))
    /\ UNCHANGED <<snd, received>>

\* ESTABLISHED: a symbol is answered by a pull request until the last one, which tells
\* the application that the peer is done; a pull request is answered by a symbol.
RcvEstablished(e, i) ==
    /\ Arrives(e, i, Kinds \ {"FIN"})
    /\ fsm[e] = "ESTABLISHED"
    /\ \/ /\ wire[e][i] = "SYMBOL"
          /\ received' = [received EXCEPT ![e] = @ + 1]
          /\ Handle(e, i, "IGNORE",
                    IF received[e] + 1 < Symbols THEN <<"PULL">> ELSE <<>>,
                    IF received[e] + 1 = Symbols THEN <<"PEER_CLOSED">> ELSE <<>>,
                    timers[e])
       \/ /\ wire[e][i] = "PULL"
          /\ Handle(e, i, "IGNORE", <<"SYMBOL">>, <<>>, timers[e])
          /\ UNCHANGED received
       \/ /\ wire[e][i] \notin {"SYMBOL", "PULL"}
          /\ Handle(e, i, "IGNORE", <<>>, <<>>, timers[e])
          /\ UNCHANGED received
    /\ UNCHANGED snd

Falls(e) == e = "server" /\ listening

\* Wrong: a SYN is refused without an ACK bit, which SYN_SENT ignores.
RcvUnknownPlainReset(e, i) ==
    /\ Arrives(e, i, Kinds)
    /\ ~known[e]
    /\ Deliver(e, i, IF wire[e][i] \in {"RST", "RSTACK"} THEN <<>> ELSE <<"RST">>)
    /\ UNCHANGED <<connVars, appVars, listening, error, history>>

\* A segment for a connection the host does not know: without a listener on its port
\* segmentArrivalWhileClosed answers.
RcvUnknown(e, i) ==
    /\ Arrives(e, i, Kinds)
    /\ ~known[e]
    /\ ~Falls(e)
    /\ LET k == wire[e][i]
       IN  \/ k \in {"RST", "RSTACK"} /\ Deliver(e, i, <<>>)
           \/ k \in Acks \ {"RSTACK"} /\ Deliver(e, i, <<"RST">>)
           \/ k \notin Acks \cup {"RST"} /\ Deliver(e, i, <<"RSTACK">>)
    /\ UNCHANGED <<connVars, appVars, listening, error, history>>

\* At the server's host the segment falls to the listener: it resets what carries the
\* served file and an ACK, drops the rest, and has no address to acknowledge a FIN to.
RcvAtListener(e, i) ==
    /\ Arrives(e, i, Kinds)
    /\ ~known[e]
    /\ Falls(e)
    /\ \/ wire[e][i] = "FIN" /\ Fail("NO_PEER")
       \/ /\ wire[e][i] # "FIN"
          /\ Deliver(e, i, IF wire[e][i] = "FIRSTACK" THEN <<"RST">> ELSE <<>>)
          /\ UNCHANGED <<connVars, appVars, listening, error, history>>

\* performStateTransition's assertion: the connection was closed and never removed.
RcvWhileClosed(e, i) ==
    /\ Arrives(e, i, Kinds)
    /\ known[e]
    /\ fsm[e] = "CLOSED"
    /\ Fail("EVENT_WHILE_CLOSED")

----------------------------------------------------------------------------
\* Timers, RQConnection::processTimer.  The host does not remove a connection that a
\* timer has closed.

\* Timers run for seconds, messages for micro- and milliseconds.
Due(e, timer) ==
    /\ timer \in timers[e]
    /\ setup.timely => \A d \in Endpoint : wire[d] = <<>> /\ toApp[d] = <<>> /\ toConn[d] = <<>>

Expire(e, timer, event, tells, armed) ==
    /\ Running
    /\ Due(e, timer)
    /\ Perform(e, event, tells, armed)
    /\ UNCHANGED <<setup, known, received, sockstate, toConn, listening, error,
                   aborted, closeCalls>>

ConnEstabTimeout(e) ==
    /\ fsm[e] = "SYN_RCVD"
    /\ Expire(e, "CONN_ESTAB", "TIMEOUT_CONN_ESTAB", <<>>, timers[e] \ {"CONN_ESTAB"})
    /\ UNCHANGED <<rexmitCount, snd, wire, finSeqs>>

TimeWaitTimeout(e) ==
    /\ fsm[e] = "TIME_WAIT"
    /\ Expire(e, "TIMEOUT_2MSL", "TIMEOUT_2MSL", <<>>, timers[e] \ {"TIMEOUT_2MSL"})
    /\ UNCHANGED <<rexmitCount, snd, wire, finSeqs>>

\* processRexmitTimer of RQReno and RQVegas: one segment is sent again.
SendAgain(e) ==
    LET r == Retransmission(snd[e])
    IN  /\ SendSideOf(e, AfterRexmit(setup.algorithm, snd[e]))
        /\ wire' = [wire EXCEPT ![Peer(e)] = Append(@, r.kind)]
        /\ NoteFins(e, IF r.kind = "FIN" THEN {r.seq} ELSE {})

AgainOrNothing(e) ==
    \/ Resends(setup.algorithm) /\ RexmitError(setup.algorithm, snd[e]) = "none" /\ SendAgain(e)
    \/ ~Resends(setup.algorithm) /\ UNCHANGED <<snd, wire, finSeqs>>

\* Wrong: the timer never gives up.
RexmitTimeoutForever(e) ==
    /\ rexmitCount' = [rexmitCount EXCEPT ![e] = @ + 1]
    /\ Expire(e, "REXMIT", "IGNORE", <<>>, timers[e])
    /\ AgainOrNothing(e)

\* Wrong: a retransmission starts counting again.
RexmitTimeoutUncounted(e) ==
    /\ UNCHANGED rexmitCount
    /\ Expire(e, "REXMIT", "IGNORE", <<>>, timers[e])
    /\ AgainOrNothing(e)

\* The timer counts, a flavour may send again, and after the last try it aborts.
RexmitTimeout(e) ==
    /\ rexmitCount' = [rexmitCount EXCEPT ![e] = @ + 1]
    /\ \/ /\ rexmitCount[e] < setup.maxRexmit
          /\ Expire(e, "REXMIT", "IGNORE", <<>>, timers[e])
          /\ AgainOrNothing(e)
       \/ /\ rexmitCount[e] >= setup.maxRexmit
          /\ Expire(e, "REXMIT", "ABORT", <<"TIMED_OUT">>, timers[e] \ {"REXMIT"})
          /\ UNCHANGED <<snd, wire, finSeqs>>

\* An assertion about what is to be sent again fails.
RexmitFails(e) ==
    /\ Running
    /\ Due(e, "REXMIT")
    /\ rexmitCount[e] < setup.maxRexmit
    /\ Resends(setup.algorithm)
    /\ RexmitError(setup.algorithm, snd[e]) # "none"
    /\ Fail(RexmitError(setup.algorithm, snd[e]))

----------------------------------------------------------------------------
LoseSegment(e, i) ==
    /\ Running
    /\ Loses
    /\ wire' = [wire EXCEPT ![e] = RemoveAt(@, i)]
    /\ UNCHANGED <<connVars, appVars, listening, error, history>>

App(e) == AppCloses(e) \/ AppAborts(e) \/ AppReceives(e)

ProcessAppCommand(e) ==
    \/ ProcessOpenActive(e)
    \/ ProcessEarlySend(e)
    \/ ProcessSend(e)
    \/ ProcessEarlyClose(e)
    \/ ProcessClose(e)
    \/ ProcessAbort(e)
    \/ RejectCommand(e)

RcvSegment(e, i) ==
    \/ RcvInListen(e, i)
    \/ RcvSynAck(e, i)
    \/ RcvInSynSent(e, i)
    \/ RcvFin(e, i)
    \/ RcvClosing(e, i)
    \/ RcvEstablished(e, i)
    \/ RcvUnknown(e, i)
    \/ RcvAtListener(e, i)
    \/ RcvWhileClosed(e, i)

TimerFires(e) == ConnEstabTimeout(e) \/ TimeWaitTimeout(e) \/ RexmitTimeout(e) \/ RexmitFails(e)

Next ==
    \/ Connect
    \/ WriteEarly
    \/ \E e \in Endpoint :
        \/ App(e)
        \/ ProcessAppCommand(e)
        \/ TimerFires(e)
        \/ \E i \in 1 .. Len(wire[e]) : RcvSegment(e, i) \/ LoseSegment(e, i)

Spec == Init /\ [][Next]_vars

\* The kernel processes every scheduled message: indications, commands, segments that
\* are not lost, and timers.
Fairness ==
    \A e \in Endpoint :
        /\ WF_vars(AppReceives(e))
        /\ WF_vars(ProcessAppCommand(e))
        /\ WF_vars(TimerFires(e))
        /\ WF_vars(\E i \in 1 .. Len(wire[e]) : RcvSegment(e, i))

FairSpec == Spec /\ Fairness

----------------------------------------------------------------------------
(* Properties. *)

TypeOK ==
    /\ setup \in Setups
    /\ fsm \in [Endpoint -> States]
    /\ known \in [Endpoint -> BOOLEAN]
    /\ timers \in [Endpoint -> SUBSET Timers]
    /\ rexmitCount \in [Endpoint -> 0 .. setup.maxRexmit + 1]
    /\ received \in [Endpoint -> Nat]
    /\ sockstate \in [Endpoint -> {"BOUND", "CONNECTING", "CONNECTED", "PEER_CLOSED",
                                   "LOCALLY_CLOSED", "CLOSED", "SOCKERROR"}]
    /\ toApp \in [Endpoint -> Seq({"ESTABLISHED", "PEER_CLOSED", "CLOSED", "TIMED_OUT",
                                   "CONNECTION_RESET"})]
    /\ toConn \in [Endpoint -> Seq({"OPEN_ACTIVE", "SEND", "CLOSE", "ABORT"})]
    /\ listening \in BOOLEAN
    /\ wire \in [Endpoint -> Seq(Kinds)]
    /\ error \in {"none", "NOT_OPEN", "EVENT_WHILE_CLOSED", "DUPLICATE_CLOSE", "CLOSING",
                  "NO_PEER", "NOT_IN_QUEUE", "NO_REGION"}
    /\ aborted \in [Endpoint -> BOOLEAN]
    /\ closeCalls \in [Endpoint -> Nat]

\* The states in which a connection may stay although it has been closed: when queued
\* bytes have deferred its FIN.
Deferring(e) == IF snd[e].finSeq > 1 THEN {"ESTABLISHED", "CLOSE_WAIT"} ELSE {}

\* A timer is scheduled only in a state whose expiry handler accepts it: the internal
\* errors of process_TIMEOUT_CONN_ESTAB and process_TIMEOUT_2MSL are unreachable, and a
\* closed connection has no timer left that could fire into it.
TimersMatchState ==
    \A e \in Endpoint :
        /\ "CONN_ESTAB" \in timers[e] => fsm[e] = "SYN_RCVD"
        /\ "TIMEOUT_2MSL" \in timers[e] => fsm[e] = "TIME_WAIT"
        /\ "REXMIT" \in timers[e] =>
               fsm[e] \in {"FIN_WAIT_1", "FIN_WAIT_2", "CLOSING", "LAST_ACK"}
                             \cup Deferring(e)

\* While no message is between application and connection, the socket's idea of the
\* connection is right.
SocketAgrees ==
    \A e \in Endpoint :
        toApp[e] = <<>> /\ toConn[e] = <<>> =>
            /\ sockstate[e] = "CONNECTING" => fsm[e] = "SYN_SENT"
            /\ sockstate[e] = "CONNECTED" => fsm[e] = "ESTABLISHED"
            /\ sockstate[e] = "LOCALLY_CLOSED" =>
                   fsm[e] \in {"FIN_WAIT_1", "FIN_WAIT_2", "CLOSING"} \cup Deferring(e)
            /\ sockstate[e] = "CLOSED" =>
                   fsm[e] \notin {"SYN_SENT", "SYN_RCVD", "ESTABLISHED"} \ Deferring(e)

\* What the application is told keeps the transport's contract.
Contract == INSTANCE SocketContract

KeepsContract == Contract!Spec

\* Closed connections are deleted immediately (the assertion of performStateTransition).
ClosedIsDeleted == \A e \in Endpoint : fsm[e] = "CLOSED" => ~known[e]

\* Only a duplicate close request is treated as an error (process_CLOSE): the simulation
\* stops with that error only after an application has closed twice.
OnlyDuplicatesRejected == error = "DUPLICATE_CLOSE" => \E e \in Endpoint : closeCalls[e] > 1

\* When nothing is lost, an attempt to connect ends, also without a listener: the active
\* side has no timer, so every SYN must be answered (segmentArrivalWhileClosed).
HandshakeEnds ==
    \A e \in Endpoint : fsm[e] = "SYN_SENT" ~> fsm[e] # "SYN_SENT" \/ ~Running

\* A connection does not stay in TIME_WAIT: the only thing left to do there is to wait
\* until the 2MSL timer expires.
TimeWaitEnds ==
    \A e \in Endpoint : fsm[e] = "TIME_WAIT" ~> fsm[e] # "TIME_WAIT" \/ ~Running

\* A FIN has one number, whether it is sent twice by CLOSE or again by a timer, so that
\* the peer could tell a repeated one from a new one; only a close that was deferred
\* numbers it anew behind the queued bytes (process_CLOSE, retransmitOneSegment).
FinHasOneNumber ==
    \A e \in Endpoint : Cardinality(finSeqs[e]) > 1 => snd[e].finSeq > 1

\* While its timer runs, the end that opened actively can resend: no assertion of
\* retransmitOneSegment fails, and in RQVegas none of its list unless queued bytes have
\* deferred the close.  (The passive end never learns that its SYN was acknowledged, so it
\* has nothing it could resend.)
ActiveEndCanResend ==
    "REXMIT" \in timers["client"] =>
        /\ RexmitError("RQReno", snd["client"]) = "none"
        /\ snd["client"].finSeq = 1 => RexmitError("RQVegas", snd["client"]) = "none"

\* When nothing is lost and nothing queued, a close takes both sides to CLOSED: in turn, by
\* the repeated FIN that ends TIME_WAIT, or when both have closed at once, by their
\* retransmission timers.  (A deferred close does not repeat the FIN.)
TeardownCompletes ==
    \A e \in Endpoint :
        fsm[e] = "FIN_WAIT_1" /\ HasRexmitTimer(setup.algorithm) /\ setup.request = 0
            ~> (\A d \in Endpoint : fsm[d] = "CLOSED") \/ ~Running

\* An application that has closed is told how it ended, also when queued bytes defer the
\* close: the FIN sent in spite of them, or the retransmission timer, ends it.
CloseIsAnswered ==
    \A e \in Endpoint :
        sockstate[e] = "LOCALLY_CLOSED" /\ HasRexmitTimer(setup.algorithm)
            ~> sockstate[e] # "LOCALLY_CLOSED" \/ ~Running

=============================================================================
