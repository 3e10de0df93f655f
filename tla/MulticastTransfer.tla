-------------------------- MODULE MulticastTransfer --------------------------
(***************************************************************************)
(* A multicast session: one sender, a group of receivers on hosts of their *)
(* own.                                                                    *)
(*                                                                         *)
(* The sender has one connection, to its edge router, and sends each       *)
(* segment once; routers copy it to every receiver.  What the receivers    *)
(* send carries isMulticastReceiver, and the sender's host takes the       *)
(* router's address for its source: the SYN+ACKs and requests of the whole *)
(* group reach the one connection.  Its request_id counts the requests     *)
(* answered, whoever sent them.                                            *)
(*                                                                         *)
(* The routers are external.  They trim symbols and keep the order of the  *)
(* segments on the path to one receiver, headers excepted; the paths are   *)
(* independent, and what receivers send may arrive in any order.           *)
(***************************************************************************)
EXTENDS Integers, Sequences, FiniteSets, PullRules

CONSTANTS
    Receivers,   \* the receivers of the group
    Wanted,      \* numSymbolsToGet, the same at each receiver
    TrimLimit    \* bound: symbols up to this number may be trimmed, per receiver

ASSUME MulticastAssumption ==
    /\ IsFiniteSet(Receivers)
    /\ Receivers # {}
    /\ IW \in Nat \ {0}
    /\ Wanted \in Nat \ {0}
    /\ TrimLimit \in [Receivers -> Nat]

VARIABLES
    sndFsm,        \* state of the sender's connection
    sndEsi,        \* its esi: symbols sent
    sndRequestId,  \* its request_id: requests answered
    path,          \* path[r]: segments on their way to r
    backward,      \* SYN+ACKs and requests on their way to the sender
    rcv            \* rcv[r]: the connection and the host of r

vars == <<sndFsm, sndEsi, sndRequestId, path, backward, rcv>>

----------------------------------------------------------------------------
\* Segments.  ssn of the first two is below every symbol number.
Syn       == [kind |-> "SYN", ssn |-> -1]
FirstAck  == [kind |-> "ACK", ssn |-> 0]
Symbol(i) == [kind |-> "SYMBOL", ssn |-> i]
Header(i) == [kind |-> "HEADER", ssn |-> i]

SynAck(r)     == [kind |-> "SYNACK", from |-> r, seq |-> 0]
Request(r, i) == [kind |-> "REQUEST", from |-> r, seq |-> i]

\* The numbers of the next k symbols; wrong: esi is incremented too late.
NewSymbolsNumberedLate(k) == {Symbol(i) : i \in sndEsi .. sndEsi + k - 1}

NewSymbols(k) == {Symbol(i) : i \in sndEsi + 1 .. sndEsi + k}

\* One segment of the sender is copied to every receiver.
Multicast(segs) == path' = [r \in Receivers |-> path[r] \cup segs]

\* The listening connection of r, alone on its host.
Listening ==
    [fsm |-> "LISTEN", esi |-> 0, requestId |-> 0, received |-> 0, delivered |-> 0,
     finished |-> FALSE, final |-> FALSE, pullQueue |-> <<>>,
     registered |-> FALSE, nap |-> FALSE, requestTimer |-> FALSE]

Init ==
    /\ sndFsm = "SYN_SENT"
    /\ sndEsi = 0
    /\ sndRequestId = 0
    /\ path = [r \in Receivers |-> {Syn}]
    /\ backward = {}
    /\ rcv = [r \in Receivers |-> Listening]

----------------------------------------------------------------------------
\* The sender.

\* The first SYN+ACK establishes the connection; the first ACK goes to the group.
RcvSynAck(q) ==
    /\ q.kind = "SYNACK"
    /\ sndFsm = "SYN_SENT"
    /\ sndFsm' = "ESTABLISHED"
    /\ Multicast({FirstAck})
    /\ backward' = backward \ {q}
    /\ UNCHANGED <<sndEsi, sndRequestId, rcv>>

\* The SYN+ACKs of the others are neither requests nor data.
RcvLateSynAck(q) ==
    /\ q.kind = "SYNACK"
    /\ sndFsm = "ESTABLISHED"
    /\ backward' = backward \ {q}
    /\ UNCHANGED <<sndFsm, sndEsi, sndRequestId, path, rcv>>

SendInitialWindow ==
    /\ sndFsm = "ESTABLISHED"
    /\ sndEsi = 0
    /\ Multicast(NewSymbols(IW))
    /\ sndEsi' = IW
    /\ sndRequestId' = 0
    /\ UNCHANGED <<sndFsm, backward, rcv>>

RcvRequest(q) ==
    LET gap == RequestsGap(q.seq, sndRequestId)
    IN  /\ q.kind = "REQUEST"
        /\ sndFsm = "ESTABLISHED"
        /\ Multicast(NewSymbols(gap))
        /\ sndEsi' = sndEsi + gap
        /\ sndRequestId' = sndRequestId + gap
        /\ backward' = backward \ {q}
        /\ UNCHANGED <<sndFsm, rcv>>

----------------------------------------------------------------------------
\* A receiver: what its connection and the pacer of its host do, as functions of h.

\* Wrong: a segment asks twice, or its request does not wake the pacer.
AsksTwice(h) ==
    [h EXCEPT !.requestId = @ + 2,
              !.pullQueue = @ \o <<h.requestId + 1, h.requestId + 2>>,
              !.requestTimer = @ \/ h.nap]

AsksInTheNap(h) ==
    [h EXCEPT !.requestId = @ + 1, !.pullQueue = Append(@, h.requestId + 1)]

\* addRequestToPullsQueue: queue one request, and wake the pacer.
AddRequestToPullsQueue(h) ==
    [h EXCEPT !.requestId = @ + 1,
              !.pullQueue = Append(@, h.requestId + 1),
              !.requestTimer = @ \/ h.nap]

\* The connection joins requestCONNMap, and sendFirstRequest starts the pacer.
Registered(h) ==
    [h EXCEPT !.registered = TRUE, !.requestTimer = @ \/ h.pullQueue # <<>>]

AfterHeader(h) ==
    LET asked == AddRequestToPullsQueue(h)
    IN  IF h.received = 0 /\ ~h.registered THEN Registered(asked) ELSE asked

\* allConnFinished cancels the pacer's timer: the host has no other connection.
AfterExcessSymbol(h) ==
    [h EXCEPT !.esi = @ + 1, !.received = @ + 1, !.finished = TRUE, !.requestTimer = FALSE]

AfterWantedSymbol(h, ssn) ==
    LET n == h.received + 1
        asks == Asks(n, ssn - (h.esi + 1), Wanted, h.finished)
        asked == IF asks THEN AddRequestToPullsQueue(h) ELSE h
        known == IF n = 1 /\ ~h.registered THEN Registered(asked) ELSE asked
    IN  [known EXCEPT !.esi = NextEsi(@, ssn, n, Wanted, h.finished),
                      !.received = n,
                      !.delivered = IF h.finished THEN @ ELSE @ + 1,
                      !.final = @ \/ IsFinal(n, Wanted, h.finished)]

AfterSymbol(h, ssn) ==
    IF h.received + 1 > Wanted THEN AfterExcessSymbol(h) ELSE AfterWantedSymbol(h, ssn)

\* The state after segment p.  A segment that establishes the connection does no more.
AfterSegment(h, p) ==
    CASE h.fsm = "LISTEN" -> [h EXCEPT !.fsm = "SYN_RCVD"]
      [] h.fsm = "SYN_RCVD" -> [h EXCEPT !.fsm = "ESTABLISHED"]
      [] h.fsm = "ESTABLISHED" /\ p.kind = "ACK" -> h
      [] h.fsm = "ESTABLISHED" /\ p.kind = "HEADER" -> AfterHeader(h)
      [] h.fsm = "ESTABLISHED" /\ p.kind = "SYMBOL" -> AfterSymbol(h, p.ssn)

\* A path keeps the order of its segments, and headers may overtake symbols.
InOrder(r, p) ==
    \A q \in path[r] :
        q.ssn < p.ssn /\ q.kind # "HEADER" => p.kind = "HEADER" /\ q.kind = "SYMBOL"

RcvSegment(r, p) ==
    /\ InOrder(r, p)
    /\ path' = [path EXCEPT ![r] = @ \ {p}]
    /\ rcv' = [rcv EXCEPT ![r] = AfterSegment(@, p)]
    /\ backward' = backward \cup (IF p.kind = "SYN" THEN {SynAck(r)} ELSE {})
    /\ UNCHANGED <<sndFsm, sndEsi, sndRequestId>>

\* The pacer of r: nothing to do, a nap, or the next request.
PacerStops(r) ==
    /\ ~rcv[r].registered \/ rcv[r].finished
    /\ rcv' = [rcv EXCEPT ![r].requestTimer = FALSE]
    /\ UNCHANGED backward

PacerNaps(r) ==
    /\ rcv[r].registered /\ ~rcv[r].finished
    /\ rcv[r].pullQueue = <<>>
    /\ rcv' = [rcv EXCEPT ![r].requestTimer = FALSE, ![r].nap = TRUE]
    /\ UNCHANGED backward

PacerSends(r) ==
    /\ rcv[r].registered /\ ~rcv[r].finished
    /\ rcv[r].pullQueue # <<>>
    /\ backward' = backward \cup {Request(r, Head(rcv[r].pullQueue))}
    /\ rcv' = [rcv EXCEPT ![r].pullQueue = Tail(@), ![r].nap = FALSE]

RequestTimerFires(r) ==
    /\ rcv[r].requestTimer
    /\ PacerStops(r) \/ PacerNaps(r) \/ PacerSends(r)
    /\ UNCHANGED <<sndFsm, sndEsi, sndRequestId, path>>

\* The queue of a switch on the path to r is full.
Trim(r, p) ==
    /\ p.kind = "SYMBOL"
    /\ p.ssn <= TrimLimit[r]
    /\ path' = [path EXCEPT ![r] = (@ \ {p}) \cup {Header(p.ssn)}]
    /\ UNCHANGED <<sndFsm, sndEsi, sndRequestId, backward, rcv>>

----------------------------------------------------------------------------
RcvBackward(q) == RcvSynAck(q) \/ RcvLateSynAck(q) \/ RcvRequest(q)

Next ==
    \/ SendInitialWindow
    \/ \E q \in backward : RcvBackward(q)
    \/ \E r \in Receivers :
        \/ RequestTimerFires(r)
        \/ \E p \in path[r] : RcvSegment(r, p) \/ Trim(r, p)

Spec == Init /\ [][Next]_vars /\ WF_vars(SendInitialWindow)

\* The kernel delivers the events of r: segments both ways, its pacer's timer.
Fairness(r) ==
    /\ WF_vars(\E q \in backward : q.from = r /\ RcvBackward(q))
    /\ WF_vars(\E p \in path[r] : RcvSegment(r, p))
    /\ WF_vars(RequestTimerFires(r))

----------------------------------------------------------------------------
(* Properties. *)

\* Every variable has its type, and a receiver's path holds each number once.
TypeOK ==
    /\ sndFsm \in {"SYN_SENT", "ESTABLISHED"}
    /\ sndEsi \in Nat
    /\ sndRequestId \in Nat
    /\ \A r \in Receivers :
        /\ path[r] \subseteq [kind : {"SYN", "ACK", "SYMBOL", "HEADER"}, ssn : -1 .. sndEsi]
        /\ \A p, q \in path[r] : p.ssn = q.ssn => p = q
    /\ backward \subseteq [kind : {"SYNACK", "REQUEST"}, from : Receivers, seq : Nat]
    /\ rcv \in [Receivers ->
          [fsm : {"LISTEN", "SYN_RCVD", "ESTABLISHED"},
           esi : Nat, requestId : Nat, received : Nat, delivered : 0 .. Wanted,
           finished : BOOLEAN, final : BOOLEAN, pullQueue : Seq(Nat),
           registered : BOOLEAN, nap : BOOLEAN, requestTimer : BOOLEAN]]

DataOf(r) == {p \in path[r] : p.kind \in {"SYMBOL", "HEADER"}}

\* What may still turn into a symbol for r: the data on its path, and its requests
\* beyond those the sender has answered.  A receiver behind the others has asked for
\* less than has been answered, and the second term is negative.
Credit(r) ==
    IF sndEsi = 0 THEN IW ELSE Cardinality(DataOf(r)) + rcv[r].requestId - sndRequestId

\* Requests of r that its pacer has let go.
Released(r) == rcv[r].requestId - Len(rcv[r].pullQueue)

\* The receiver that is furthest ahead clocks the group: the sender answers no more
\* than it has released, so that a receiver is overrun by what it lags behind the
\* furthest, never by the sum of what the group asks for (one request_id for the
\* requests of all, RQConnectionRcvSegment.cc:325).
OverrunBounded ==
    /\ sndRequestId = 0 \/ \E r \in Receivers : sndRequestId <= Released(r)
    /\ \A r \in Receivers : \E q \in Receivers :
          Cardinality(DataOf(r)) <= IW + rcv[q].requestId - rcv[r].requestId

\* Although the sender takes a slower receiver's requests for delayed ones, each
\* receiver is always left with enough data on its path and requests that will be
\* answered to finish, through its own last window and the end of faster ones.
EnoughCredit ==
    \A r \in Receivers :
        \/ rcv[r].finished
        \/ Credit(r) = IW
        \/ rcv[r].received + Credit(r) >= Wanted

\* Every receiver is told the end of the transfer, whichever of them answers the SYN
\* first, is trimmed most or finishes last.  It needs nobody else: it completes if its
\* own events are delivered, though the others may stop at any point.
EveryoneCompletes == \A r \in Receivers : Fairness(r) => <>rcv[r].final

============================================================================
