-------------------------- MODULE Lifecycle_proofs --------------------------
(***************************************************************************)
(* The life of a connection: types, which timers run in which state, what  *)
(* number its FINs carry, and that there is something to resend; what the  *)
(* applications are told of it, and what their sockets make of that.       *)
(***************************************************************************)
EXTENDS ConnectionLifecycle, TLAPS, FiniteSetTheorems, SequenceTheorems

Indications == {"ESTABLISHED", "PEER_CLOSED", "CLOSED", "TIMED_OUT", "CONNECTION_RESET"}

Commands == {"OPEN_ACTIVE", "SEND", "CLOSE", "ABORT"}

Errors == {"none", "NOT_OPEN", "EVENT_WHILE_CLOSED", "DUPLICATE_CLOSE", "CLOSING", "NO_PEER",
           "NOT_IN_QUEUE", "NO_REGION"}

SockStates == {"BOUND", "CONNECTING", "CONNECTED", "PEER_CLOSED", "LOCALLY_CLOSED", "CLOSED",
               "SOCKERROR"}

\* The send side of a connection; its list of regions is empty or one range.
Regions == {<<>>} \cup (Int \X Int)

SndRecords ==
    [una : Int, nxt : Int, max : Int, queue : [begin : Int, end : Int], sendFin : BOOLEAN,
     finSeq : Int, regions : Regions, started : BOOLEAN]

----------------------------------------------------------------------------
(* The state machine.                                                       *)

Handshake == {"INIT", "LISTEN", "SYN_SENT", "SYN_RCVD"}

LEMMA NextStateType ==
  ASSUME NEW s \in States \ {"CLOSED"}, NEW event
  PROVE  NextState(s, event) \in States
  BY DEF NextState, Moves, States

\* An abort closes, from every state but INIT.
LEMMA AbortCloses ==
  ASSUME NEW s \in States \ {"INIT"}
  PROVE  NextState(s, "ABORT") = "CLOSED"
  BY DEF NextState

LEMMA IgnoreStays ==
  ASSUME NEW s \in States \ {"CLOSED"}
  PROVE  NextState(s, "IGNORE") = s
  BY DEF NextState, Moves, States

\* The endpoint that opens actively and the one that listens never change their roles.
LEMMA RolesKept ==
  ASSUME NEW s \in States \ {"CLOSED"}, NEW event
  PROVE  /\ s \notin {"LISTEN", "SYN_RCVD"} =>
                NextState(s, event) \notin {"LISTEN", "SYN_RCVD"}
         /\ s \notin {"INIT", "SYN_SENT"} => NextState(s, event) \notin {"INIT", "SYN_SENT"}
  BY DEF NextState, Moves, States

\* The handshake is not resumed once it is over.
LEMMA HandshakeOnce ==
  ASSUME NEW s \in States \ {"CLOSED"}, NEW event
  PROVE  NextState(s, event) \in Handshake => s \in Handshake
  BY DEF NextState, Moves, States, Handshake

LEMMA EntryTimersType ==
  ASSUME NEW old, NEW new, NEW armed \in SUBSET Timers
  PROVE  EntryTimers(old, new, armed) \in SUBSET armed
  BY DEF EntryTimers

LEMMA EntryTellsType ==
  ASSUME NEW old, NEW new, NEW event
  PROVE  EntryTells(old, new, event) \in Seq(Indications)
<1>1. EntryTells(old, new, event) \in {<<>>, <<"PEER_CLOSED">>, <<"CLOSED">>}
  BY DEF EntryTells
<1>2. /\ <<>> \in Seq(Indications) /\ <<"PEER_CLOSED">> \in Seq(Indications)
      /\ <<"CLOSED">> \in Seq(Indications)
  BY DEF Indications
<1> QED
  BY <1>1, <1>2

----------------------------------------------------------------------------
(* Sequences.                                                               *)

LEMMA RemoveAtType ==
  ASSUME NEW S, NEW s \in Seq(S), NEW i \in 1 .. Len(s)
  PROVE  RemoveAt(s, i) \in Seq(S)
<1>1. SubSeq(s, 1, i - 1) \in Seq(S)
  BY SubSeqProperties
<1>2. SubSeq(s, i + 1, Len(s)) \in Seq(S)
  BY SubSeqProperties
<1> QED
  BY <1>1, <1>2, ConcatProperties DEF RemoveAt

\* What is added to the queue of one endpoint.
LEMMA AddedType ==
  ASSUME NEW S, NEW f \in [Endpoint -> Seq(S)], NEW e \in Endpoint, NEW more \in Seq(S)
  PROVE  [f EXCEPT ![e] = @ \o more] \in [Endpoint -> Seq(S)]
<1>1. f[e] \o more \in Seq(S)
  BY ConcatProperties
<1> QED
  BY <1>1

LEMMA TailType ==
  ASSUME NEW S, NEW f \in [Endpoint -> Seq(S)], NEW e \in Endpoint, f[e] # <<>>
  PROVE  [f EXCEPT ![e] = Tail(@)] \in [Endpoint -> Seq(S)]
<1>1. Tail(f[e]) \in Seq(S)
  BY HeadTailProperties
<1> QED
  BY <1>1

----------------------------------------------------------------------------
(* The send side.                                                           *)

LEMMA SynNumberedSnd ==
  ASSUME NEW s
  PROVE  LET new == SynNumbered(s)
         IN  /\ new \in SndRecords
             /\ new.nxt = 1 /\ new.max = 1 /\ new.queue.end = 1 /\ new.queue.begin = 1
             /\ new.finSeq = 0 /\ new.sendFin = FALSE /\ new.regions = <<>>
<1> DEFINE q == EmptyQueue(1)
<1>1. q \in [begin : Int, end : Int] /\ q.begin = 1 /\ q.end = 1
  BY DEF EmptyQueue
<1> HIDE DEF q
<1>2. <<>> \in Regions
  BY DEF Regions
<1>3. /\ Unnumbered \in SndRecords
      /\ Unnumbered.queue = q /\ Unnumbered.finSeq = 0 /\ Unnumbered.sendFin = FALSE
      /\ Unnumbered.regions = <<>>
  BY <1>1, <1>2 DEF Unnumbered, SndRecords, q
<1> QED
  BY <1>1, <1>3 DEF SynNumbered, SndRecords

LEMMA AfterCloseSnd ==
  ASSUME NEW s \in SndRecords
  PROVE  LET new == AfterClose(s)
         IN  /\ new \in SndRecords
             /\ new.una = s.una /\ new.queue = s.queue /\ new.regions = s.regions
             /\ new.finSeq = s.queue.end /\ new.sendFin = TRUE
             /\ new.max = IF FinDeferred(s) THEN s.max ELSE s.max + 1
<1> DEFINE next == s.max + 1
           over == OverFin(s, s.max)
<1>0. next \in Int
  BY DEF SndRecords
<1>1. /\ over \in SndRecords
      /\ over.una = s.una /\ over.queue = s.queue /\ over.regions = s.regions
      /\ over.max = next
  <2>1. over = [s EXCEPT !.nxt = next, !.max = next]
    BY DEF OverFin
  <2> HIDE DEF next, over
  <2> QED
    BY <1>0, <2>1 DEF SndRecords
<1> DEFINE t == IF FinDeferred(s) THEN s ELSE over
<1> HIDE DEF over
<1>2. /\ t \in SndRecords
      /\ t.una = s.una /\ t.queue = s.queue /\ t.regions = s.regions
      /\ t.max = IF FinDeferred(s) THEN s.max ELSE s.max + 1
  BY <1>1
<1>3. AfterClose(s) = [t EXCEPT !.sendFin = TRUE, !.finSeq = s.queue.end]
  BY DEF AfterClose, over
<1>4. s.queue.end \in Int
  BY DEF SndRecords
<1> HIDE DEF t
<1> QED
  BY <1>2, <1>3, <1>4 DEF SndRecords

\* Every retransmission leaves the queue, the acknowledged number and the number of the
\* FIN alone, and a FIN that is sent again carries that number.
LEMMA RetransmissionSnd ==
  ASSUME NEW s \in SndRecords
  PROVE  LET r == Retransmission(s)
         IN  /\ r.snd \in SndRecords
             /\ r.snd.una = s.una /\ r.snd.queue = s.queue /\ r.snd.regions = s.regions
             /\ r.snd.finSeq = s.finSeq /\ r.snd.sendFin = s.sendFin
             /\ r.snd.max \in {s.max, s.queue.end + 1}
             /\ r.kind \in {"FIN", "SYMBOL"}
             /\ r.kind = "FIN" => r.seq = s.finSeq
             /\ r.from \in Int /\ r.snd.nxt \in Int
<1> DEFINE n == RexmitBytes(s)
<1>0. /\ s.una \in Int /\ s.max \in Int /\ s.queue.end \in Int /\ s.nxt \in Int
  BY DEF SndRecords
<1>1. n \in Int
  BY <1>0 DEF RexmitBytes, Smaller, Mss, GetBytesAvailable
<1> HIDE DEF n
<1> DEFINE Sent(x, m) == [s EXCEPT !.nxt = x, !.max = m]
<1>2. ASSUME NEW x \in Int, NEW m \in Int
      PROVE  /\ Sent(x, m) \in SndRecords
             /\ Sent(x, m).una = s.una /\ Sent(x, m).queue = s.queue
             /\ Sent(x, m).regions = s.regions /\ Sent(x, m).finSeq = s.finSeq
             /\ Sent(x, m).sendFin = s.sendFin /\ Sent(x, m).max = m /\ Sent(x, m).nxt = x
  BY DEF SndRecords
<1>3. ASSUME NEW x \in Int
      PROVE  [s EXCEPT !.nxt = x] = Sent(x, s.max)
  BY DEF SndRecords
<1>4. CASE OnlyFin(s)
  <2>1. Retransmission(s).snd = Sent(s.queue.end + 1, s.queue.end + 1)
    BY <1>4 DEF Retransmission, RexmittedFin, OverFin
  <2>2. /\ Retransmission(s).kind = "FIN" /\ Retransmission(s).seq = s.queue.end
        /\ Retransmission(s).from = s.queue.end
    BY <1>4 DEF Retransmission, RexmittedFin
  <2>3. s.queue.end = s.finSeq
    BY <1>4 DEF OnlyFin
  <2>4. s.queue.end + 1 \in Int
    BY <1>0
  <2> HIDE DEF Sent
  <2> QED
    BY <1>0, <1>2, <2>1, <2>2, <2>3, <2>4
<1>5. CASE ~OnlyFin(s) /\ CarriesFin(s)
  <2>1. Retransmission(s).snd = Sent(s.una + n + 1, s.max)
    BY <1>0, <1>1, <1>3, <1>5 DEF Retransmission, RexmittedData, n
  <2>2. /\ Retransmission(s).kind = "FIN" /\ Retransmission(s).seq = s.una + n
        /\ Retransmission(s).from = s.una
    BY <1>5 DEF Retransmission, RexmittedData, n
  <2>3. s.una + n = s.finSeq
    BY <1>5 DEF CarriesFin, n
  <2>4. s.una + n + 1 \in Int
    BY <1>0, <1>1
  <2> HIDE DEF Sent
  <2> QED
    BY <1>0, <1>2, <2>1, <2>2, <2>3, <2>4
<1>6. CASE ~OnlyFin(s) /\ ~CarriesFin(s)
  <2>1. Retransmission(s).snd = Sent(s.una + n, s.max)
    BY <1>0, <1>1, <1>3, <1>6 DEF Retransmission, RexmittedData, n
  <2>2. Retransmission(s).kind = "SYMBOL" /\ Retransmission(s).from = s.una
    BY <1>6 DEF Retransmission, RexmittedData, n
  <2>4. s.una + n \in Int
    BY <1>0, <1>1
  <2> HIDE DEF Sent
  <2> QED
    BY <1>0, <1>2, <2>1, <2>2, <2>4
<1> QED
  BY <1>4, <1>5, <1>6

LEMMA NoteRegionType ==
  ASSUME NEW g \in Regions, NEW from \in Int, NEW to \in Int
  PROVE  NoteRegion(g, from, to) \in Regions
<1>1. CASE g = <<>>
  BY <1>1 DEF NoteRegion, Regions
<1>2. CASE g # <<>>
  <2>1. g[1] \in Int /\ g[2] \in Int
    BY <1>2 DEF Regions
  <2>2. Larger(g[2], to) \in Int
    BY <2>1 DEF Larger
  <2> QED
    BY <1>2, <2>1, <2>2 DEF NoteRegion, Regions
<1> QED
  BY <1>1, <1>2
LEMMA AfterRexmitSnd ==
  ASSUME NEW s \in SndRecords, NEW flavour
  PROVE  LET new == AfterRexmit(flavour, s)
         IN  /\ new \in SndRecords
             /\ new.una = s.una /\ new.queue = s.queue
             /\ new.finSeq = s.finSeq /\ new.sendFin = s.sendFin
             /\ new.max \in {s.max, s.queue.end + 1}
<1> DEFINE r == Retransmission(s)
<1>1. /\ r.snd \in SndRecords
      /\ r.snd.una = s.una /\ r.snd.queue = s.queue /\ r.snd.regions = s.regions
      /\ r.snd.finSeq = s.finSeq /\ r.snd.sendFin = s.sendFin
      /\ r.snd.max \in {s.max, s.queue.end + 1}
      /\ r.from \in Int /\ r.snd.nxt \in Int
  BY RetransmissionSnd
<1> HIDE DEF r
<1>2. NoteRegion(r.snd.regions, r.from, r.snd.nxt) \in Regions
  BY <1>1, NoteRegionType DEF SndRecords
<1>3. CASE flavour = "RQVegas"
  BY <1>1, <1>2, <1>3 DEF AfterRexmit, SndRecords, r
<1>4. CASE flavour # "RQVegas"
  BY <1>1, <1>4 DEF AfterRexmit, r
<1> QED
  BY <1>3, <1>4

----------------------------------------------------------------------------
(* Types.                                                                   *)

ToldOK == told \in [Endpoint -> Seq(Indications)]

\* stateEntered cancels every timer of a connection that closes.
ClosedHasNoTimers == \A e \in Endpoint : fsm[e] = "CLOSED" => timers[e] = {}

\* A retransmission timer that is still scheduled has not counted past its last try.
CountBounded ==
    \A e \in Endpoint : "REXMIT" \in timers[e] => rexmitCount[e] <= setup.maxRexmit

TypeInv == TypeOK /\ ToldOK /\ ClosedHasNoTimers /\ CountBounded

\* What TypeOK says, for the variables that a handler may change.
StateTypes ==
    /\ fsm \in [Endpoint -> States]
    /\ timers \in [Endpoint -> SUBSET Timers]
    /\ toApp \in [Endpoint -> Seq(Indications)]
    /\ ToldOK
    /\ ClosedHasNoTimers

LEMMA SetupType ==
  ASSUME TypeInv
  PROVE  /\ setup \in [algorithm : Flavours, request : Nat, reorders : BOOLEAN,
                        timely : BOOLEAN, maxRexmit : Nat]
         /\ setup.maxRexmit \in Nat
  BY SetupsAssumption DEF TypeInv, TypeOK

LEMMA PeerType ==
  ASSUME NEW e \in Endpoint
  PROVE  Peer(e) \in Endpoint
  BY DEF Peer, Endpoint

LEMMA PerformType ==
  ASSUME TypeInv, NEW e \in Endpoint, NEW event, NEW tells \in Seq(Indications),
         NEW armed \in SUBSET Timers, fsm[e] # "CLOSED",
         Perform(e, event, tells, armed)
  PROVE  /\ StateTypes'
         /\ timers'[e] \subseteq armed
         /\ \A d \in Endpoint \ {e} : timers'[d] = timers[d]
<1> DEFINE new == NextState(fsm[e], event)
           left == EntryTimers(fsm[e], new, armed)
           all == tells \o EntryTells(fsm[e], new, event)
<1>1. /\ fsm \in [Endpoint -> States] /\ timers \in [Endpoint -> SUBSET Timers]
      /\ toApp \in [Endpoint -> Seq(Indications)] /\ told \in [Endpoint -> Seq(Indications)]
  BY DEF TypeInv, TypeOK, ToldOK, Indications
<1>2. new \in States
  BY <1>1, NextStateType
<1>3. left \subseteq armed
  BY EntryTimersType
<1>4. all \in Seq(Indications)
  <2>1. EntryTells(fsm[e], new, event) \in Seq(Indications)
    BY EntryTellsType
  <2> QED
    BY <2>1, ConcatProperties
<1>5. new = "CLOSED" => left = {}
  BY DEF EntryTimers
<1>6. /\ fsm' = [fsm EXCEPT ![e] = new] /\ timers' = [timers EXCEPT ![e] = left]
      /\ toApp' = [toApp EXCEPT ![e] = @ \o all] /\ told' = [told EXCEPT ![e] = @ \o all]
  BY DEF Perform
<1> HIDE DEF new, left, all
<1>7. toApp' \in [Endpoint -> Seq(Indications)] /\ told' \in [Endpoint -> Seq(Indications)]
  BY <1>1, <1>4, <1>6, AddedType
<1>8. fsm' \in [Endpoint -> States] /\ timers' \in [Endpoint -> SUBSET Timers]
  BY <1>1, <1>2, <1>3, <1>6
<1>9. /\ fsm'[e] = new /\ timers'[e] = left
      /\ \A d \in Endpoint \ {e} : fsm'[d] = fsm[d] /\ timers'[d] = timers[d]
  BY <1>1, <1>6
<1>10. ClosedHasNoTimers'
  BY <1>5, <1>9 DEF TypeInv, ClosedHasNoTimers
<1> QED
  BY <1>3, <1>7, <1>8, <1>9, <1>10 DEF StateTypes, ToldOK

\* A handler that starts no retransmission timer and counts none keeps the bound.
LEMMA CountKept ==
  ASSUME TypeInv, NEW e \in Endpoint, timers'[e] \subseteq timers[e] \cup (Timers \ {"REXMIT"}),
         \A d \in Endpoint \ {e} : timers'[d] = timers[d],
         rexmitCount' = rexmitCount, setup' = setup
  PROVE  CountBounded'
  BY DEF TypeInv, CountBounded

LEMMA RemovedType ==
  ASSUME TypeInv, NEW e \in Endpoint, RemoveIfClosed(e)
  PROVE  known' \in [Endpoint -> BOOLEAN]
<1>1. known \in [Endpoint -> BOOLEAN]
  BY DEF TypeInv, TypeOK
<1>2. (fsm'[e] # "CLOSED") \in BOOLEAN
  OBVIOUS
<1> QED
  BY <1>1, <1>2 DEF RemoveIfClosed

\* Steps that end the simulation or only move a segment or a command.
LEMMA QuietTypes ==
  ASSUME TypeInv, UNCHANGED <<connVars, history>>,
         UNCHANGED listening,
         toApp' \in [Endpoint -> Seq(Indications)],
         sockstate' \in [Endpoint -> SockStates],
         toConn' \in [Endpoint -> Seq(Commands)], wire' \in [Endpoint -> Seq(Kinds)],
         error' \in Errors
  PROVE  TypeInv'
  BY DEF TypeInv, TypeOK, ToldOK, ClosedHasNoTimers, CountBounded, connVars, history,
         Indications, Commands, Errors, SockStates

LEMMA FailType ==
  ASSUME TypeInv, NEW reason \in Errors, Fail(reason)
  PROVE  TypeInv'
<1>1. error' \in Errors
  BY DEF Fail
<1> QED
  BY <1>1 DEF TypeInv, TypeOK, ToldOK, ClosedHasNoTimers, CountBounded, Fail, connVars,
     appVars, history, Errors

\* A segment leaves the wire of one endpoint, others join that of its peer.
LEMMA DeliverType ==
  ASSUME TypeInv, NEW e \in Endpoint, NEW i \in 1 .. Len(wire[e]), NEW sends \in Seq(Kinds),
         Deliver(e, i, sends)
  PROVE  wire' \in [Endpoint -> Seq(Kinds)]
<1>1. wire \in [Endpoint -> Seq(Kinds)]
  BY DEF TypeInv, TypeOK
<1>2. RemoveAt(wire[e], i) \in Seq(Kinds)
  BY <1>1, RemoveAtType
<1>3. wire[Peer(e)] \o sends \in Seq(Kinds)
  BY <1>1, PeerType, ConcatProperties
<1>4. Peer(e) # e
  BY DEF Peer, Endpoint
<1> DEFINE left == RemoveAt(wire[e], i)
           mid  == [wire EXCEPT ![e] = left]
<1> HIDE DEF left
<1>5. mid \in [Endpoint -> Seq(Kinds)] /\ mid[Peer(e)] = wire[Peer(e)]
  BY <1>1, <1>2, <1>4, PeerType DEF left
<1>6. wire' = [mid EXCEPT ![Peer(e)] = wire[Peer(e)] \o sends]
  BY <1>1, <1>4, PeerType DEF Deliver, left
<1> HIDE DEF mid
<1> QED
  BY <1>3, <1>5, <1>6

LEMMA HandleType ==
  ASSUME TypeInv, NEW e \in Endpoint, NEW i \in 1 .. Len(wire[e]), NEW event,
         NEW sends \in Seq(Kinds), NEW tells \in Seq(Indications), NEW armed \in SUBSET Timers,
         armed \subseteq timers[e] \cup (Timers \ {"REXMIT"}),
         fsm[e] # "CLOSED", received' \in [Endpoint -> Nat],
         Handle(e, i, event, sends, tells, armed)
  PROVE  TypeInv'
<1>1. StateTypes' /\ CountBounded'
  BY PerformType, CountKept DEF Handle
<1>2. known' \in [Endpoint -> BOOLEAN]
  BY RemovedType DEF Handle
<1>3. wire' \in [Endpoint -> Seq(Kinds)]
  BY DeliverType DEF Handle
<1>4. UNCHANGED <<setup, rexmitCount, sockstate, toConn, listening, error, aborted, closeCalls>>
  BY DEF Handle
<1> QED
  BY <1>1, <1>2, <1>3, <1>4 DEF TypeInv, TypeOK, StateTypes, Indications

LEMMA ExecuteType ==
  ASSUME TypeInv, NEW e \in Endpoint, NEW event, NEW sends \in Seq(Kinds),
         NEW armed \in SUBSET Timers, fsm[e] # "CLOSED", toConn[e] # <<>>,
         Execute(e, event, sends, armed),
         rexmitCount' \in [Endpoint -> 0 .. setup.maxRexmit + 1], CountBounded',
         aborted' \in [Endpoint -> BOOLEAN]
  PROVE  TypeInv'
<1>0. <<>> \in Seq(Indications)
  OBVIOUS
<1>1. StateTypes'
  BY <1>0, PerformType DEF Execute
<1>2. known' \in [Endpoint -> BOOLEAN]
  BY RemovedType DEF Execute
<1>3. wire' \in [Endpoint -> Seq(Kinds)]
  BY PeerType, AddedType DEF TypeInv, TypeOK, Execute
<1>4. toConn' \in [Endpoint -> Seq(Commands)]
  BY TailType DEF TypeInv, TypeOK, Execute, Commands
<1>5. UNCHANGED <<setup, received, sockstate, listening, error, closeCalls>>
  BY DEF Execute
<1> QED
  BY <1>1, <1>2, <1>3, <1>4, <1>5 DEF TypeInv, TypeOK, StateTypes, Indications, Commands

\* A command that neither counts nor starts a retransmission timer.
LEMMA ExecuteKeepsType ==
  ASSUME TypeInv, NEW e \in Endpoint, NEW event, NEW sends \in Seq(Kinds),
         fsm[e] # "CLOSED", toConn[e] # <<>>, Execute(e, event, sends, timers[e]),
         rexmitCount' = rexmitCount, aborted' \in [Endpoint -> BOOLEAN]
  PROVE  TypeInv'
<1>0. <<>> \in Seq(Indications) /\ timers[e] \in SUBSET Timers
  BY DEF TypeInv, TypeOK
<1>1. /\ timers'[e] \subseteq timers[e]
      /\ \A d \in Endpoint \ {e} : timers'[d] = timers[d]
  BY <1>0, PerformType DEF Execute
<1>2. setup' = setup /\ rexmitCount' \in [Endpoint -> 0 .. setup.maxRexmit + 1]
  BY DEF Execute, TypeInv, TypeOK
<1>3. CountBounded'
  BY <1>1, <1>2, CountKept
<1> QED
  BY <1>0, <1>2, <1>3, ExecuteType

LEMMA ExpireType ==
  ASSUME TypeInv, NEW e \in Endpoint, NEW timer, NEW event, NEW tells \in Seq(Indications),
         NEW armed \in SUBSET Timers, fsm[e] # "CLOSED",
         Expire(e, timer, event, tells, armed),
         rexmitCount' \in [Endpoint -> 0 .. setup.maxRexmit + 1], CountBounded',
         wire' \in [Endpoint -> Seq(Kinds)]
  PROVE  TypeInv'
<1>1. StateTypes'
  BY PerformType DEF Expire
<1>2. UNCHANGED <<setup, known, received, sockstate, toConn, listening, error, aborted,
                  closeCalls>>
  BY DEF Expire
<1> QED
  BY <1>1, <1>2 DEF TypeInv, TypeOK, StateTypes, Indications

LEMMA InitTypes == Init => TypeInv
<1> SUFFICES ASSUME Init PROVE TypeInv
  OBVIOUS
<1>1. setup.maxRexmit \in Nat
  BY SetupsAssumption DEF Init
<1>2. 0 \in 0 .. setup.maxRexmit + 1
  BY <1>1
<1>3. rexmitCount \in [Endpoint -> 0 .. setup.maxRexmit + 1]
  BY <1>2 DEF Init
<1>4. known \in [Endpoint -> BOOLEAN]
  <2>1. known = [e \in Endpoint |-> e = "server" /\ listening]
    BY DEF Init
  <2> QED
    BY <2>1, ZenonT(30)
<1>5. fsm \in [Endpoint -> States]
  BY DEF Init, States
<1>6. sockstate \in [Endpoint -> SockStates]
  BY DEF Init, SockStates
<1>7. TypeOK
  BY <1>3, <1>4, <1>5, <1>6 DEF Init, TypeOK, Errors, SockStates
<1> QED
  BY <1>7 DEF Init, TypeInv, ToldOK, ClosedHasNoTimers, CountBounded

LEMMA CommandType ==
  ASSUME TypeInv, NEW e \in Endpoint, NEW commands \in Seq(Commands), Command(e, commands)
  PROVE  toConn' \in [Endpoint -> Seq(Commands)]
  BY AddedType DEF TypeInv, TypeOK, Command, Commands

LEMMA AppTypes ==
  ASSUME TypeInv, NEW e \in Endpoint, Connect \/ WriteEarly \/ App(e)
  PROVE  TypeInv'
<1>0. /\ toApp \in [Endpoint -> Seq(Indications)] /\ toConn \in [Endpoint -> Seq(Commands)]
      /\ sockstate \in [Endpoint -> SockStates] /\ wire \in [Endpoint -> Seq(Kinds)]
      /\ error \in Errors /\ closeCalls \in [Endpoint -> Nat]
  BY DEF TypeInv, TypeOK, Indications, Commands, SockStates, Errors
<1>1. /\ <<"OPEN_ACTIVE">> \in Seq(Commands) /\ <<"SEND">> \in Seq(Commands)
      /\ <<"CLOSE">> \in Seq(Commands) /\ <<"ABORT">> \in Seq(Commands)
      /\ <<>> \in Seq(Commands)
  BY DEF Commands
<1>2. ASSUME toApp' \in [Endpoint -> Seq(Indications)], sockstate' \in [Endpoint -> SockStates],
             toConn' \in [Endpoint -> Seq(Commands)], closeCalls' \in [Endpoint -> Nat],
             UNCHANGED <<connVars, listening, wire, error, told, aborted, finSeqs>>
      PROVE  TypeInv'
  BY <1>0, <1>2 DEF TypeInv, TypeOK, ToldOK, ClosedHasNoTimers, CountBounded, connVars,
     Indications, Commands, SockStates
<1>3. CASE Connect
  <2>1. sockstate' \in [Endpoint -> SockStates]
    BY <1>0, <1>3 DEF Connect, SockStates
  <2>2. toConn' \in [Endpoint -> Seq(Commands)]
    BY <1>1, <1>3, CommandType DEF Connect, Endpoint
  <2> QED
    BY <1>0, <1>2, <1>3, <2>1, <2>2 DEF Connect, history
<1>4. CASE WriteEarly
  <2>1. toConn' \in [Endpoint -> Seq(Commands)]
    BY <1>1, <1>4, CommandType DEF WriteEarly, Endpoint
  <2> QED
    BY <1>0, <1>2, <1>4, <2>1 DEF WriteEarly, history
<1>5. CASE AppCloses(e)
  <2>1. sockstate' \in [Endpoint -> SockStates] /\ closeCalls' \in [Endpoint -> Nat]
    BY <1>0, <1>5 DEF AppCloses, SockStates
  <2>2. toConn' \in [Endpoint -> Seq(Commands)]
    BY <1>1, <1>5, CommandType DEF AppCloses
  <2> QED
    BY <1>0, <1>2, <1>5, <2>1, <2>2 DEF AppCloses
<1>6. CASE AppAborts(e)
  <2>1. sockstate' \in [Endpoint -> SockStates]
    BY <1>0, <1>6 DEF AppAborts, SockStates
  <2>2. toConn' \in [Endpoint -> Seq(Commands)]
    BY <1>1, <1>6, CommandType DEF AppAborts
  <2> QED
    BY <1>0, <1>2, <1>6, <2>1, <2>2 DEF AppAborts, history
<1>7. CASE AppReceives(e)
  <2> DEFINE indication == Head(toApp[e])
             answers == indication = "PEER_CLOSED" /\ e \in Answerers
             state == CASE indication = "ESTABLISHED" -> "CONNECTED"
                        [] indication = "PEER_CLOSED" -> IF answers THEN "CLOSED" ELSE "PEER_CLOSED"
                        [] indication = "CLOSED" -> "CLOSED"
                        [] OTHER -> "SOCKERROR"
             commands == CASE answers -> <<"CLOSE">>
                           [] indication = "ESTABLISHED" /\ e = "client" -> <<"SEND">>
                           [] OTHER -> <<>>
  <2>1. state \in SockStates
    BY DEF SockStates
  <2>2. commands \in {<<"CLOSE">>, <<"SEND">>, <<>>}
    OBVIOUS
  <2>3. /\ sockstate' = [sockstate EXCEPT ![e] = state] /\ Command(e, commands)
        /\ closeCalls' = [closeCalls EXCEPT ![e] = IF answers THEN @ + 1 ELSE @]
        /\ toApp[e] # <<>> /\ toApp' = [toApp EXCEPT ![e] = Tail(@)]
        /\ UNCHANGED <<connVars, listening, wire, error, told, aborted, finSeqs>>
    BY <1>7 DEF AppReceives
  <2> HIDE DEF state, commands, answers
  <2>4. commands \in Seq(Commands)
    BY <1>1, <2>2
  <2>5. sockstate' \in [Endpoint -> SockStates] /\ closeCalls' \in [Endpoint -> Nat]
    BY <1>0, <2>1, <2>3
  <2>6. toApp' \in [Endpoint -> Seq(Indications)]
    BY <1>0, <2>3, TailType
  <2>7. toConn' \in [Endpoint -> Seq(Commands)]
    BY <2>3, <2>4, CommandType
  <2> QED
    BY <1>2, <2>3, <2>5, <2>6, <2>7
<1> QED
  BY <1>3, <1>4, <1>5, <1>6, <1>7 DEF App

LEMMA CommandTypes ==
  ASSUME TypeInv, NEW e \in Endpoint, ProcessAppCommand(e)
  PROVE  TypeInv'
<1>0. /\ aborted \in [Endpoint -> BOOLEAN] /\ timers[e] \in SUBSET Timers
      /\ fsm[e] \in States /\ rexmitCount \in [Endpoint -> 0 .. setup.maxRexmit + 1]
  BY DEF TypeInv, TypeOK
<1>1. /\ <<>> \in Seq(Kinds) /\ <<"SYN">> \in Seq(Kinds) /\ <<"SYMBOL">> \in Seq(Kinds)
      /\ <<"RST">> \in Seq(Kinds)
  BY DEF Kinds
<1>2. CASE ProcessOpenActive(e)
  BY <1>0, <1>1, <1>2, ExecuteKeepsType DEF ProcessOpenActive, TakeCommand
<1>3. CASE ProcessEarlySend(e)
  BY <1>0, <1>1, <1>3, ExecuteKeepsType DEF ProcessEarlySend, TakeCommand
<1>4. CASE ProcessSend(e)
  <2> PICK sends \in SendCommandInvoked(setup.algorithm, Request(2), snd[e].started) :
          Execute(e, "SEND", IF sends THEN <<"SYMBOL">> ELSE <<>>, timers[e])
    BY <1>4 DEF ProcessSend
  <2> DEFINE segments == IF sends THEN <<"SYMBOL">> ELSE <<>>
  <2>1. segments \in Seq(Kinds)
    BY <1>1
  <2>2. Execute(e, "SEND", segments, timers[e])
    OBVIOUS
  <2> HIDE DEF segments
  <2>3. fsm[e] # "CLOSED" /\ toConn[e] # <<>> /\ rexmitCount' = rexmitCount /\ aborted' = aborted
    BY <1>4 DEF ProcessSend, TakeCommand
  <2> QED
    BY <1>0, <2>1, <2>2, <2>3, ExecuteKeepsType
<1>5. CASE ProcessEarlyClose(e)
  BY <1>0, <1>1, <1>5, ExecuteKeepsType DEF ProcessEarlyClose, TakeCommand
<1>6. CASE ProcessClose(e)
  <2> DEFINE event == IF FinDeferred(snd[e]) THEN "IGNORE" ELSE "CLOSE"
             fins == [i \in DOMAIN CloseNumbers(snd[e]) |-> "FIN"]
             armed == RexmitStarted(e)
  <2>1. armed \in SUBSET Timers
    BY <1>0 DEF RexmitStarted, Timers
  <2>2. fins \in Seq(Kinds)
    <3>1. CASE FinDeferred(snd[e])
      <4>1. fins = [i \in 1 .. 1 |-> "FIN"]
        BY <3>1 DEF CloseNumbers
      <4> QED
        BY <4>1 DEF Kinds
    <3>2. CASE ~FinDeferred(snd[e])
      <4>1. fins = [i \in 1 .. 2 |-> "FIN"]
        BY <3>2 DEF CloseNumbers
      <4> QED
        BY <4>1 DEF Kinds
    <3> QED
      BY <3>1, <3>2
  <2>3. Execute(e, event, fins, armed)
    BY <1>6 DEF ProcessClose
  <2>4. /\ fsm[e] # "CLOSED" /\ toConn[e] # <<>> /\ aborted' = aborted
        /\ rexmitCount' = [rexmitCount EXCEPT ![e] = 0]
    BY <1>6 DEF ProcessClose, TakeCommand
  <2> HIDE DEF event, fins, armed
  <2>5. setup.maxRexmit \in Nat /\ setup' = setup
    BY <2>3, SetupType DEF Execute
  <2>6. <<>> \in Seq(Indications)
    OBVIOUS
  <2>7. \A d \in Endpoint \ {e} : timers'[d] = timers[d]
    BY <2>1, <2>3, <2>4, <2>6, PerformType DEF Execute
  <2>8. CountBounded'
    BY <1>0, <2>4, <2>5, <2>7 DEF CountBounded, TypeInv
  <2>9. rexmitCount' \in [Endpoint -> 0 .. setup.maxRexmit + 1]
    BY <1>0, <2>4, <2>5
  <2> QED
    BY <1>0, <2>1, <2>2, <2>3, <2>4, <2>8, <2>9, ExecuteType
<1>7. CASE ProcessAbort(e)
  <2> DEFINE resets == fsm[e] \in {"SYN_RCVD", "ESTABLISHED", "FIN_WAIT_1", "FIN_WAIT_2", "CLOSE_WAIT"}
             segments == IF resets THEN <<"RST">> ELSE <<>>
  <2>1. segments \in Seq(Kinds)
    BY <1>1
  <2>2. /\ Execute(e, "ABORT", segments, timers[e])
        /\ fsm[e] # "CLOSED" /\ toConn[e] # <<>> /\ rexmitCount' = rexmitCount
        /\ aborted' = [aborted EXCEPT ![e] = TRUE]
    BY <1>7 DEF ProcessAbort, TakeCommand
  <2> HIDE DEF segments
  <2>3. aborted' \in [Endpoint -> BOOLEAN]
    BY <1>0, <2>2
  <2> QED
    BY <2>1, <2>2, <2>3, ExecuteKeepsType
<1>8. CASE RejectCommand(e)
  <2>1. Fail("NOT_OPEN") \/ Fail("EVENT_WHILE_CLOSED") \/ Fail("DUPLICATE_CLOSE") \/ Fail("CLOSING")
    BY <1>8 DEF RejectCommand
  <2> QED
    BY <2>1, FailType DEF Errors
<1> QED
  BY <1>2, <1>3, <1>4, <1>5, <1>6, <1>7, <1>8 DEF ProcessAppCommand

LEMMA OutcomeTypes ==
  ASSUME NEW s \in States, NEW armed \in SUBSET Timers,
         NEW o \in {FinOutcome(s, armed), OtherOutcome(s, armed)}
  PROVE  /\ o.sends \in Seq(Kinds) /\ o.tells \in Seq(Indications)
         /\ o.timers \in SUBSET Timers
         /\ o.timers \subseteq armed \cup (Timers \ {"REXMIT"})
<1>1. /\ <<>> \in Seq(Kinds) /\ <<"ACK">> \in Seq(Kinds) /\ <<"ACK", "ACK">> \in Seq(Kinds)
      /\ <<>> \in Seq(Indications) /\ <<"ESTABLISHED">> \in Seq(Indications)
  BY DEF Kinds, Indications
<1>2. /\ o.sends \in {<<>>, <<"ACK">>, <<"ACK", "ACK">>}
      /\ o.tells \in {<<>>, <<"ESTABLISHED">>}
  BY DEF FinOutcome, OtherOutcome, Outcome
<1>3. o.timers \in {armed, armed \cup {"TIMEOUT_2MSL"}, armed \ {"REXMIT", "TIMEOUT_2MSL"},
                    (armed \ {"REXMIT"}) \cup {"TIMEOUT_2MSL"}}
  BY DEF FinOutcome, OtherOutcome, Outcome
<1>4. o.timers \subseteq armed \cup (Timers \ {"REXMIT"})
  BY <1>3 DEF Timers
<1> QED
  BY <1>1, <1>2, <1>4

LEMMA SegmentTypes ==
  ASSUME TypeInv, NEW e \in Endpoint, NEW i \in 1 .. Len(wire[e]),
         RcvSegment(e, i) \/ LoseSegment(e, i)
  PROVE  TypeInv'
<1>0. /\ timers[e] \in SUBSET Timers /\ fsm[e] \in States
      /\ received \in [Endpoint -> Nat] /\ wire \in [Endpoint -> Seq(Kinds)]
      /\ toApp \in [Endpoint -> Seq(Indications)] /\ toConn \in [Endpoint -> Seq(Commands)]
      /\ sockstate \in [Endpoint -> SockStates] /\ error \in Errors
  BY DEF TypeInv, TypeOK, Indications, Commands, SockStates, Errors
<1>1. /\ <<>> \in Seq(Kinds) /\ <<"SYNACK">> \in Seq(Kinds) /\ <<"RST">> \in Seq(Kinds)
      /\ <<"ACK">> \in Seq(Kinds) /\ <<"SYMBOL">> \in Seq(Kinds) /\ <<"PULL">> \in Seq(Kinds)
      /\ <<"FIRSTACK">> \in Seq(Kinds) /\ <<"RSTACK">> \in Seq(Kinds)
      /\ <<>> \in Seq(Indications) /\ <<"ESTABLISHED">> \in Seq(Indications)
      /\ <<"PEER_CLOSED">> \in Seq(Indications) /\ <<"CONNECTION_RESET">> \in Seq(Indications)
  BY DEF Kinds, Indications
<1>2. timers[e] \subseteq timers[e] \cup (Timers \ {"REXMIT"})
  OBVIOUS
<1>3. ASSUME NEW event, NEW sends \in Seq(Kinds), NEW tells \in Seq(Indications),
             fsm[e] # "CLOSED", received' \in [Endpoint -> Nat],
             Handle(e, i, event, sends, tells, timers[e])
      PROVE  TypeInv'
  BY <1>0, <1>2, <1>3, HandleType
<1>4. ASSUME NEW sends \in Seq(Kinds), Deliver(e, i, sends),
             UNCHANGED <<connVars, appVars, listening, error, history>>
      PROVE  TypeInv'
  <2>1. wire' \in [Endpoint -> Seq(Kinds)]
    BY <1>4, DeliverType
  <2> QED
    BY <1>0, <1>4, <2>1, QuietTypes DEF appVars
<1>5. CASE RcvInListen(e, i)
  <2>1. timers[e] \cup {"CONN_ESTAB"} \subseteq timers[e] \cup (Timers \ {"REXMIT"})
    BY DEF Timers
  <2>2. timers[e] \cup {"CONN_ESTAB"} \in SUBSET Timers
    BY <1>0 DEF Timers
  <2>3. received' \in [Endpoint -> Nat] /\ fsm[e] # "CLOSED"
    BY <1>0, <1>5 DEF RcvInListen
  <2>4. CASE Handle(e, i, "RCV_SYN", <<"SYNACK">>, <<>>, timers[e] \cup {"CONN_ESTAB"})
    BY <1>1, <2>1, <2>2, <2>3, <2>4, HandleType
  <2>5. CASE Handle(e, i, "IGNORE", <<"RST">>, <<>>, timers[e])
    BY <1>1, <1>3, <2>3, <2>5
  <2> QED
    BY <1>5, <2>4, <2>5 DEF RcvInListen
<1>6. CASE RcvSynAck(e, i)
  <2> PICK reply \in ActiveReplies(setup.algorithm) :
          Handle(e, i, "RCV_SYN_ACK", IF reply = "NONE" THEN <<>> ELSE <<reply>>,
                 <<"ESTABLISHED">>, timers[e])
    BY <1>6 DEF RcvSynAck
  <2> DEFINE segments == IF reply = "NONE" THEN <<>> ELSE <<reply>>
  <2>1. reply \in {"ACK", "NONE", "SYMBOL", "FIRSTACK"}
    BY DEF ActiveReplies
  <2>2. segments \in Seq(Kinds)
    BY <1>1, <2>1
  <2>3. Handle(e, i, "RCV_SYN_ACK", segments, <<"ESTABLISHED">>, timers[e])
    OBVIOUS
  <2> HIDE DEF segments
  <2>4. received' \in [Endpoint -> Nat] /\ fsm[e] # "CLOSED"
    BY <1>0, <1>6 DEF RcvSynAck
  <2> QED
    BY <1>1, <1>3, <2>2, <2>3, <2>4
<1>7. CASE RcvInSynSent(e, i)
  <2>1. received' \in [Endpoint -> Nat] /\ fsm[e] # "CLOSED"
    BY <1>0, <1>7 DEF RcvInSynSent
  <2>2. \/ Handle(e, i, "RCV_RST", <<>>, <<"CONNECTION_RESET">>, timers[e])
        \/ Handle(e, i, "IGNORE", <<>>, <<>>, timers[e])
    BY <1>7 DEF RcvInSynSent
  <2> QED
    BY <1>1, <1>3, <2>1, <2>2
<1>8. ASSUME NEW o \in {FinOutcome(fsm[e], timers[e]), OtherOutcome(fsm[e], timers[e])},
             fsm[e] # "CLOSED", received' = received,
             Handle(e, i, o.event, o.sends, o.tells, o.timers)
      PROVE  TypeInv'
  <2>1. /\ o.sends \in Seq(Kinds) /\ o.tells \in Seq(Indications)
        /\ o.timers \in SUBSET Timers
        /\ o.timers \subseteq timers[e] \cup (Timers \ {"REXMIT"})
    BY <1>0, OutcomeTypes
  <2>2. received' \in [Endpoint -> Nat]
    BY <1>0, <1>8
  <2> QED
    BY <1>8, <2>1, <2>2, HandleType
<1>9. CASE RcvFin(e, i)
  BY <1>8, <1>9 DEF RcvFin, HandleOutcome
<1>10. CASE RcvClosing(e, i)
  BY <1>8, <1>10 DEF RcvClosing, HandleOutcome
<1>11. CASE RcvEstablished(e, i)
  <2>0. fsm[e] # "CLOSED"
    BY <1>11 DEF RcvEstablished
  <2>1. ASSUME received' = [received EXCEPT ![e] = @ + 1],
               Handle(e, i, "IGNORE",
                      IF received[e] + 1 < Symbols THEN <<"PULL">> ELSE <<>>,
                      IF received[e] + 1 = Symbols THEN <<"PEER_CLOSED">> ELSE <<>>,
                      timers[e])
        PROVE  TypeInv'
    <3> DEFINE segments == IF received[e] + 1 < Symbols THEN <<"PULL">> ELSE <<>>
               tells == IF received[e] + 1 = Symbols THEN <<"PEER_CLOSED">> ELSE <<>>
    <3>1. segments \in Seq(Kinds) /\ tells \in Seq(Indications)
      BY <1>1
    <3>2. Handle(e, i, "IGNORE", segments, tells, timers[e])
      BY <2>1
    <3> HIDE DEF segments, tells
    <3>3. received' \in [Endpoint -> Nat]
      BY <1>0, <2>1
    <3> QED
      BY <1>3, <2>0, <3>1, <3>2, <3>3
  <2>2. ASSUME received' = received,
               \/ Handle(e, i, "IGNORE", <<"SYMBOL">>, <<>>, timers[e])
               \/ Handle(e, i, "IGNORE", <<>>, <<>>, timers[e])
        PROVE  TypeInv'
    <3>1. received' \in [Endpoint -> Nat]
      BY <1>0, <2>2
    <3> QED
      BY <1>1, <1>3, <2>0, <2>2, <3>1
  <2> QED
    BY <1>11, <2>1, <2>2 DEF RcvEstablished
<1>12. CASE RcvUnknown(e, i)
  BY <1>1, <1>4, <1>12 DEF RcvUnknown
<1>13. CASE RcvAtListener(e, i)
  <2>1. CASE Fail("NO_PEER")
    BY <2>1, FailType DEF Errors
  <2>2. ASSUME Deliver(e, i, IF wire[e][i] = "FIRSTACK" THEN <<"RST">> ELSE <<>>),
               UNCHANGED <<connVars, appVars, listening, error, history>>
        PROVE  TypeInv'
    BY <1>1, <1>4, <2>2
  <2> QED
    BY <1>13, <2>1, <2>2 DEF RcvAtListener
<1>14. CASE RcvWhileClosed(e, i)
  BY <1>14, FailType DEF RcvWhileClosed, Errors
<1>15. CASE LoseSegment(e, i)
  <2>1. RemoveAt(wire[e], i) \in Seq(Kinds)
    BY <1>0, RemoveAtType
  <2>2. /\ wire' = [wire EXCEPT ![e] = RemoveAt(wire[e], i)]
        /\ UNCHANGED <<connVars, appVars, listening, error, history>>
    BY <1>0, <1>15 DEF LoseSegment
  <2>3. wire' \in [Endpoint -> Seq(Kinds)]
    BY <1>0, <2>1, <2>2
  <2> QED
    BY <1>0, <2>2, <2>3, QuietTypes DEF appVars
<1> QED
  BY <1>5, <1>6, <1>7, <1>9, <1>10, <1>11, <1>12, <1>13, <1>14, <1>15 DEF RcvSegment

LEMMA TimerTypes ==
  ASSUME TypeInv, NEW e \in Endpoint, TimerFires(e)
  PROVE  TypeInv'
<1>0. /\ timers[e] \in SUBSET Timers /\ fsm[e] \in States
      /\ rexmitCount \in [Endpoint -> 0 .. setup.maxRexmit + 1]
      /\ wire \in [Endpoint -> Seq(Kinds)] /\ setup.maxRexmit \in Nat
  BY SetupType DEF TypeInv, TypeOK
<1>1. <<>> \in Seq(Indications) /\ <<"TIMED_OUT">> \in Seq(Indications)
  BY DEF Indications
<1>2. ASSUME NEW timer, NEW event, fsm[e] # "CLOSED", UNCHANGED <<rexmitCount, wire>>,
             Expire(e, timer, event, <<>>, timers[e] \ {timer})
      PROVE  TypeInv'
  <2>1. timers[e] \ {timer} \in SUBSET Timers
    BY <1>0
  <2>2. /\ timers'[e] \subseteq timers[e] \ {timer}
        /\ \A d \in Endpoint \ {e} : timers'[d] = timers[d]
    BY <1>1, <1>2, <2>1, PerformType DEF Expire
  <2>3. setup' = setup
    BY <1>2 DEF Expire
  <2>4. CountBounded'
    BY <1>2, <2>2, <2>3, CountKept
  <2>5. wire' \in [Endpoint -> Seq(Kinds)] /\ rexmitCount' \in [Endpoint -> 0 .. setup.maxRexmit + 1]
    BY <1>0, <1>2
  <2> QED
    BY <1>1, <1>2, <2>1, <2>4, <2>5, ExpireType
<1>3. CASE ConnEstabTimeout(e)
  BY <1>2, <1>3 DEF ConnEstabTimeout
<1>4. CASE TimeWaitTimeout(e)
  BY <1>2, <1>4 DEF TimeWaitTimeout
<1>5. CASE RexmitTimeout(e)
  <2>1. rexmitCount' = [rexmitCount EXCEPT ![e] = @ + 1]
    BY <1>5 DEF RexmitTimeout
  <2>2. "REXMIT" \in timers[e]
    BY <1>5 DEF RexmitTimeout, Expire, Due
  <2>3. rexmitCount[e] <= setup.maxRexmit /\ fsm[e] # "CLOSED"
    BY <2>2 DEF TypeInv, CountBounded, ClosedHasNoTimers
  <2>4. rexmitCount[e] + 1 \in 0 .. setup.maxRexmit + 1
    BY <1>0, <2>3
  <2>5. rexmitCount' \in [Endpoint -> 0 .. setup.maxRexmit + 1]
    BY <1>0, <2>1, <2>4
  <2>6. ASSUME rexmitCount[e] < setup.maxRexmit,
               Expire(e, "REXMIT", "IGNORE", <<>>, timers[e]), AgainOrNothing(e)
        PROVE  TypeInv'
    <3>1. \A d \in Endpoint \ {e} : timers'[d] = timers[d] /\ rexmitCount'[d] = rexmitCount[d]
      BY <1>0, <1>1, <2>1, <2>3, <2>6, PerformType DEF Expire
    <3>2. setup' = setup /\ rexmitCount'[e] = rexmitCount[e] + 1
      BY <1>0, <2>1, <2>6 DEF Expire
    <3>3. rexmitCount'[e] <= setup.maxRexmit
      BY <1>0, <2>6, <3>2
    <3>4. CountBounded'
      BY <3>1, <3>2, <3>3 DEF CountBounded, TypeInv
    <3>5. wire' \in [Endpoint -> Seq(Kinds)]
      <4>1. CASE UNCHANGED wire
        BY <1>0, <4>1
      <4>2. CASE SendAgain(e)
        <5> DEFINE kind == Retransmission(snd[e]).kind
        <5>1. kind \in Kinds
          BY DEF Retransmission, RexmittedFin, RexmittedData, Kinds
        <5>2. wire' = [wire EXCEPT ![Peer(e)] = Append(@, kind)]
          BY <4>2 DEF SendAgain
        <5> HIDE DEF kind
        <5>3. Append(wire[Peer(e)], kind) \in Seq(Kinds)
          BY <1>0, <5>1, PeerType, AppendProperties
        <5> QED
          BY <1>0, <5>2, <5>3
      <4> QED
        BY <2>6, <4>1, <4>2 DEF AgainOrNothing
    <3> QED
      BY <1>0, <1>1, <2>3, <2>5, <2>6, <3>4, <3>5, ExpireType
  <2>7. ASSUME Expire(e, "REXMIT", "ABORT", <<"TIMED_OUT">>, timers[e] \ {"REXMIT"}),
               UNCHANGED wire
        PROVE  TypeInv'
    <3>1. timers[e] \ {"REXMIT"} \in SUBSET Timers
      BY <1>0
    <3>2. /\ timers'[e] \subseteq timers[e] \ {"REXMIT"}
          /\ \A d \in Endpoint \ {e} : timers'[d] = timers[d] /\ rexmitCount'[d] = rexmitCount[d]
      BY <1>0, <1>1, <2>1, <2>3, <2>7, <3>1, PerformType DEF Expire
    <3>3. setup' = setup /\ wire' \in [Endpoint -> Seq(Kinds)]
      BY <1>0, <2>7 DEF Expire
    <3>4. CountBounded'
      BY <3>2, <3>3 DEF CountBounded, TypeInv
    <3> QED
      BY <1>1, <2>3, <2>5, <2>7, <3>1, <3>3, <3>4, ExpireType
  <2> QED
    BY <1>5, <2>6, <2>7 DEF RexmitTimeout
<1>6. CASE RexmitFails(e)
  <2> DEFINE reason == RexmitError(setup.algorithm, snd[e])
  <2>1. reason \in Errors
    BY DEF RexmitError, Errors
  <2>2. Fail(reason)
    BY <1>6 DEF RexmitFails
  <2> HIDE DEF reason
  <2> QED
    BY <2>1, <2>2, FailType
<1> QED
  BY <1>3, <1>4, <1>5, <1>6 DEF TimerFires

LEMMA StutterTypes ==
  ASSUME TypeInv, UNCHANGED vars
  PROVE  TypeInv'
  BY DEF TypeInv, TypeOK, ToldOK, ClosedHasNoTimers, CountBounded, vars, connVars, appVars,
     history

LEMMA TypesKept == TypeInv /\ [Next]_vars => TypeInv'
<1> SUFFICES ASSUME TypeInv, [Next]_vars PROVE TypeInv'
  OBVIOUS
<1>1. "client" \in Endpoint
  BY DEF Endpoint
<1> QED
  BY <1>1, AppTypes, CommandTypes, SegmentTypes, TimerTypes, StutterTypes DEF Next

LEMMA TypesHold == Spec => []TypeInv
  BY InitTypes, TypesKept, PTL DEF Spec

\* Every variable of the connections, applications and network keeps its type, and the
\* retransmission counter its bound: it is never counted further after the last try, because
\* the abort that follows cancels the timer.
THEOREM LifecycleTypes == Spec => []TypeOK
<1>1. TypeInv => TypeOK
  BY DEF TypeInv
<1> QED
  BY <1>1, TypesHold, PTL

----------------------------------------------------------------------------
(* How a connection is closed.  An endpoint is described by the state s of   *)
(* its machine, its timers A, its send side n and the numbers F of the FINs  *)
(* it has sent.                                                              *)

\* States in which segments carry the numbers of the handshake or of the transfer, and
\* those in which a FIN is on its way.
Waiting == {"SYN_SENT", "SYN_RCVD"}
Open    == {"ESTABLISHED", "CLOSE_WAIT"}
Ending  == {"FIN_WAIT_1", "FIN_WAIT_2", "CLOSING", "LAST_ACK"}

\* The client opens actively, the server listens.
RoleFits(e, s) == s \notin IF e = "client" THEN {"LISTEN", "SYN_RCVD"} ELSE {"INIT", "SYN_SENT"}

\* Only CLOSE starts the retransmission timer, and it gives the FIN its number.
TimersFit(s, A, n) ==
    /\ "CONN_ESTAB" \in A => s = "SYN_RCVD"
    /\ "TIMEOUT_2MSL" \in A => s = "TIME_WAIT"
    /\ "REXMIT" \in A => s \in Ending \cup Open /\ n.finSeq # 0

\* The FIN is numbered behind the queue, once; until then nothing but the SYN has taken a
\* number, and an open connection has closed only if queued bytes defer the FIN.
NumbersFit(s, n, F) ==
    /\ n.finSeq \in {0, n.queue.end}
    /\ n.queue.end >= 1
    /\ n.finSeq # 0 => n.sendFin
    /\ n.finSeq = 0 => F = {}
    /\ n.finSeq = 1 => F \subseteq {1}
    /\ s \in Handshake => n.finSeq = 0
    /\ s \in Open => n.finSeq # 1
    /\ s \in Waiting \cup Open /\ n.finSeq = 0 => n.nxt = 1 /\ n.max = 1

\* The client's SYN has been acknowledged; without queued bytes its list of regions can
\* only hold the number of the FIN.
ClientFits(s, n) ==
    /\ s \notin {"INIT", "SYN_SENT", "CLOSED"} =>
           n.una = 1 /\ n.queue.begin = 1 /\ n.max >= 1
    /\ n.finSeq <= 1 => n.regions \in {<<>>, <<1, 2>>}

\* The server queues nothing: its application sends only when it is connected.
ServerFits(n) == n.queue.end = 1

Fits(e, s, A, n, F) ==
    /\ n \in SndRecords
    /\ RoleFits(e, s)
    /\ TimersFit(s, A, n)
    /\ NumbersFit(s, n, F)
    /\ e = "client" => ClientFits(s, n)
    /\ e = "server" => ServerFits(n)

EndpointsFit == \A e \in Endpoint : Fits(e, fsm[e], timers[e], snd[e], finSeqs[e])

\* Only the client writes.
ServerWritesNothing == \A i \in 1 .. Len(toConn["server"]) : toConn["server"][i] # "SEND"

\* The send sides and the numbers are functions.
NumbersType == snd \in [Endpoint -> SndRecords] /\ finSeqs \in [Endpoint -> SUBSET Int]

CloseInv == TypeInv /\ NumbersType /\ EndpointsFit /\ ServerWritesNothing

----------------------------------------------------------------------------
(* Transitions, without the rest of the state.                              *)

\* A step of endpoint e, given what it makes of the four.
LEMMA EndpointStep ==
  ASSUME CloseInv, NEW e \in Endpoint, NEW s, NEW A, NEW n, NEW F \in SUBSET Int,
         Fits(e, s, A, n, F),
         fsm' = [fsm EXCEPT ![e] = s], timers' = [timers EXCEPT ![e] = A],
         snd' = [snd EXCEPT ![e] = n], finSeqs' = [finSeqs EXCEPT ![e] = F]
  PROVE  NumbersType' /\ EndpointsFit'
<1>0. /\ snd \in [Endpoint -> SndRecords] /\ finSeqs \in [Endpoint -> SUBSET Int]
      /\ fsm \in [Endpoint -> States] /\ timers \in [Endpoint -> SUBSET Timers]
  BY DEF CloseInv, NumbersType, TypeInv, TypeOK
<1>1. n \in SndRecords
  BY DEF Fits
<1>2. NumbersType'
  BY <1>0, <1>1 DEF NumbersType
<1>3. /\ fsm'[e] = s /\ timers'[e] = A /\ snd'[e] = n /\ finSeqs'[e] = F
      /\ \A d \in Endpoint \ {e} : /\ fsm'[d] = fsm[d] /\ timers'[d] = timers[d]
                                   /\ snd'[d] = snd[d] /\ finSeqs'[d] = finSeqs[d]
  BY <1>0
<1>4. ASSUME NEW d \in Endpoint
      PROVE  Fits(d, fsm'[d], timers'[d], snd'[d], finSeqs'[d])
  <2>1. CASE d = e
    BY <1>3, <2>1
  <2>2. CASE d # e
    BY <1>3, <2>2 DEF CloseInv, EndpointsFit
  <2> QED
    BY <2>1, <2>2
<1>5. EndpointsFit'
  BY <1>4 DEF EndpointsFit
<1> QED
  BY <1>2, <1>5

\* What the states allow next, apart from opening and the SYN+ACK.
LEMMA StatesNext ==
  ASSUME NEW s \in States \ {"CLOSED"}, NEW event, event \notin {"OPEN_ACTIVE", "RCV_SYN"}
  PROVE  LET new == NextState(s, event)
         IN  /\ new \in Waiting => new = s
             /\ new \in Open => s \in Waiting \cup Open
             /\ event # "RCV_SYN_ACK" /\ s \in {"INIT", "SYN_SENT"} => new \in {s, "CLOSED"}
  BY DEF NextState, Moves, States, Waiting, Open

\* A step that leaves the send side alone: the timers must fit.
LEMMA PureStep ==
  ASSUME NEW e \in Endpoint, NEW s \in States \ {"CLOSED"}, NEW A, NEW B, NEW n, NEW F,
         NEW event, event \notin {"OPEN_ACTIVE", "RCV_SYN", "RCV_SYN_ACK"},
         Fits(e, s, A, n, F), TimersFit(NextState(s, event), B, n)
  PROVE  Fits(e, NextState(s, event), B, n, F)
<1> DEFINE new == NextState(s, event)
<1>1. /\ new \in Waiting => new = s
      /\ new \in Open => s \in Waiting \cup Open
      /\ s \in {"INIT", "SYN_SENT"} => new \in {s, "CLOSED"}
  BY StatesNext
<1>2. new \in Handshake => s \in Handshake
  BY HandshakeOnce
<1>3. RoleFits(e, new)
  BY RolesKept DEF RoleFits, Fits
<1>4. TimersFit(new, B, n)
  OBVIOUS
<1> HIDE DEF new
<1>5. NumbersFit(s, n, F)
  BY DEF Fits
<1>6. new \in Open => n.finSeq # 1
  <2>1. CASE s \in Open
    BY <1>5, <2>1 DEF NumbersFit
  <2>2. CASE s \in Waiting
    BY <1>5, <2>2 DEF NumbersFit, Waiting, Handshake
  <2> QED
    BY <1>1, <2>1, <2>2
<1>7. new \in Waiting \cup Open => s \in Waiting \cup Open
  BY <1>1
<1>8. NumbersFit(new, n, F)
  BY <1>2, <1>5, <1>6, <1>7 DEF NumbersFit
<1>9. e = "client" => ClientFits(new, n)
  BY <1>1 DEF Fits, ClientFits
<1> QED
  BY <1>3, <1>4, <1>8, <1>9 DEF Fits, new

\* The timers a state keeps, when a handler adds none.
LEMMA TimersLeft ==
  ASSUME NEW s \in States \ {"CLOSED"}, NEW A \in SUBSET Timers, NEW B \in SUBSET A, NEW n, NEW event,
         event \notin {"OPEN_ACTIVE", "RCV_SYN", "RCV_SYN_ACK"},
         TimersFit(s, A, n),
         s \in Ending /\ NextState(s, event) = "TIME_WAIT" => "REXMIT" \notin B
  PROVE  TimersFit(NextState(s, event), EntryTimers(s, NextState(s, event), B), n)
<1> DEFINE new == NextState(s, event)
           left == EntryTimers(s, new, B)
<1>1. left \subseteq B
  BY EntryTimersType
<1>2. /\ s = "TIME_WAIT" => new \in {"TIME_WAIT", "CLOSED"}
      /\ s \in Ending \cup Open => new \in Ending \cup Open \cup {"TIME_WAIT", "CLOSED"}
      /\ s \in Open => new # "TIME_WAIT"
      /\ new \in {"SYN_SENT", "SYN_RCVD"} => new = s
      /\ s = "SYN_RCVD" => new # "TIME_WAIT"
  BY DEF NextState, Moves, States, Ending, Open
<1>3. /\ new = "CLOSED" /\ s # "CLOSED" => left = {}
      /\ new # s /\ new \notin {"CLOSED", "TIME_WAIT", "SYN_RCVD", "SYN_SENT"} =>
             "CONN_ESTAB" \notin left
  BY DEF EntryTimers
<1> HIDE DEF new, left
<1>4. "CONN_ESTAB" \in left => new = "SYN_RCVD"
  BY <1>1, <1>2, <1>3 DEF TimersFit
<1>5. "TIMEOUT_2MSL" \in left => new = "TIME_WAIT"
  BY <1>1, <1>2, <1>3 DEF TimersFit
<1>6. "REXMIT" \in left => new \in Ending \cup Open /\ n.finSeq # 0
  <2> SUFFICES ASSUME "REXMIT" \in left PROVE new \in Ending \cup Open /\ n.finSeq # 0
    OBVIOUS
  <2>1. "REXMIT" \in B /\ "REXMIT" \in A
    BY <1>1
  <2>2. s \in Ending \cup Open /\ n.finSeq # 0
    BY <2>1 DEF TimersFit
  <2>3. new # "CLOSED"
    BY <1>3
  <2>4. new # "TIME_WAIT"
    BY <1>2, <2>1, <2>2 DEF new
  <2> QED
    BY <1>2, <2>2, <2>3, <2>4
<1> QED
  BY <1>4, <1>5, <1>6 DEF TimersFit, new, left

\* processSegment1stThru8th leaves the timers of the state it leads to.
LEMMA OutcomeFits ==
  ASSUME NEW s \in States \ {"CLOSED"}, NEW A \in SUBSET Timers, NEW n, TimersFit(s, A, n),
         NEW o \in {FinOutcome(s, A), OtherOutcome(s, A)}
  PROVE  /\ o.event \notin {"OPEN_ACTIVE", "RCV_SYN", "RCV_SYN_ACK"}
         /\ TimersFit(NextState(s, o.event), EntryTimers(s, NextState(s, o.event), o.timers), n)
<1>1. o.event \in {"TIMEOUT_2MSL", "RCV_FIN", "RCV_ACK", "CLOSE", "IGNORE"}
  BY DEF FinOutcome, OtherOutcome, Outcome
<1>2. CASE s = "TIME_WAIT"
  <2>1. "CONN_ESTAB" \notin A /\ "REXMIT" \notin A
    BY <1>2 DEF TimersFit, Ending, Open
  <2>2. "CONN_ESTAB" \notin o.timers /\ "REXMIT" \notin o.timers
    BY <1>2, <2>1 DEF FinOutcome, OtherOutcome, Outcome
  <2>3. NextState(s, o.event) \in {"TIME_WAIT", "CLOSED"}
    BY <1>2 DEF NextState, Moves
  <2> DEFINE new == NextState(s, o.event)
             left == EntryTimers(s, new, o.timers)
  <2>4. (new = "TIME_WAIT" => left = o.timers) /\ (new = "CLOSED" => left = {})
    BY <1>2 DEF EntryTimers
  <2> HIDE DEF new, left
  <2>5. TimersFit(new, left, n)
    BY <2>2, <2>3, <2>4 DEF TimersFit, new
  <2> QED
    BY <1>1, <2>5 DEF new, left
<1>3. CASE s # "TIME_WAIT"
  <2>1. o.timers \in SUBSET A
    BY <1>3 DEF FinOutcome, OtherOutcome, Outcome
  <2>2. s \in Ending /\ NextState(s, o.event) = "TIME_WAIT" => "REXMIT" \notin o.timers
    <3>1. CASE s = "FIN_WAIT_2"
      <4>1. o = FinOutcome(s, A) => "REXMIT" \notin o.timers
        BY <3>1 DEF FinOutcome, Outcome
      <4>2. o = OtherOutcome(s, A) => NextState(s, o.event) = s
        BY <3>1 DEF OtherOutcome, Outcome, NextState, Moves
      <4> QED
        BY <3>1, <4>1, <4>2
    <3>2. CASE s = "CLOSING"
      <4>1. o.event \in {"RCV_FIN", "IGNORE"}
        BY <3>2 DEF FinOutcome, OtherOutcome, Outcome
      <4>2. NextState(s, o.event) = s
        BY <3>2, <4>1 DEF NextState, Moves
      <4> QED
        BY <3>2, <4>2
    <3>3. CASE s \in {"FIN_WAIT_1", "LAST_ACK"}
      BY <1>1, <3>3 DEF NextState, Moves
    <3> QED
      BY <3>1, <3>2, <3>3 DEF Ending
  <2> QED
    BY <1>1, <2>1, <2>2, TimersLeft
<1> QED
  BY <1>2, <1>3

----------------------------------------------------------------------------
(* Steps.                                                                   *)

\* A step that leaves the send side alone.
LEMMA PurePerform ==
  ASSUME CloseInv, NEW e \in Endpoint, NEW event, NEW tells, NEW armed, fsm[e] # "CLOSED",
         event \notin {"OPEN_ACTIVE", "RCV_SYN", "RCV_SYN_ACK"},
         Perform(e, event, tells, armed), UNCHANGED <<snd, finSeqs>>,
         TimersFit(NextState(fsm[e], event),
                   EntryTimers(fsm[e], NextState(fsm[e], event), armed), snd[e])
  PROVE  NumbersType' /\ EndpointsFit'
<1> DEFINE new == NextState(fsm[e], event)
           left == EntryTimers(fsm[e], new, armed)
<1>1. fsm[e] \in States \ {"CLOSED"} /\ finSeqs[e] \in SUBSET Int
  BY DEF CloseInv, TypeInv, TypeOK, NumbersType
<1>2. Fits(e, fsm[e], timers[e], snd[e], finSeqs[e])
  BY DEF CloseInv, EndpointsFit
<1>3. Fits(e, new, left, snd[e], finSeqs[e])
  BY <1>1, <1>2, PureStep
<1>4. fsm' = [fsm EXCEPT ![e] = new] /\ timers' = [timers EXCEPT ![e] = left]
  BY DEF Perform
<1>5. snd' = [snd EXCEPT ![e] = snd[e]] /\ finSeqs' = [finSeqs EXCEPT ![e] = finSeqs[e]]
  BY DEF CloseInv, NumbersType
<1> HIDE DEF new, left
<1> QED
  BY <1>1, <1>3, <1>4, <1>5, EndpointStep

\* One that adds no timer either.
LEMMA KeepingPerform ==
  ASSUME CloseInv, NEW e \in Endpoint, NEW event, NEW tells, NEW armed \in SUBSET timers[e],
         fsm[e] # "CLOSED", event \notin {"OPEN_ACTIVE", "RCV_SYN", "RCV_SYN_ACK"},
         fsm[e] \in Ending /\ NextState(fsm[e], event) = "TIME_WAIT" => "REXMIT" \notin armed,
         Perform(e, event, tells, armed), UNCHANGED <<snd, finSeqs>>
  PROVE  NumbersType' /\ EndpointsFit'
<1>1. fsm[e] \in States \ {"CLOSED"} /\ timers[e] \in SUBSET Timers
  BY DEF CloseInv, TypeInv, TypeOK
<1>2. TimersFit(fsm[e], timers[e], snd[e])
  BY DEF CloseInv, EndpointsFit, Fits
<1> QED
  BY <1>1, <1>2, TimersLeft, PurePerform

\* A step of the four variables that leaves them alone.
LEMMA NothingMoves ==
  ASSUME CloseInv, UNCHANGED <<fsm, timers, snd, finSeqs>>
  PROVE  NumbersType' /\ EndpointsFit'
  BY DEF CloseInv, NumbersType, EndpointsFit

LEMMA WritesNothingTail ==
  ASSUME CloseInv, NEW e \in Endpoint, toConn[e] # <<>>, toConn' = [toConn EXCEPT ![e] = Tail(@)]
  PROVE  ServerWritesNothing'
<1>1. toConn \in [Endpoint -> Seq(Commands)] /\ "server" \in Endpoint
  BY DEF CloseInv, TypeInv, TypeOK, Commands, Endpoint
<1>2. CASE e = "server"
  <2> DEFINE q == toConn["server"]
  <2>1. toConn'["server"] = Tail(q) /\ q \in Seq(Commands) /\ q # <<>>
    BY <1>1, <1>2
  <2>2. \A i \in 1 .. Len(q) : q[i] # "SEND"
    BY DEF CloseInv, ServerWritesNothing
  <2> HIDE DEF q
  <2>3. \A i \in 1 .. Len(Tail(q)) : Tail(q)[i] = q[i + 1] /\ i + 1 \in 1 .. Len(q)
    BY <2>1
  <2> QED
    BY <2>1, <2>2, <2>3 DEF ServerWritesNothing
<1>3. CASE e # "server"
  BY <1>1, <1>3 DEF CloseInv, ServerWritesNothing
<1> QED
  BY <1>2, <1>3

LEMMA WritesNothingCommand ==
  ASSUME CloseInv, NEW e \in Endpoint, NEW command,
         e = "server" => command # "SEND", command \in Commands,
         Command(e, <<command>>)
  PROVE  ServerWritesNothing'
<1>0. toConn' = [toConn EXCEPT ![e] = @ \o <<command>>]
  BY DEF Command
<1>1. toConn \in [Endpoint -> Seq(Commands)] /\ "server" \in Endpoint
  BY DEF CloseInv, TypeInv, TypeOK, Commands, Endpoint
<1>2. CASE e = "server"
  <2> DEFINE q == toConn["server"]
  <2>1. toConn'["server"] = q \o <<command>> /\ q \in Seq(Commands)
    BY <1>0, <1>1, <1>2
  <2>2. \A i \in 1 .. Len(q) : q[i] # "SEND"
    BY DEF CloseInv, ServerWritesNothing
  <2> HIDE DEF q
  <2>3. \A i \in 1 .. Len(q \o <<command>>) :
           (q \o <<command>>)[i] = IF i <= Len(q) THEN q[i] ELSE command
    BY <2>1
  <2> QED
    BY <1>2, <2>1, <2>2, <2>3 DEF ServerWritesNothing
<1>3. CASE e # "server"
  BY <1>0, <1>1, <1>3 DEF CloseInv, ServerWritesNothing
<1> QED
  BY <1>2, <1>3

LEMMA StartedFits ==
  ASSUME NEW e, NEW s, NEW A, NEW n, NEW F, Fits(e, s, A, n, F), NEW b \in BOOLEAN
  PROVE  Fits(e, s, A, [n EXCEPT !.started = b], F)
<1> DEFINE m == [n EXCEPT !.started = b]
<1>1. /\ m \in SndRecords
      /\ m.una = n.una /\ m.nxt = n.nxt /\ m.max = n.max /\ m.queue = n.queue
      /\ m.sendFin = n.sendFin /\ m.finSeq = n.finSeq /\ m.regions = n.regions
  BY DEF Fits, SndRecords
<1> HIDE DEF m
<1>2. TimersFit(s, A, m) /\ NumbersFit(s, m, F)
  BY <1>1 DEF Fits, TimersFit, NumbersFit
<1>3. (e = "client" => ClientFits(s, m)) /\ (e = "server" => ServerFits(m))
  BY <1>1 DEF Fits, ClientFits, ServerFits
<1> QED
  BY <1>1, <1>2, <1>3 DEF Fits, m

LEMMA InitFits == Init => CloseInv
<1> SUFFICES ASSUME Init PROVE CloseInv
  OBVIOUS
<1>1. /\ Unnumbered \in SndRecords
      /\ Unnumbered.queue.end = 1 /\ Unnumbered.finSeq = 0 /\ Unnumbered.regions = <<>>
  <2> DEFINE q == EmptyQueue(1)
  <2>1. q \in [begin : Int, end : Int] /\ q.end = 1
    BY DEF EmptyQueue
  <2> HIDE DEF q
  <2>2. <<>> \in Regions
    BY DEF Regions
  <2> QED
    BY <2>1, <2>2 DEF Unnumbered, SndRecords, q
<1>2. snd = [e \in Endpoint |-> Unnumbered] /\ finSeqs = [e \in Endpoint |-> {}]
  BY DEF Init
<1>3. NumbersType
  BY <1>1, <1>2 DEF NumbersType
<1>4. ASSUME NEW e \in Endpoint
      PROVE  Fits(e, fsm[e], timers[e], snd[e], finSeqs[e])
  <2>1. fsm[e] = (IF e = "client" THEN "INIT" ELSE "LISTEN") /\ timers[e] = {}
    BY DEF Init
  <2>2. snd[e] = Unnumbered /\ finSeqs[e] = {}
    BY <1>2
  <2>3. RoleFits(e, fsm[e]) /\ TimersFit(fsm[e], timers[e], snd[e])
    BY <2>1 DEF RoleFits, TimersFit, Endpoint
  <2>4. NumbersFit(fsm[e], snd[e], finSeqs[e])
    BY <1>1, <2>1, <2>2 DEF NumbersFit, Handshake, Waiting, Open
  <2>5. /\ e = "client" => ClientFits(fsm[e], snd[e])
        /\ e = "server" => ServerFits(snd[e])
    BY <1>1, <2>1, <2>2 DEF ClientFits, ServerFits
  <2> QED
    BY <1>1, <2>2, <2>3, <2>4, <2>5 DEF Fits
<1>5. ServerWritesNothing
  BY DEF Init, ServerWritesNothing, Endpoint
<1> QED
  BY <1>3, <1>4, <1>5, InitTypes DEF CloseInv, EndpointsFit

LEMMA AppFits ==
  ASSUME CloseInv, NEW e \in Endpoint, Connect \/ WriteEarly \/ App(e)
  PROVE  NumbersType' /\ EndpointsFit' /\ ServerWritesNothing'
<1>1. UNCHANGED <<fsm, timers, snd, finSeqs>>
  BY DEF Connect, WriteEarly, App, AppCloses, AppAborts, AppReceives, connVars, history
<1>2. NumbersType' /\ EndpointsFit'
  BY <1>1, NothingMoves
<1> SUFFICES ServerWritesNothing'
  BY <1>2
<1>3. "client" \in Endpoint
  BY DEF Endpoint
<1>4. CASE Connect
  BY <1>3, <1>4, WritesNothingCommand DEF Connect, Commands
<1>5. CASE WriteEarly
  BY <1>3, <1>5, WritesNothingCommand DEF WriteEarly, Commands
<1>6. CASE AppCloses(e)
  BY <1>6, WritesNothingCommand DEF AppCloses, Commands
<1>7. CASE AppAborts(e)
  BY <1>7, WritesNothingCommand DEF AppAborts, Commands
<1>8. CASE AppReceives(e)
  <2>1. \/ Command(e, <<"CLOSE">>)
        \/ e = "client" /\ Command(e, <<"SEND">>)
        \/ Command(e, <<>>)
    BY <1>8 DEF AppReceives
  <2>2. CASE Command(e, <<>>)
    <3>1. toConn \in [Endpoint -> Seq(Commands)]
      BY DEF CloseInv, TypeInv, TypeOK, Commands
    <3>2. toConn[e] \o <<>> = toConn[e]
      BY <3>1, ConcatEmptySeq
    <3>3. toConn' = toConn
      <4>1. toConn' = [toConn EXCEPT ![e] = toConn[e] \o <<>>]
        BY <2>2 DEF Command
      <4> QED
        BY <3>1, <3>2, <4>1
    <3> QED
      BY <3>3 DEF CloseInv, ServerWritesNothing
  <2>3. CASE Command(e, <<"CLOSE">>)
    BY <2>3, WritesNothingCommand DEF Commands
  <2>4. CASE e = "client" /\ Command(e, <<"SEND">>)
    BY <2>4, WritesNothingCommand DEF Commands
  <2> QED
    BY <2>1, <2>2, <2>3, <2>4
<1> QED
  BY <1>4, <1>5, <1>6, <1>7, <1>8 DEF App

\* A handler that advances the send side, from the transition it makes.
LEMMA PerformStep ==
  ASSUME CloseInv, NEW e \in Endpoint, NEW event, NEW tells, NEW armed, NEW n,
         NEW F \in SUBSET Int, Perform(e, event, tells, armed),
         snd' = [snd EXCEPT ![e] = n], finSeqs' = [finSeqs EXCEPT ![e] = F],
         Fits(e, NextState(fsm[e], event),
              EntryTimers(fsm[e], NextState(fsm[e], event), armed), n, F)
  PROVE  NumbersType' /\ EndpointsFit'
  BY EndpointStep DEF Perform

\* An endpoint that opens, actively or passively, numbers its SYN.
LEMMA OpenFits ==
  ASSUME NEW e \in Endpoint, NEW A \in SUBSET Timers, NEW B \in SUBSET Timers, NEW n,
         NEW F \in SUBSET Int, NEW s, NEW event,
         \/ s = "INIT" /\ event = "OPEN_ACTIVE" /\ B = A
         \/ s = "LISTEN" /\ event = "RCV_SYN" /\ B = A \cup {"CONN_ESTAB"},
         Fits(e, s, A, n, F)
  PROVE  Fits(e, NextState(s, event), EntryTimers(s, NextState(s, event), B), SynNumbered(n), F)
<1> DEFINE new == NextState(s, event)
           m == SynNumbered(n)
           left == EntryTimers(s, new, B)
<1>1. /\ new \in Waiting /\ left = B
      /\ s = "INIT" => new = "SYN_SENT"
      /\ s = "LISTEN" => new = "SYN_RCVD"
  BY DEF NextState, Moves, EntryTimers, Waiting
<1>2. /\ m \in SndRecords
      /\ m.nxt = 1 /\ m.max = 1 /\ m.queue.end = 1 /\ m.queue.begin = 1
      /\ m.finSeq = 0 /\ m.sendFin = FALSE /\ m.regions = <<>>
  BY SynNumberedSnd
<1> HIDE DEF new, m, left
<1>3. s \in Handshake /\ s \notin Ending \cup Open /\ s # "SYN_RCVD" /\ s # "TIME_WAIT"
  BY DEF Handshake, Ending, Open
<1>4. F = {}
  BY <1>3 DEF Fits, NumbersFit
<1>5. "REXMIT" \notin B /\ "TIMEOUT_2MSL" \notin B /\ ("CONN_ESTAB" \in B => new = "SYN_RCVD")
  BY <1>1, <1>3 DEF Fits, TimersFit
<1>6. TimersFit(new, left, m)
  BY <1>1, <1>5 DEF TimersFit
<1>7. NumbersFit(new, m, F)
  BY <1>1, <1>2, <1>4 DEF NumbersFit, Waiting, Open
<1>8. RoleFits(e, new)
  BY <1>1 DEF Fits, RoleFits
<1>9. (e = "client" => ClientFits(new, m)) /\ (e = "server" => ServerFits(m))
  BY <1>1, <1>2, <1>8 DEF ClientFits, ServerFits, RoleFits, Waiting
<1> QED
  BY <1>2, <1>6, <1>7, <1>8, <1>9 DEF Fits, new, m, left

\* A request that is written early joins the client's queue.
LEMMA EarlySendFits ==
  ASSUME NEW A, NEW n, NEW F, NEW s \in Waiting, NEW e \in Endpoint, e = "client",
         NEW bytes \in Nat, Fits(e, s, A, n, F)
  PROVE  Fits(e, s, A, [n EXCEPT !.queue = EnqueueAppData(@, bytes)], F)
<1> DEFINE q == EnqueueAppData(n.queue, bytes)
           m == [n EXCEPT !.queue = q]
<1>1. n.queue \in [begin : Int, end : Int] /\ n \in SndRecords
  BY DEF Fits, SndRecords
<1>2. q \in [begin : Int, end : Int] /\ q.begin = n.queue.begin /\ q.end = n.queue.end + bytes
  <2> DEFINE k == n.queue.end + bytes
  <2>1. k \in Int
    BY <1>1
  <2>2. q = [n.queue EXCEPT !.end = k]
    BY DEF EnqueueAppData
  <2> HIDE DEF k, q
  <2>3. q \in [begin : Int, end : Int] /\ q.begin = n.queue.begin /\ q.end = k
    BY <1>1, <2>1, <2>2
  <2> QED
    BY <2>3 DEF k
<1> HIDE DEF q
<1>3. /\ m \in SndRecords
      /\ m.una = n.una /\ m.nxt = n.nxt /\ m.max = n.max /\ m.queue = q
      /\ m.sendFin = n.sendFin /\ m.finSeq = n.finSeq /\ m.regions = n.regions
  BY <1>1, <1>2 DEF SndRecords
<1> HIDE DEF m
<1>4. n.finSeq = 0 /\ n.queue.end >= 1 /\ n.queue.end \in Int
  BY <1>1 DEF Fits, NumbersFit, Waiting, Handshake
<1>5. NumbersFit(s, m, F)
  BY <1>2, <1>3, <1>4 DEF Fits, NumbersFit
<1>6. TimersFit(s, A, m)
  BY <1>3 DEF Fits, TimersFit
<1>7. ClientFits(s, m)
  <2>1. ClientFits(s, n)
    BY DEF Fits
  <2> QED
    BY <1>2, <1>3, <2>1 DEF ClientFits
<1> QED
  BY <1>3, <1>5, <1>6, <1>7, q = EnqueueAppData(n.queue, bytes) DEF Fits, m, q

LEMMA CloseNumbersSet ==
  ASSUME NEW n
  PROVE  ToSet(CloseNumbers(n)) = IF FinDeferred(n) THEN {n.nxt} ELSE {n.nxt, n.max}
<1>1. CASE FinDeferred(n)
  <2>1. CloseNumbers(n) = <<n.nxt>>
    BY <1>1 DEF CloseNumbers
  <2>2. ToSet(<<n.nxt>>) = {n.nxt}
    BY DEF ToSet
  <2> QED
    BY <1>1, <2>1, <2>2
<1>2. CASE ~FinDeferred(n)
  <2>1. CloseNumbers(n) = <<n.nxt, n.max>>
    BY <1>2 DEF CloseNumbers
  <2>2. ToSet(<<n.nxt, n.max>>) = {n.nxt, n.max}
    BY DEF ToSet
  <2> QED
    BY <1>2, <2>1, <2>2
<1> QED
  BY <1>1, <1>2

\* CLOSE: the FIN is numbered, the timer started, and unless bytes are queued the
\* connection leaves the states in which it is open.
LEMMA CloseFits ==
  ASSUME NEW e \in Endpoint, NEW s \in {"SYN_RCVD"} \cup Open, NEW A \in SUBSET Timers,
         NEW B \in SUBSET (A \cup {"REXMIT"}), NEW n, NEW F \in SUBSET Int,
         Fits(e, s, A, n, F), NEW event, event = IF FinDeferred(n) THEN "IGNORE" ELSE "CLOSE"
  PROVE  /\ F \cup ToSet(CloseNumbers(n)) \in SUBSET Int
         /\ Fits(e, NextState(s, event), EntryTimers(s, NextState(s, event), B),
                 AfterClose(n), F \cup ToSet(CloseNumbers(n)))
<1> DEFINE new == NextState(s, event)
           left == EntryTimers(s, new, B)
           m == AfterClose(n)
           G == F \cup ToSet(CloseNumbers(n))
<1>1. /\ n \in SndRecords /\ n.nxt \in Int /\ n.max \in Int /\ n.queue.end \in Int
      /\ n.finSeq \in Int
  BY DEF Fits, SndRecords
<1>2. /\ m \in SndRecords
      /\ m.una = n.una /\ m.queue = n.queue /\ m.regions = n.regions
      /\ m.finSeq = n.queue.end /\ m.sendFin = TRUE
      /\ m.max = IF FinDeferred(n) THEN n.max ELSE n.max + 1
  BY <1>1, AfterCloseSnd
<1>3. /\ FinDeferred(n) => new = s
      /\ ~FinDeferred(n) => new \in {"FIN_WAIT_1", "LAST_ACK"}
  BY DEF NextState, Moves, Open
<1>4. left \subseteq B /\ (new \notin {"SYN_RCVD", "SYN_SENT", "TIME_WAIT", s} => "CONN_ESTAB" \notin left)
  BY EntryTimersType DEF EntryTimers
<1>5. G = F \cup IF FinDeferred(n) THEN {n.nxt} ELSE {n.nxt, n.max}
  BY CloseNumbersSet
<1> HIDE DEF new, left, m, G
<1>6. G \in SUBSET Int
  BY <1>1, <1>5
<1>7. NumbersFit(s, n, F) /\ TimersFit(s, A, n) /\ RoleFits(e, s)
  BY DEF Fits
<1>8. FinDeferred(n) <=> n.max # n.queue.end
  BY DEF FinDeferred
<1>9. FinDeferred(n) => s \in Open
  <2> SUFFICES ASSUME FinDeferred(n), s = "SYN_RCVD" PROVE FALSE
    OBVIOUS
  <2>1. e = "server"
    BY <1>7 DEF RoleFits, Endpoint
  <2>2. n.queue.end = 1
    BY <2>1 DEF Fits, ServerFits
  <2>3. n.max = 1
    BY <1>7 DEF NumbersFit, Waiting, Handshake
  <2> QED
    BY <1>8, <2>2, <2>3
<1>10. CASE n.finSeq = 0
  <2>1. n.nxt = 1 /\ n.max = 1 /\ F = {}
    BY <1>7, <1>10 DEF NumbersFit, Waiting
  <2>2. G = {1}
    BY <1>5, <2>1
  <2>3. FinDeferred(n) => n.queue.end # 1
    BY <1>8, <2>1
  <2>4. NumbersFit(new, m, G)
    BY <1>2, <1>3, <1>7, <1>9, <2>2, <2>3 DEF NumbersFit, Handshake, Open, Waiting
  <2>5. TimersFit(new, left, m)
    BY <1>1, <1>2, <1>3, <1>4, <1>7, <1>9 DEF TimersFit, NumbersFit, Ending, Open
  <2>6. RoleFits(e, new)
    BY <1>3, <1>7 DEF RoleFits
  <2>7. e = "client" => ClientFits(new, m)
    <3> SUFFICES ASSUME e = "client" PROVE ClientFits(new, m)
      OBVIOUS
    <3>1. ClientFits(s, n) /\ s \notin {"INIT", "SYN_SENT", "CLOSED"}
      BY DEF Fits, Open
    <3> QED
      BY <1>1, <1>2, <1>10, <3>1 DEF ClientFits
  <2>8. e = "server" => ServerFits(m)
    BY <1>2 DEF Fits, ServerFits
  <2> QED
    BY <1>2, <1>6, <2>4, <2>5, <2>6, <2>7, <2>8 DEF Fits, new, left, m, G
<1>11. CASE n.finSeq # 0
  <2>1. s \in Open /\ n.queue.end = n.finSeq /\ n.queue.end > 1
    BY <1>1, <1>7, <1>11 DEF NumbersFit, Handshake
  <2>4. NumbersFit(new, m, G)
    BY <1>1, <1>2, <1>3, <2>1 DEF NumbersFit, Handshake, Open, Waiting
  <2>5. TimersFit(new, left, m)
    BY <1>1, <1>2, <1>3, <1>4, <1>7, <2>1 DEF TimersFit, Ending, Open
  <2>6. RoleFits(e, new)
    BY <1>3, <1>7 DEF RoleFits
  <2>7. e = "client" => ClientFits(new, m)
    <3> SUFFICES ASSUME e = "client" PROVE ClientFits(new, m)
      OBVIOUS
    <3>1. ClientFits(s, n) /\ s \notin {"INIT", "SYN_SENT", "CLOSED"}
      BY <2>1 DEF Fits, Open
    <3> QED
      BY <1>1, <1>2, <2>1, <3>1 DEF ClientFits
  <2>8. e = "server" => ServerFits(m)
    BY <1>2 DEF Fits, ServerFits
  <2> QED
    BY <1>2, <1>6, <2>4, <2>5, <2>6, <2>7, <2>8 DEF Fits, new, left, m, G
<1> QED
  BY <1>10, <1>11

\* With nothing queued the FIN is all there is to send again, and it keeps its number.
LEMMA FinAgain ==
  ASSUME NEW n \in SndRecords, n.una = 1, n.queue.end = 1, n.finSeq = 1, n.sendFin, n.max >= 1
  PROVE  /\ OnlyFin(n)
         /\ Retransmission(n).from = 1 /\ Retransmission(n).snd.nxt = 2
<1>1. n.max \in Int
  BY DEF SndRecords
<1>2. GetBytesAvailable(n.queue, n.una) = 0
  BY DEF GetBytesAvailable
<1>3. RexmitBytes(n) = 0
  BY <1>1, <1>2 DEF RexmitBytes, Smaller, Mss
<1>4. OnlyFin(n)
  BY <1>3 DEF OnlyFin
<1>5. Retransmission(n) = RexmittedFin(n)
  BY <1>4 DEF Retransmission
<1>6. OverFin(n, 1).nxt = 2
  BY DEF OverFin, SndRecords
<1> QED
  BY <1>4, <1>5, <1>6 DEF RexmittedFin

LEMMA RexmitFits ==
  ASSUME NEW e \in Endpoint, NEW s, NEW A, NEW n, NEW F \in SUBSET Int, NEW flavour,
         Fits(e, s, A, n, F), "REXMIT" \in A,
         NEW G, G = F \cup (IF Retransmission(n).kind = "FIN" THEN {Retransmission(n).seq} ELSE {})
  PROVE  G \in SUBSET Int /\ Fits(e, s, A, AfterRexmit(flavour, n), G)
<1> DEFINE r == Retransmission(n)
           m == AfterRexmit(flavour, n)
<1>1. /\ n \in SndRecords /\ n.max \in Int /\ n.queue.end \in Int /\ n.finSeq \in Int
      /\ TimersFit(s, A, n) /\ NumbersFit(s, n, F) /\ RoleFits(e, s)
  BY DEF Fits, SndRecords
<1>2. /\ m \in SndRecords
      /\ m.una = n.una /\ m.queue = n.queue
      /\ m.finSeq = n.finSeq /\ m.sendFin = n.sendFin
      /\ m.max \in {n.max, n.queue.end + 1}
  BY <1>1, AfterRexmitSnd
<1>3. r.kind = "FIN" => r.seq = n.finSeq
  BY <1>1, RetransmissionSnd
<1>4. m.regions = IF flavour = "RQVegas" THEN NoteRegion(n.regions, r.from, r.snd.nxt)
                  ELSE n.regions
  <2>1. r.snd \in SndRecords /\ r.snd.regions = n.regions
    BY <1>1, RetransmissionSnd
  <2> HIDE DEF r
  <2>2. m = IF flavour = "RQVegas"
            THEN [r.snd EXCEPT !.regions = NoteRegion(r.snd.regions, r.from, r.snd.nxt)]
            ELSE r.snd
    BY <2>1 DEF AfterRexmit, r, SndRecords
  <2> HIDE DEF m
  <2> QED
    BY <2>1, <2>2 DEF SndRecords
<1>5. n.finSeq # 0 /\ s \in Ending \cup Open /\ n.finSeq = n.queue.end /\ n.sendFin
  BY <1>1 DEF TimersFit, NumbersFit
<1> HIDE DEF r, m
<1>6. G \in SUBSET Int /\ (n.finSeq = 1 => G \subseteq {1})
  BY <1>1, <1>3 DEF NumbersFit, r
<1>7. NumbersFit(s, m, G)
  BY <1>1, <1>2, <1>5, <1>6 DEF NumbersFit
<1>8. TimersFit(s, A, m)
  BY <1>1, <1>2 DEF TimersFit
<1>9. e = "client" => ClientFits(s, m)
  <2> SUFFICES ASSUME e = "client" PROVE ClientFits(s, m)
    OBVIOUS
  <2>1. ClientFits(s, n) /\ n.queue.end >= 1
    BY <1>1 DEF Fits, NumbersFit
  <2>2. n.una = 1 /\ n.queue.begin = 1 /\ n.max >= 1
    BY <1>5, <2>1 DEF ClientFits, Ending, Open
  <2>3. m.max >= 1
    BY <1>1, <1>2, <2>1, <2>2
  <2>4. m.finSeq <= 1 => m.regions \in {<<>>, <<1, 2>>}
    <3> SUFFICES ASSUME m.finSeq <= 1 PROVE m.regions \in {<<>>, <<1, 2>>}
      OBVIOUS
    <3>1. n.finSeq = 1 /\ n.queue.end = 1
      BY <1>1, <1>2, <1>5, <2>1
    <3>2. r.from = 1 /\ r.snd.nxt = 2
      BY <1>1, <1>5, <2>2, <3>1, FinAgain DEF r
    <3>3. n.regions \in {<<>>, <<1, 2>>}
      BY <2>1, <3>1 DEF ClientFits
    <3>4. NoteRegion(n.regions, 1, 2) \in {<<>>, <<1, 2>>}
      <4>1. NoteRegion(<<>>, 1, 2) = <<1, 2>>
        BY DEF NoteRegion
      <4>2. NoteRegion(<<1, 2>>, 1, 2) = <<1, 2>>
        BY DEF NoteRegion, Larger
      <4> QED
        BY <3>3, <4>1, <4>2
    <3> QED
      BY <1>4, <3>2, <3>3, <3>4
  <2> QED
    BY <1>2, <2>2, <2>3, <2>4 DEF ClientFits
<1>10. e = "server" => ServerFits(m)
  BY <1>2 DEF Fits, ServerFits
<1> QED
  BY <1>1, <1>2, <1>6, <1>7, <1>8, <1>9, <1>10 DEF Fits, m

\* The SYN+ACK acknowledges the client's SYN.
LEMMA SynAckFits ==
  ASSUME NEW e \in Endpoint, NEW A \in SUBSET Timers, NEW n, NEW F, NEW b \in BOOLEAN,
         Fits(e, "SYN_SENT", A, n, F)
  PROVE  Fits(e, NextState("SYN_SENT", "RCV_SYN_ACK"),
              EntryTimers("SYN_SENT", NextState("SYN_SENT", "RCV_SYN_ACK"), A),
              [SynAcknowledged(n) EXCEPT !.started = b], F)
<1> DEFINE new == NextState("SYN_SENT", "RCV_SYN_ACK")
           left == EntryTimers("SYN_SENT", new, A)
           q == DiscardUpTo(n.queue, 1)
           m == [n EXCEPT !.una = 1, !.queue = q, !.started = b]
<1>1. /\ n \in SndRecords /\ n.queue \in [begin : Int, end : Int]
      /\ TimersFit("SYN_SENT", A, n) /\ NumbersFit("SYN_SENT", n, F) /\ RoleFits(e, "SYN_SENT")
  BY DEF Fits, SndRecords
<1>2. q \in [begin : Int, end : Int] /\ q.begin = 1 /\ q.end = n.queue.end
  BY <1>1 DEF DiscardUpTo
<1>3. new = "ESTABLISHED" /\ left \subseteq A
  BY EntryTimersType DEF NextState, Moves
<1>4. [SynAcknowledged(n) EXCEPT !.started = b] = m
  BY <1>1 DEF SynAcknowledged, SndRecords
<1> HIDE DEF q
<1>5. /\ m \in SndRecords
      /\ m.una = 1 /\ m.nxt = n.nxt /\ m.max = n.max /\ m.queue = q
      /\ m.sendFin = n.sendFin /\ m.finSeq = n.finSeq /\ m.regions = n.regions
  BY <1>1, <1>2 DEF SndRecords
<1> HIDE DEF new, left, m
<1>6. n.finSeq = 0 /\ n.nxt = 1 /\ n.max = 1 /\ F = {}
  BY <1>1 DEF NumbersFit, Handshake, Waiting
<1>7. NumbersFit(new, m, F)
  BY <1>1, <1>2, <1>3, <1>5, <1>6 DEF NumbersFit, Handshake
<1>8. TimersFit(new, left, m)
  BY <1>1, <1>3, <1>5, <1>6 DEF TimersFit
<1>9. e = "client"
  BY <1>1 DEF RoleFits
<1>10. RoleFits(e, new) /\ ClientFits(new, m)
  BY <1>2, <1>3, <1>5, <1>6, <1>9 DEF RoleFits, ClientFits, Fits
<1> QED
  BY <1>4, <1>5, <1>7, <1>8, <1>9, <1>10 DEF Fits, new, left

----------------------------------------------------------------------------
(* The handlers.                                                            *)

\* What CloseInv says of the endpoint that takes the step.
LEMMA EndpointType ==
  ASSUME CloseInv, NEW e \in Endpoint
  PROVE  /\ fsm[e] \in States /\ timers[e] \in SUBSET Timers
         /\ snd \in [Endpoint -> SndRecords] /\ finSeqs \in [Endpoint -> SUBSET Int]
         /\ finSeqs[e] \in SUBSET Int
         /\ Fits(e, fsm[e], timers[e], snd[e], finSeqs[e])
         /\ setup.request \in Nat
  BY SetupType DEF CloseInv, TypeInv, TypeOK, NumbersType, EndpointsFit

LEMMA CommandFits ==
  ASSUME CloseInv, NEW e \in Endpoint, ProcessAppCommand(e)
  PROVE  NumbersType' /\ EndpointsFit' /\ ServerWritesNothing'
<1>0. /\ fsm[e] \in States /\ timers[e] \in SUBSET Timers
      /\ snd \in [Endpoint -> SndRecords] /\ finSeqs \in [Endpoint -> SUBSET Int]
      /\ finSeqs[e] \in SUBSET Int
      /\ Fits(e, fsm[e], timers[e], snd[e], finSeqs[e])
      /\ setup.request \in Nat
  BY EndpointType
<1>1. CASE RejectCommand(e)
  <2>1. UNCHANGED <<connVars, appVars, history>>
    BY <1>1 DEF RejectCommand, Fail
  <2>2. NumbersType' /\ EndpointsFit'
    BY <2>1, NothingMoves DEF connVars, history
  <2> QED
    BY <2>1, <2>2 DEF appVars, CloseInv, ServerWritesNothing
<1> SUFFICES ASSUME ~RejectCommand(e) PROVE NumbersType' /\ EndpointsFit'
  <2>1. \/ toConn[e] # <<>> /\ toConn' = [toConn EXCEPT ![e] = Tail(@)]
        \/ RejectCommand(e)
    BY DEF ProcessAppCommand, ProcessOpenActive, ProcessEarlySend, ProcessSend,
       ProcessEarlyClose, ProcessClose, ProcessAbort, TakeCommand, Execute
  <2> QED
    BY <1>1, <2>1, WritesNothingTail
<1> DEFINE s == fsm[e]
           n == snd[e]
           F == finSeqs[e]
<1>2. finSeqs' = finSeqs => finSeqs' = [finSeqs EXCEPT ![e] = F]
  BY <1>0
<1>3. CASE ProcessOpenActive(e)
  <2>1. /\ Perform(e, "OPEN_ACTIVE", <<>>, timers[e])
        /\ s = "INIT" /\ snd' = [snd EXCEPT ![e] = SynNumbered(n)] /\ finSeqs' = finSeqs
    BY <1>3 DEF ProcessOpenActive, Execute, SendSideOf
  <2>2. Fits(e, NextState(s, "OPEN_ACTIVE"),
             EntryTimers(s, NextState(s, "OPEN_ACTIVE"), timers[e]), SynNumbered(n), F)
    BY <1>0, <2>1, OpenFits
  <2> QED
    BY <1>0, <1>2, <2>1, <2>2, PerformStep
<1>4. CASE ProcessEarlySend(e)
  <2> DEFINE m == [n EXCEPT !.queue = EnqueueAppData(@, setup.request)]
  <2>1. /\ Perform(e, "SEND", <<>>, timers[e])
        /\ s \in Waiting /\ snd' = [snd EXCEPT ![e] = m] /\ finSeqs' = finSeqs
        /\ toConn[e] # <<>> /\ Head(toConn[e]) = "SEND"
    BY <1>4 DEF ProcessEarlySend, TakeCommand, Execute, SendSideOf, Waiting
  <2>2. e = "client"
    <3> SUFFICES ASSUME e = "server" PROVE FALSE
      BY DEF Endpoint
    <3>1. toConn["server"] \in Seq(Commands) /\ toConn["server"] # <<>>
      BY <2>1 DEF CloseInv, TypeInv, TypeOK, Commands
    <3>2. 1 \in 1 .. Len(toConn["server"]) /\ toConn["server"][1] = "SEND"
      BY <2>1, <3>1
    <3> QED
      BY <3>2 DEF CloseInv, ServerWritesNothing
  <2>3. Fits(e, s, timers[e], m, F)
    BY <1>0, <2>1, <2>2, EarlySendFits
  <2> HIDE DEF m
  <2>4. NextState(s, "SEND") = s /\ EntryTimers(s, s, timers[e]) = timers[e]
    BY <2>1 DEF NextState, Moves, Waiting, EntryTimers
  <2>5. Fits(e, NextState(s, "SEND"), EntryTimers(s, NextState(s, "SEND"), timers[e]), m, F)
    BY <2>3, <2>4
  <2> QED
    BY <1>0, <1>2, <2>1, <2>5, PerformStep
<1>5. CASE ProcessSend(e)
  <2> PICK sends \in SendCommandInvoked(setup.algorithm, Request(2), n.started) :
          /\ Execute(e, "SEND", IF sends THEN <<"SYMBOL">> ELSE <<>>, timers[e])
          /\ SendSideOf(e, [n EXCEPT !.started = @ \/ sends])
    BY <1>5 DEF ProcessSend
  <2> DEFINE b == n.started \/ sends
             m == [n EXCEPT !.started = b]
  <2>1. /\ Perform(e, "SEND", <<>>, timers[e])
        /\ s \in Open /\ snd' = [snd EXCEPT ![e] = m] /\ finSeqs' = finSeqs
    BY <1>5 DEF ProcessSend, Execute, SendSideOf, Open
  <2>2. b \in BOOLEAN
    OBVIOUS
  <2> HIDE DEF b
  <2>3. Fits(e, s, timers[e], m, F)
    BY <1>0, <2>2, StartedFits
  <2> HIDE DEF m
  <2>4. NextState(s, "SEND") = s /\ EntryTimers(s, s, timers[e]) = timers[e]
    BY <2>1 DEF NextState, Moves, Open, EntryTimers
  <2>5. Fits(e, NextState(s, "SEND"), EntryTimers(s, NextState(s, "SEND"), timers[e]), m, F)
    BY <2>3, <2>4
  <2> QED
    BY <1>0, <1>2, <2>1, <2>5, PerformStep
<1>6. CASE ProcessEarlyClose(e)
  <2>1. /\ Perform(e, "CLOSE", <<>>, timers[e]) /\ UNCHANGED <<snd, finSeqs>>
        /\ s # "CLOSED" /\ s \notin Ending
    BY <1>6 DEF ProcessEarlyClose, Execute, Ending
  <2> QED
    BY <1>0, <2>1, KeepingPerform
<1>7. CASE ProcessClose(e)
  <2> DEFINE event == IF FinDeferred(n) THEN "IGNORE" ELSE "CLOSE"
             G == F \cup ToSet(CloseNumbers(n))
             m == AfterClose(n)
             armed == RexmitStarted(e)
  <2>1. /\ Perform(e, event, <<>>, armed)
        /\ s \in {"SYN_RCVD"} \cup Open
        /\ snd' = [snd EXCEPT ![e] = m] /\ finSeqs' = [finSeqs EXCEPT ![e] = G]
    BY <1>7 DEF ProcessClose, Execute, SendSideOf, NoteFins, Open
  <2>2. armed \in SUBSET (timers[e] \cup {"REXMIT"})
    BY DEF RexmitStarted
  <2> HIDE DEF armed
  <2>3. event = IF FinDeferred(n) THEN "IGNORE" ELSE "CLOSE"
    OBVIOUS
  <2> HIDE DEF event
  <2>4. /\ G \in SUBSET Int
        /\ Fits(e, NextState(s, event), EntryTimers(s, NextState(s, event), armed), m, G)
    <3> DEFINE A == timers[e]
    <3>1. /\ Fits(e, s, A, n, F) /\ F \in SUBSET Int /\ A \in SUBSET Timers
          /\ armed \in SUBSET (A \cup {"REXMIT"}) /\ s \in {"SYN_RCVD"} \cup Open
      BY <1>0, <2>1, <2>2
    <3> HIDE DEF s, n, F, A
    <3> QED
      BY <2>3, <3>1, CloseFits
  <2> HIDE DEF G, m
  <2> QED
    BY <2>1, <2>4, PerformStep
<1>8. CASE ProcessAbort(e)
  <2>1. /\ Perform(e, "ABORT", <<>>, timers[e]) /\ UNCHANGED <<snd, finSeqs>>
        /\ s # "CLOSED" /\ s # "INIT"
    BY <1>8 DEF ProcessAbort, Execute
  <2>2. NextState(s, "ABORT") # "TIME_WAIT"
    BY <1>0, <2>1, AbortCloses
  <2> QED
    BY <1>0, <2>1, <2>2, KeepingPerform
<1> QED
  BY <1>3, <1>4, <1>5, <1>6, <1>7, <1>8 DEF ProcessAppCommand

LEMMA SegmentFits ==
  ASSUME CloseInv, NEW e \in Endpoint, NEW i \in 1 .. Len(wire[e]),
         RcvSegment(e, i) \/ LoseSegment(e, i)
  PROVE  NumbersType' /\ EndpointsFit' /\ ServerWritesNothing'
<1>0. /\ fsm[e] \in States /\ timers[e] \in SUBSET Timers
      /\ snd \in [Endpoint -> SndRecords] /\ finSeqs \in [Endpoint -> SUBSET Int]
      /\ finSeqs[e] \in SUBSET Int
      /\ Fits(e, fsm[e], timers[e], snd[e], finSeqs[e])
  BY EndpointType
<1> SUFFICES NumbersType' /\ EndpointsFit'
  <2>1. toConn' = toConn
    BY DEF RcvSegment, LoseSegment, RcvInListen, RcvSynAck, RcvInSynSent, RcvFin, RcvClosing,
       RcvEstablished, RcvUnknown, RcvAtListener, RcvWhileClosed, Handle, HandleOutcome, Fail,
       appVars
  <2> QED
    BY <2>1 DEF CloseInv, ServerWritesNothing
<1>1. CASE UNCHANGED connVars /\ UNCHANGED history
  BY <1>1, NothingMoves DEF connVars, history
<1> DEFINE s == fsm[e]
           n == snd[e]
           F == finSeqs[e]
<1>2. finSeqs' = finSeqs => finSeqs' = [finSeqs EXCEPT ![e] = F]
  BY <1>0
<1>3. TimersFit(s, timers[e], n)
  BY <1>0 DEF Fits
\* A segment that moves nothing, or only ends the connection.
<1>4. ASSUME NEW event \in {"IGNORE", "RCV_RST"}, NEW tells, s # "CLOSED",
             Perform(e, event, tells, timers[e]), UNCHANGED <<snd, finSeqs>>
      PROVE  NumbersType' /\ EndpointsFit'
  <2>1. NextState(s, event) \in {s, "CLOSED"}
    BY <1>0, <1>4 DEF NextState, Moves, States
  <2>2. s \in Ending => NextState(s, event) # "TIME_WAIT"
    BY <2>1 DEF Ending
  <2> QED
    BY <1>0, <1>4, <2>2, KeepingPerform
<1>5. CASE RcvInListen(e, i)
  <2>1. CASE /\ Handle(e, i, "RCV_SYN", <<"SYNACK">>, <<>>, timers[e] \cup {"CONN_ESTAB"})
             /\ SendSideOf(e, SynNumbered(n))
    <3> DEFINE armed == timers[e] \cup {"CONN_ESTAB"}
    <3>1. /\ Perform(e, "RCV_SYN", <<>>, armed) /\ s = "LISTEN"
          /\ snd' = [snd EXCEPT ![e] = SynNumbered(n)] /\ finSeqs' = finSeqs
      BY <1>5, <2>1 DEF RcvInListen, Handle, SendSideOf
    <3>2. armed \in SUBSET Timers
      BY <1>0 DEF Timers
    <3>3. Fits(e, NextState(s, "RCV_SYN"),
               EntryTimers(s, NextState(s, "RCV_SYN"), armed), SynNumbered(n), F)
      BY <1>0, <3>1, <3>2, OpenFits
    <3> HIDE DEF armed
    <3> QED
      BY <1>0, <1>2, <3>1, <3>3, PerformStep
  <2>2. CASE Handle(e, i, "IGNORE", <<"RST">>, <<>>, timers[e]) /\ UNCHANGED snd
    BY <1>4, <1>5, <2>2 DEF Handle, RcvInListen
  <2> QED
    BY <1>5, <2>1, <2>2 DEF RcvInListen
<1>6. CASE RcvSynAck(e, i)
  <2> PICK reply \in ActiveReplies(setup.algorithm) :
          /\ Handle(e, i, "RCV_SYN_ACK", IF reply = "NONE" THEN <<>> ELSE <<reply>>,
                    <<"ESTABLISHED">>, timers[e])
          /\ SendSideOf(e, [SynAcknowledged(n) EXCEPT !.started = reply = "SYMBOL"])
    BY <1>6 DEF RcvSynAck
  <2> DEFINE b == reply = "SYMBOL"
             m == [SynAcknowledged(n) EXCEPT !.started = b]
  <2>1. /\ Perform(e, "RCV_SYN_ACK", <<"ESTABLISHED">>, timers[e]) /\ s = "SYN_SENT"
        /\ snd' = [snd EXCEPT ![e] = m] /\ finSeqs' = finSeqs
    BY <1>6 DEF RcvSynAck, Handle, SendSideOf
  <2>2. b \in BOOLEAN
    OBVIOUS
  <2> HIDE DEF b
  <2>3. Fits(e, NextState(s, "RCV_SYN_ACK"),
             EntryTimers(s, NextState(s, "RCV_SYN_ACK"), timers[e]), m, F)
    BY <1>0, <2>1, <2>2, SynAckFits
  <2> HIDE DEF m
  <2> QED
    BY <1>0, <1>2, <2>1, <2>3, PerformStep
<1>7. CASE RcvInSynSent(e, i)
  <2>1. /\ UNCHANGED <<snd, finSeqs>> /\ s # "CLOSED"
        /\ \/ Perform(e, "RCV_RST", <<"CONNECTION_RESET">>, timers[e])
           \/ Perform(e, "IGNORE", <<>>, timers[e])
    BY <1>7 DEF RcvInSynSent, Handle
  <2> QED
    BY <1>4, <2>1
<1>8. ASSUME NEW o \in {FinOutcome(s, timers[e]), OtherOutcome(s, timers[e])},
             s # "CLOSED", Perform(e, o.event, o.tells, o.timers), UNCHANGED <<snd, finSeqs>>
      PROVE  NumbersType' /\ EndpointsFit'
  <2>1. /\ o.event \notin {"OPEN_ACTIVE", "RCV_SYN", "RCV_SYN_ACK"}
        /\ TimersFit(NextState(s, o.event), EntryTimers(s, NextState(s, o.event), o.timers), n)
    BY <1>0, <1>3, <1>8, OutcomeFits
  <2> QED
    BY <1>8, <2>1, PurePerform
<1>9. CASE RcvFin(e, i)
  BY <1>8, <1>9 DEF RcvFin, HandleOutcome, Handle
<1>10. CASE RcvClosing(e, i)
  BY <1>8, <1>10 DEF RcvClosing, HandleOutcome, Handle
<1>11. CASE RcvEstablished(e, i)
  <2>1. /\ UNCHANGED <<snd, finSeqs>> /\ s # "CLOSED"
        /\ \E tells : Perform(e, "IGNORE", tells, timers[e])
    BY <1>11 DEF RcvEstablished, Handle
  <2> QED
    BY <1>4, <2>1
<1>12. CASE RcvUnknown(e, i) \/ RcvAtListener(e, i) \/ RcvWhileClosed(e, i) \/ LoseSegment(e, i)
  BY <1>1, <1>12 DEF RcvUnknown, RcvAtListener, RcvWhileClosed, LoseSegment, Fail
<1> QED
  BY <1>5, <1>6, <1>7, <1>9, <1>10, <1>11, <1>12 DEF RcvSegment

LEMMA TimerFits ==
  ASSUME CloseInv, NEW e \in Endpoint, TimerFires(e)
  PROVE  NumbersType' /\ EndpointsFit' /\ ServerWritesNothing'
<1>0. /\ fsm[e] \in States /\ timers[e] \in SUBSET Timers
      /\ snd \in [Endpoint -> SndRecords] /\ finSeqs \in [Endpoint -> SUBSET Int]
      /\ finSeqs[e] \in SUBSET Int
      /\ Fits(e, fsm[e], timers[e], snd[e], finSeqs[e])
  BY EndpointType
<1> SUFFICES NumbersType' /\ EndpointsFit'
  <2>1. toConn' = toConn
    BY DEF TimerFires, ConnEstabTimeout, TimeWaitTimeout, RexmitTimeout, RexmitFails, Expire,
       Fail, appVars
  <2> QED
    BY <2>1 DEF CloseInv, ServerWritesNothing
<1> DEFINE s == fsm[e]
           n == snd[e]
           F == finSeqs[e]
<1>1. CASE ConnEstabTimeout(e)
  <2>1. /\ Perform(e, "TIMEOUT_CONN_ESTAB", <<>>, timers[e] \ {"CONN_ESTAB"})
        /\ s = "SYN_RCVD" /\ UNCHANGED <<snd, finSeqs>>
    BY <1>1 DEF ConnEstabTimeout, Expire
  <2> QED
    BY <2>1, KeepingPerform DEF Ending
<1>2. CASE TimeWaitTimeout(e)
  <2>1. /\ Perform(e, "TIMEOUT_2MSL", <<>>, timers[e] \ {"TIMEOUT_2MSL"})
        /\ s = "TIME_WAIT" /\ UNCHANGED <<snd, finSeqs>>
    BY <1>2 DEF TimeWaitTimeout, Expire
  <2> QED
    BY <2>1, KeepingPerform DEF Ending
<1>3. CASE RexmitTimeout(e)
  <2>1. "REXMIT" \in timers[e]
    BY <1>3 DEF RexmitTimeout, Expire, Due
  <2>2. s # "CLOSED" /\ s # "INIT"
    BY <1>0, <2>1 DEF Fits, TimersFit, Ending, Open
  <2>3. NextState(s, "IGNORE") = s /\ EntryTimers(s, s, timers[e]) = timers[e]
    BY <1>0, <2>2, IgnoreStays DEF EntryTimers
  <2>4. CASE Perform(e, "IGNORE", <<>>, timers[e]) /\ UNCHANGED <<snd, finSeqs>>
    <3>1. s \in Ending => NextState(s, "IGNORE") # "TIME_WAIT"
      BY <2>3 DEF Ending
    <3> QED
      BY <2>2, <2>4, <3>1, KeepingPerform
  <2>5. CASE Perform(e, "IGNORE", <<>>, timers[e]) /\ SendAgain(e)
    <3> DEFINE r == Retransmission(n)
               m == AfterRexmit(setup.algorithm, n)
               G == F \cup (IF r.kind = "FIN" THEN {r.seq} ELSE {})
    <3>1. snd' = [snd EXCEPT ![e] = m] /\ finSeqs' = [finSeqs EXCEPT ![e] = G]
      BY <2>5 DEF SendAgain, SendSideOf, NoteFins
    <3>2. G = F \cup (IF Retransmission(n).kind = "FIN" THEN {Retransmission(n).seq} ELSE {})
      OBVIOUS
    <3> HIDE DEF G
    <3>3. G \in SUBSET Int /\ Fits(e, s, timers[e], m, G)
      <4> DEFINE A == timers[e]
      <4>1. Fits(e, s, A, n, F) /\ F \in SUBSET Int /\ "REXMIT" \in A
        BY <1>0, <2>1
      <4> HIDE DEF s, n, F, A
      <4>2. G \in SUBSET Int /\ Fits(e, s, A, AfterRexmit(setup.algorithm, n), G)
        BY <3>2, <4>1, RexmitFits
      <4> QED
        BY <4>2 DEF A
    <3> HIDE DEF m
    <3> QED
      BY <2>3, <2>5, <3>1, <3>3, PerformStep
  <2>6. CASE Perform(e, "ABORT", <<"TIMED_OUT">>, timers[e] \ {"REXMIT"}) /\ UNCHANGED <<snd, finSeqs>>
    <3>1. NextState(s, "ABORT") # "TIME_WAIT"
      BY <1>0, <2>2, AbortCloses
    <3> QED
      BY <2>2, <2>6, <3>1, KeepingPerform
  <2> QED
    BY <1>3, <2>4, <2>5, <2>6 DEF RexmitTimeout, Expire, AgainOrNothing
<1>4. CASE RexmitFails(e)
  BY <1>4, NothingMoves DEF RexmitFails, Fail, connVars, history
<1> QED
  BY <1>1, <1>2, <1>3, <1>4 DEF TimerFires

LEMMA CloseKept == CloseInv /\ [Next]_vars => CloseInv'
<1> SUFFICES ASSUME CloseInv, [Next]_vars PROVE CloseInv'
  OBVIOUS
<1>1. TypeInv'
  BY TypesKept DEF CloseInv
<1>2. NumbersType' /\ EndpointsFit' /\ ServerWritesNothing'
  <2>1. CASE UNCHANGED vars
    BY <2>1, NothingMoves DEF vars, connVars, appVars, history, CloseInv, ServerWritesNothing
  <2>2. "client" \in Endpoint
    BY DEF Endpoint
  <2> QED
    BY <2>1, <2>2, AppFits, CommandFits, SegmentFits, TimerFits DEF Next
<1> QED
  BY <1>1, <1>2 DEF CloseInv

LEMMA CloseHolds == Spec => []CloseInv
  BY InitFits, CloseKept, PTL DEF Spec

\* A timer runs only in a state whose expiry handler accepts it: process_TIMEOUT_CONN_ESTAB
\* and process_TIMEOUT_2MSL never meet another state, and an open connection has a
\* retransmission timer only while queued bytes defer its close.
THEOREM TimersHold == Spec => []TimersMatchState
<1>1. CloseInv => TimersMatchState
  <2> SUFFICES ASSUME CloseInv, NEW e \in Endpoint
               PROVE  /\ "CONN_ESTAB" \in timers[e] => fsm[e] = "SYN_RCVD"
                      /\ "TIMEOUT_2MSL" \in timers[e] => fsm[e] = "TIME_WAIT"
                      /\ "REXMIT" \in timers[e] =>
                             fsm[e] \in {"FIN_WAIT_1", "FIN_WAIT_2", "CLOSING", "LAST_ACK"}
                                           \cup Deferring(e)
    BY DEF TimersMatchState
  <2>1. /\ TimersFit(fsm[e], timers[e], snd[e]) /\ NumbersFit(fsm[e], snd[e], finSeqs[e])
        /\ snd[e] \in SndRecords
    BY DEF CloseInv, EndpointsFit, Fits
  <2>2. snd[e].finSeq \in Int /\ snd[e].queue.end \in Int
    BY <2>1 DEF SndRecords
  <2>3. fsm[e] \in Open /\ snd[e].finSeq # 0 => snd[e].finSeq > 1
    BY <2>1, <2>2 DEF NumbersFit
  <2> QED
    BY <2>1, <2>3 DEF TimersFit, Ending, Open, Deferring
<1> QED
  BY <1>1, CloseHolds, PTL

\* However often a FIN is sent, by CLOSE and by the retransmission timer, it has the same
\* number, unless bytes were queued when the connection was closed.
THEOREM FinNumberHolds == Spec => []FinHasOneNumber
<1>1. CloseInv => FinHasOneNumber
  <2> SUFFICES ASSUME CloseInv, NEW e \in Endpoint, Cardinality(finSeqs[e]) > 1
               PROVE  snd[e].finSeq > 1
    BY DEF FinHasOneNumber
  <2>1. NumbersFit(fsm[e], snd[e], finSeqs[e]) /\ snd[e] \in SndRecords
    BY DEF CloseInv, EndpointsFit, Fits
  <2>2. snd[e].finSeq \in Int /\ snd[e].queue.end \in Int
    BY <2>1 DEF SndRecords
  <2>3. IsFiniteSet({1}) /\ Cardinality({1}) = 1 /\ Cardinality({}) = 0
    BY FS_Singleton, FS_EmptySet
  <2>4. snd[e].finSeq # 0
    BY <2>1, <2>3 DEF NumbersFit
  <2>5. snd[e].finSeq # 1
    <3> SUFFICES ASSUME snd[e].finSeq = 1 PROVE FALSE
      OBVIOUS
    <3>1. finSeqs[e] \subseteq {1}
      BY <2>1 DEF NumbersFit
    <3>2. Cardinality(finSeqs[e]) <= 1
      BY <2>3, <3>1, FS_Subset
    <3>3. Cardinality(finSeqs[e]) \in Nat
      BY <2>3, <3>1, FS_Subset, FS_CardinalityType
    <3> QED
      BY <3>2, <3>3
  <2> QED
    BY <2>1, <2>2, <2>4, <2>5 DEF NumbersFit
<1> QED
  BY <1>1, CloseHolds, PTL

\* While the retransmission timer of the end that opened actively runs, what
\* retransmitOneSegment asserts holds, and so does, unless the close was deferred, what
\* RQVegas's list of regions asserts.
THEOREM ResendHolds == Spec => []ActiveEndCanResend
<1>1. CloseInv => ActiveEndCanResend
  <2> DEFINE n == snd["client"]
  <2> SUFFICES ASSUME CloseInv, "REXMIT" \in timers["client"]
               PROVE  /\ RexmitError("RQReno", n) = "none"
                      /\ n.finSeq = 1 => RexmitError("RQVegas", n) = "none"
    BY DEF ActiveEndCanResend
  <2>1. Fits("client", fsm["client"], timers["client"], n, finSeqs["client"])
    BY DEF CloseInv, EndpointsFit, Endpoint
  <2>2. /\ fsm["client"] \in Ending \cup Open /\ n.finSeq # 0
        /\ n.finSeq = n.queue.end /\ n.queue.end >= 1 /\ n.sendFin
        /\ ClientFits(fsm["client"], n) /\ n \in SndRecords
    BY <2>1 DEF Fits, TimersFit, NumbersFit
  <2>3. n.una = 1 /\ n.queue.begin = 1 /\ n.max >= 1
    BY <2>2 DEF ClientFits, Ending, Open
  <2>4. n.max \in Int /\ n.queue.end \in Int
    BY <2>2 DEF SndRecords
  <2> HIDE DEF n
  <2> DEFINE available == GetBytesAvailable(n.queue, n.una)
             bytes == RexmitBytes(n)
  <2>5. available = n.queue.end - 1
    BY <2>2, <2>3, <2>4 DEF GetBytesAvailable
  <2>6. bytes \in Int /\ bytes >= 0 /\ bytes <= available
    <3> DEFINE sent == n.max - n.una
    <3>1. sent \in Int /\ sent >= 0
      BY <2>3, <2>4
    <3>2. available \in Int /\ available >= 0
      BY <2>2, <2>4, <2>5
    <3> HIDE DEF available, sent
    <3>3. bytes = Smaller(Smaller(536, sent), available)
      BY DEF RexmitBytes, Mss, available, sent
    <3> HIDE DEF bytes
    <3> QED
      BY <3>1, <3>2, <3>3 DEF Smaller
  <2>7. Sendable(n)
    <3>1. CASE bytes = 0
      BY <2>2, <3>1 DEF Sendable, OnlyFin
    <3>2. CASE bytes > 0
      <4>1. HoldsBytes(n.queue, n.una, bytes)
        <5> HIDE DEF bytes, available
        <5> QED
          BY <2>3, <2>4, <2>5, <2>6 DEF HoldsBytes
      <4> QED
        BY <3>2, <4>1 DEF Sendable
    <3> QED
      BY <2>6, <3>1, <3>2
  <2>8. RexmitError("RQReno", n) = "none"
    BY <2>7 DEF RexmitError
  <2>9. n.finSeq = 1 => RexmitError("RQVegas", n) = "none"
    <3> SUFFICES ASSUME n.finSeq = 1 PROVE RexmitError("RQVegas", n) = "none"
      OBVIOUS
    <3>1. n.queue.end = 1
      BY <2>2
    <3>2. Retransmission(n).from = 1 /\ Retransmission(n).snd.nxt = 2
      BY <2>2, <2>3, <3>1, FinAgain
    <3>3. n.regions \in {<<>>, <<1, 2>>}
      BY <2>2 DEF ClientFits
    <3>4. RegionFits(n.regions, 1, 2)
      BY <3>3 DEF RegionFits
    <3> QED
      BY <2>7, <3>2, <3>4 DEF RexmitError
  <2> QED
    BY <2>8, <2>9
<1> QED
  BY <1>1, CloseHolds, PTL

----------------------------------------------------------------------------
(* What an application is told keeps the transport's contract: every step   *)
(* of a connection is a step of SocketContract or changes nothing that the  *)
(* application sees.  And what its socket makes of it: when no message is   *)
(* on its way, socket and connection agree.                                 *)

\* Where the indication that the peer has closed stands in what has been told.
PeerClosedAt(t) == {i \in 1 .. Len(t) : t[i] = "PEER_CLOSED"}

\* An endpoint in state s that has been told t, has aborted or not, and has received r
\* symbols: nothing is told during the handshake, nothing is left to tell once it is over,
\* and a connection that still receives has told of its peer's end at most once.
Told(s, t, b, r) ==
    /\ b => s = "CLOSED"
    /\ Contains(t, "TIMED_OUT") => s = "CLOSED"
    /\ Contains(t, "CLOSED") => s \in {"TIME_WAIT", "CLOSED"}
    /\ s \in Handshake => t = <<>>
    /\ s = "ESTABLISHED" =>
           /\ Cardinality(PeerClosedAt(t)) <= 1
           /\ r < Symbols => PeerClosedAt(t) = {}

ToldInv ==
    CloseInv /\ \A e \in Endpoint : Told(fsm[e], told[e], aborted[e], received[e])

Tellings == {<<>>, <<"ESTABLISHED">>, <<"PEER_CLOSED">>, <<"CLOSED">>, <<"TIMED_OUT">>,
             <<"CONNECTION_RESET", "CLOSED">>}

\* What may be told by a step from s to new, when the count of symbols goes from r to q.
Tellable(s, new, all, r, q) ==
    /\ q >= r
    /\ new \in Handshake => s \in Handshake /\ all = <<>>
    /\ s = "TIME_WAIT" => new \in {"TIME_WAIT", "CLOSED"} /\ all = <<>>
    /\ new = "ESTABLISHED" =>
           \/ s = "ESTABLISHED" /\ all \in {<<>>, <<"PEER_CLOSED">>}
           \/ s \in Handshake /\ all \in {<<>>, <<"ESTABLISHED">>}
    /\ all = <<"ESTABLISHED">> => s \in Handshake
    /\ all = <<"PEER_CLOSED">> =>
           \/ s \in Handshake \cup {"ESTABLISHED"} /\ new = "CLOSE_WAIT"
           \/ s = "ESTABLISHED" /\ new = "ESTABLISHED" /\ r < Symbols /\ q >= Symbols
    /\ all = <<"CLOSED">> => new \in {"TIME_WAIT", "CLOSED"}
    /\ all = <<"TIMED_OUT">> => new = "CLOSED"
    /\ all = <<"CONNECTION_RESET", "CLOSED">> => s \in Handshake /\ new = "CLOSED"

----------------------------------------------------------------------------
(* Sequences of indications.                                                *)

LEMMA PeerClosedCount ==
  ASSUME NEW t \in Seq(Indications)
  PROVE  IsFiniteSet(PeerClosedAt(t)) /\ Cardinality(PeerClosedAt(t)) \in Nat
<1>1. IsFiniteSet(1 .. Len(t))
  BY FS_Interval
<1>2. PeerClosedAt(t) \in SUBSET (1 .. Len(t))
  BY DEF PeerClosedAt
<1> QED
  BY <1>1, <1>2, FS_Subset, FS_CardinalityType

LEMMA OneMore ==
  ASSUME NEW t \in Seq(Indications), NEW x \in Indications
  PROVE  /\ \A y : Contains(t \o <<x>>, y) <=> (Contains(t, y) \/ y = x)
         /\ PeerClosedAt(t \o <<x>>) =
                PeerClosedAt(t) \cup (IF x = "PEER_CLOSED" THEN {Len(t) + 1} ELSE {})
         /\ Cardinality(PeerClosedAt(t \o <<x>>)) <= Cardinality(PeerClosedAt(t)) + 1
<1> DEFINE n == Len(t)
           u == t \o <<x>>
<1>1. /\ n \in Nat /\ Len(u) = n + 1
      /\ \A i \in 1 .. n : u[i] = t[i]
      /\ u[n + 1] = x
  OBVIOUS
<1> HIDE DEF u
<1>2. ASSUME NEW y
      PROVE  Contains(u, y) <=> (Contains(t, y) \/ y = x)
  <2>1. 1 .. Len(u) = (1 .. n) \cup {n + 1}
    BY <1>1
  <2> QED
    BY <1>1, <2>1 DEF Contains
<1>3. PeerClosedAt(u) = PeerClosedAt(t) \cup (IF x = "PEER_CLOSED" THEN {n + 1} ELSE {})
  <2>1. 1 .. Len(u) = (1 .. n) \cup {n + 1}
    BY <1>1
  <2> QED
    BY <1>1, <2>1 DEF PeerClosedAt
<1>4. IsFiniteSet(PeerClosedAt(t)) /\ Cardinality(PeerClosedAt(t)) \in Nat
  BY PeerClosedCount
<1>5. Cardinality(PeerClosedAt(u)) <= Cardinality(PeerClosedAt(t)) + 1
  <2>1. Cardinality(PeerClosedAt(t) \cup {n + 1}) =
           IF n + 1 \in PeerClosedAt(t) THEN Cardinality(PeerClosedAt(t))
           ELSE Cardinality(PeerClosedAt(t)) + 1
    BY <1>4, FS_AddElement
  <2>2. PeerClosedAt(u) \in {PeerClosedAt(t), PeerClosedAt(t) \cup {n + 1}}
    BY <1>3
  <2> DEFINE c == Cardinality(PeerClosedAt(t))
  <2>3. Cardinality(PeerClosedAt(u)) \in {c, c + 1}
    BY <2>1, <2>2
  <2>4. c \in Nat
    BY <1>4
  <2> HIDE DEF c
  <2>5. Cardinality(PeerClosedAt(u)) <= c + 1
    BY <2>3, <2>4
  <2> QED
    BY <2>5 DEF c
<1> QED
  BY <1>2, <1>3, <1>5 DEF u

LEMMA NothingTold ==
  /\ \A y : ~Contains(<<>>, y)
  /\ PeerClosedAt(<<>>) = {} /\ Cardinality(PeerClosedAt(<<>>)) = 0
<1>1. Len(<<>>) = 0
  OBVIOUS
<1>2. 1 .. 0 = {}
  OBVIOUS
<1>3. PeerClosedAt(<<>>) = {}
  BY <1>1, <1>2 DEF PeerClosedAt
<1> QED
  BY <1>1, <1>2, <1>3, FS_EmptySet DEF Contains

\* What an endpoint has been told after a step.
LEMMA ToldAfter ==
  ASSUME NEW s \in States \ {"CLOSED"}, NEW new \in States, NEW t \in Seq(Indications),
         NEW b \in BOOLEAN, NEW r \in Nat, NEW q \in Nat, NEW all \in Tellings,
         Told(s, t, b, r), Tellable(s, new, all, r, q)
  PROVE  Told(new, t \o all, b, q)
<1>0. Symbols \in Nat
  BY TransferAssumption
<1>1. CASE new = "CLOSED"
  BY <1>1 DEF Told, Handshake
<1>2. CASE new # "CLOSED" /\ all = <<>>
  <2>1. t \o all = t
    BY <1>2, ConcatEmptySeq
  <2>2. ~b /\ ~Contains(t, "TIMED_OUT")
    BY DEF Told
  <2>3. Contains(t, "CLOSED") => new \in {"TIME_WAIT", "CLOSED"}
    BY DEF Told, Tellable
  <2>4. new \in Handshake => t = <<>>
    BY DEF Told, Tellable
  <2>5. CASE new = "ESTABLISHED" /\ s = "ESTABLISHED"
    <3>1. q < Symbols => r < Symbols
      BY <1>0 DEF Tellable
    <3> QED
      BY <2>1, <2>2, <2>3, <2>4, <2>5, <3>1 DEF Told
  <2>6. CASE new = "ESTABLISHED" /\ s # "ESTABLISHED"
    <3>1. t = <<>>
      BY <2>6 DEF Told, Tellable
    <3> QED
      BY <2>1, <2>2, <2>3, <2>4, <2>6, <3>1, NothingTold DEF Told
  <2>7. CASE new # "ESTABLISHED"
    BY <2>1, <2>2, <2>3, <2>4, <2>7 DEF Told
  <2> QED
    BY <2>5, <2>6, <2>7
<1>3. CASE new # "CLOSED" /\ all # <<>>
  <2>1. all \in {<<"ESTABLISHED">>, <<"PEER_CLOSED">>, <<"CLOSED">>}
    BY <1>3 DEF Tellings, Tellable
  <2>2. PICK x \in {"ESTABLISHED", "PEER_CLOSED", "CLOSED"} : all = <<x>>
    BY <2>1
  <2>3. x \in Indications
    BY DEF Indications
  <2>4. \A y : Contains(t \o <<x>>, y) <=> (Contains(t, y) \/ y = x)
    BY <2>3, OneMore
  <2>5. ~b /\ ~Contains(t \o all, "TIMED_OUT")
    BY <2>2, <2>4 DEF Told
  <2>6. Contains(t \o all, "CLOSED") => new \in {"TIME_WAIT", "CLOSED"}
    BY <2>2, <2>4 DEF Told, Tellable
  <2>7. new \notin Handshake
    BY <1>3 DEF Tellable
  <2>8. CASE new = "ESTABLISHED" /\ x = "ESTABLISHED"
    <3>1. t = <<>>
      BY <2>2, <2>8 DEF Told, Tellable
    <3>2. PeerClosedAt(t) = {}
      BY <3>1, NothingTold
    <3>3. PeerClosedAt(t \o <<x>>) = {}
      BY <2>3, <2>8, <3>2, OneMore
    <3>4. Cardinality(PeerClosedAt(t \o <<x>>)) <= 1
      <4> DEFINE count == Cardinality(PeerClosedAt(t \o <<x>>))
      <4>1. count = 0
        BY <3>3, FS_EmptySet
      <4> HIDE DEF count
      <4>2. count <= 1
        BY <4>1
      <4> QED
        BY <4>2 DEF count
    <3> DEFINE u == t \o all
    <3>5. PeerClosedAt(u) = {} /\ Cardinality(PeerClosedAt(u)) <= 1
      BY <2>2, <3>3, <3>4
    <3>6. /\ ~b /\ ~Contains(u, "TIMED_OUT")
          /\ Contains(u, "CLOSED") => new \in {"TIME_WAIT", "CLOSED"}
      BY <2>5, <2>6
    <3> HIDE DEF u
    <3>7. Told(new, u, b, q)
      BY <2>7, <3>5, <3>6 DEF Told
    <3> QED
      BY <3>7 DEF u
  <2>9. CASE new = "ESTABLISHED" /\ x = "PEER_CLOSED"
    <3>1. s = "ESTABLISHED" /\ r < Symbols /\ q >= Symbols
      BY <2>2, <2>9 DEF Tellable
    <3>2. PeerClosedAt(t) = {}
      BY <3>1 DEF Told
    <3>3. Cardinality(PeerClosedAt(t)) = 0
      BY <3>2, FS_EmptySet
    <3>4. Cardinality(PeerClosedAt(t \o <<x>>)) <= 0 + 1
      BY <2>3, <3>3, OneMore
    <3>5. ~(q < Symbols)
      BY <1>0, <3>1
    <3> QED
      BY <2>2, <2>5, <2>6, <2>7, <3>4, <3>5 DEF Told
  <2>10. CASE new # "ESTABLISHED"
    BY <2>5, <2>6, <2>7, <2>10 DEF Told
  <2> QED
    BY <2>2, <2>8, <2>9, <2>10 DEF Tellable
<1> QED
  BY <1>1, <1>2, <1>3

----------------------------------------------------------------------------
(* Steps.                                                                   *)

LEMMA EndpointTold ==
  ASSUME ToldInv, NEW e \in Endpoint
  PROVE  /\ fsm[e] \in States /\ told \in [Endpoint -> Seq(Indications)]
         /\ aborted \in [Endpoint -> BOOLEAN] /\ received \in [Endpoint -> Nat]
         /\ Told(fsm[e], told[e], aborted[e], received[e])
         /\ "REXMIT" \in timers[e] => fsm[e] \in Ending \cup Open
  BY DEF ToldInv, CloseInv, TypeInv, TypeOK, ToldOK, EndpointsFit, Fits, TimersFit

\* An endpoint that is told something is a step of the contract.
LEMMA TellingStep ==
  ASSUME ToldInv, NEW e \in Endpoint, NEW new, NEW all \in Tellings, NEW q,
         fsm[e] # "CLOSED", Tellable(fsm[e], new, all, received[e], q),
         told' = [told EXCEPT ![e] = @ \o all], aborted' = aborted
  PROVE  [Contract!Next]_(Contract!vars)
<1>0. /\ fsm[e] \in States /\ told \in [Endpoint -> Seq(Indications)]
      /\ Told(fsm[e], told[e], aborted[e], received[e])
  BY EndpointTold
<1>1. CASE all = <<>>
  <2>1. told[e] \o <<>> = told[e]
    BY <1>0, ConcatEmptySeq
  <2>2. told' = told
    BY <1>0, <1>1, <2>1
  <2> QED
    BY <2>2 DEF Contract!vars
<1>2. CASE all # <<>>
  <2>1. fsm[e] \notin {"TIME_WAIT", "CLOSED"}
    BY <1>2 DEF Tellable
  <2>2. ~Contract!IsOver(e)
    BY <1>0, <2>1 DEF Told, Contract!IsOver, Contains, Contract!Contains
  <2>3. Contract!Tell(e, all)
    BY <2>2 DEF Contract!Tell
  <2>4. fsm[e] \in Handshake => told[e] = <<>>
    BY <1>0 DEF Told
  <2>5. CASE all = <<"ESTABLISHED">>
    <3>1. Contract!TellEstablished(e)
      BY <2>3, <2>4, <2>5 DEF Tellable, Contract!TellEstablished
    <3> QED
      BY <3>1 DEF Contract!Next
  <2>6. CASE all = <<"PEER_CLOSED">>
    <3> DEFINE count == Cardinality(PeerClosedAt(told[e]))
    <3>1. fsm[e] \in Handshake \cup {"ESTABLISHED"}
      BY <2>6 DEF Tellable
    <3>2. count = 0 \/ count <= 1
      BY <1>0, <2>4, <3>1, NothingTold DEF Told
    <3>3. count \in Nat
      BY <1>0, PeerClosedCount
    <3> HIDE DEF count
    <3>4. count < 2
      BY <3>2, <3>3
    <3>5. Contract!Cardinality(PeerClosedAt(told[e])) = count
      BY DEF count, Cardinality, Contract!Cardinality
    <3>6. Contract!TellPeerClosed(e)
      BY <2>3, <2>6, <3>4, <3>5 DEF Contract!TellPeerClosed, PeerClosedAt
    <3> QED
      BY <3>6 DEF Contract!Next
  <2>7. CASE all = <<"CLOSED">>
    BY <2>3, <2>7 DEF Contract!TellClosed, Contract!Next
  <2>8. CASE all = <<"TIMED_OUT">>
    BY <2>3, <2>8 DEF Contract!TellTimedOut, Contract!Next
  <2>9. CASE all = <<"CONNECTION_RESET", "CLOSED">>
    <3>1. Contract!TellReset(e)
      BY <2>3, <2>4, <2>9 DEF Tellable, Contract!TellReset
    <3> QED
      BY <3>1 DEF Contract!Next
  <2> QED
    BY <1>2, <2>5, <2>6, <2>7, <2>8, <2>9 DEF Tellings
<1> QED
  BY <1>1, <1>2

LEMMA PerformTells ==
  ASSUME ToldInv, NEW e \in Endpoint, NEW event, NEW tells, NEW armed, fsm[e] # "CLOSED",
         NEW all \in Tellings,
         all = tells \o EntryTells(fsm[e], NextState(fsm[e], event), event),
         Perform(e, event, tells, armed), aborted' = aborted, received' \in [Endpoint -> Nat],
         \A d \in Endpoint \ {e} : received'[d] = received[d],
         Tellable(fsm[e], NextState(fsm[e], event), all, received[e], received'[e])
  PROVE  /\ [Contract!Next]_(Contract!vars)
         /\ \A d \in Endpoint : Told(fsm'[d], told'[d], aborted'[d], received'[d])
<1> DEFINE new == NextState(fsm[e], event)
<1>0. /\ fsm[e] \in States \ {"CLOSED"} /\ told \in [Endpoint -> Seq(Indications)]
      /\ aborted \in [Endpoint -> BOOLEAN] /\ received \in [Endpoint -> Nat]
      /\ Told(fsm[e], told[e], aborted[e], received[e])
  BY EndpointTold
<1>1. fsm \in [Endpoint -> States] /\ new \in States
  BY <1>0, NextStateType DEF ToldInv, CloseInv, TypeInv, TypeOK
<1>2. told' = [told EXCEPT ![e] = @ \o all] /\ fsm' = [fsm EXCEPT ![e] = new]
  BY DEF Perform
<1> HIDE DEF new
<1>3. [Contract!Next]_(Contract!vars)
  BY <1>2, TellingStep DEF new
<1>4. /\ told'[e] = told[e] \o all /\ fsm'[e] = new
      /\ \A d \in Endpoint \ {e} : told'[d] = told[d] /\ fsm'[d] = fsm[d]
  BY <1>0, <1>1, <1>2
<1>5. Told(new, told[e] \o all, aborted[e], received'[e])
  <2>1. Tellable(fsm[e], new, all, received[e], received'[e])
    BY DEF new
  <2>2. told[e] \in Seq(Indications) /\ aborted[e] \in BOOLEAN /\ received[e] \in Nat
    BY <1>0
  <2>3. received'[e] \in Nat
    OBVIOUS
  <2> QED
    BY <1>0, <1>1, <2>1, <2>2, <2>3, ToldAfter
<1>6. ASSUME NEW d \in Endpoint
      PROVE  Told(fsm'[d], told'[d], aborted'[d], received'[d])
  <2>1. CASE d = e
    BY <1>4, <1>5, <2>1
  <2>2. CASE d # e
    BY <1>4, <2>2, EndpointTold
  <2> QED
    BY <2>1, <2>2
<1> QED
  BY <1>3, <1>6

\* What stateEntered tells is always within the contract.
LEMMA EntryTellable ==
  ASSUME NEW s \in States \ {"CLOSED"}, NEW event, NEW r \in Nat, NEW q \in Nat, q >= r
  PROVE  LET new == NextState(s, event)
             all == EntryTells(s, new, event)
         IN  all \in Tellings /\ Tellable(s, new, all, r, q)
<1> DEFINE new == NextState(s, event)
           all == EntryTells(s, new, event)
<1>1. all \in {<<>>, <<"PEER_CLOSED">>, <<"CLOSED">>}
  BY DEF EntryTells
<1>2. /\ all = <<"PEER_CLOSED">> => new = "CLOSE_WAIT" /\ s # "CLOSE_WAIT"
      /\ all = <<"CLOSED">> => new \in {"TIME_WAIT", "CLOSED"} /\ s # new /\ s # "TIME_WAIT"
  BY DEF EntryTells
<1>3. /\ new \in Handshake => s \in Handshake
      /\ s = "TIME_WAIT" => new \in {"TIME_WAIT", "CLOSED"}
      /\ new = "ESTABLISHED" => s \in Handshake \cup {"ESTABLISHED"}
      /\ new = "CLOSE_WAIT" => s \in Handshake \cup {"ESTABLISHED", "CLOSE_WAIT"}
  BY DEF NextState, Moves, States, Handshake
<1> HIDE DEF new, all
<1>4. /\ new \notin {"CLOSE_WAIT", "TIME_WAIT", "CLOSED"} => all = <<>>
      /\ s = "TIME_WAIT" => all = <<>>
  BY <1>1, <1>2, <1>3
<1>5. <<>> # <<"PEER_CLOSED">> /\ <<>> # <<"CLOSED">> /\ <<"PEER_CLOSED">> # <<"CLOSED">>
  OBVIOUS
<1>6. /\ all # <<"ESTABLISHED">> /\ all # <<"TIMED_OUT">> /\ all # <<"CONNECTION_RESET", "CLOSED">>
  BY <1>1
<1>7. all \in Tellings
  BY <1>1 DEF Tellings
<1>8. Tellable(s, new, all, r, q)
  BY <1>1, <1>2, <1>3, <1>4, <1>5, <1>6 DEF Tellable, Handshake
<1> QED
  BY <1>7, <1>8 DEF new, all

\* A handler that tells only what its transition does.
LEMMA SilentPerform ==
  ASSUME ToldInv, NEW e \in Endpoint, NEW event, NEW armed, fsm[e] # "CLOSED",
         Perform(e, event, <<>>, armed), aborted' = aborted, received' \in [Endpoint -> Nat],
         \A d \in Endpoint \ {e} : received'[d] = received[d], received'[e] >= received[e]
  PROVE  /\ [Contract!Next]_(Contract!vars)
         /\ \A d \in Endpoint : Told(fsm'[d], told'[d], aborted'[d], received'[d])
<1> DEFINE all == EntryTells(fsm[e], NextState(fsm[e], event), event)
<1>1. fsm[e] \in States \ {"CLOSED"} /\ received[e] \in Nat
  BY EndpointTold
<1>2. all \in Tellings /\ Tellable(fsm[e], NextState(fsm[e], event), all, received[e], received'[e])
  BY <1>1, EntryTellable
<1>3. all \in Seq(Indications)
  BY EntryTellsType
<1>4. all = <<>> \o all
  <2> HIDE DEF all
  <2> QED
    BY <1>3, ConcatEmptySeq
<1> QED
  BY <1>2, <1>4, PerformTells

LEMMA NothingIsTold ==
  ASSUME ToldInv, UNCHANGED <<fsm, told, aborted, received>>
  PROVE  /\ [Contract!Next]_(Contract!vars)
         /\ \A d \in Endpoint : Told(fsm'[d], told'[d], aborted'[d], received'[d])
<1>1. UNCHANGED Contract!vars
  BY DEF Contract!vars
<1>2. \A d \in Endpoint : Told(fsm'[d], told'[d], aborted'[d], received'[d])
  BY EndpointTold
<1> QED
  BY <1>1, <1>2

LEMMA CommandTells ==
  ASSUME ToldInv, NEW e \in Endpoint, ProcessAppCommand(e)
  PROVE  /\ [Contract!Next]_(Contract!vars)
         /\ \A d \in Endpoint : Told(fsm'[d], told'[d], aborted'[d], received'[d])
<1>0. /\ fsm[e] \in States /\ told \in [Endpoint -> Seq(Indications)]
      /\ aborted \in [Endpoint -> BOOLEAN] /\ received \in [Endpoint -> Nat]
      /\ Told(fsm[e], told[e], aborted[e], received[e])
  BY EndpointTold
\* A command that is neither an abort nor refused tells what its transition does.
<1>1. ASSUME NEW event, NEW sends, NEW armed, fsm[e] # "CLOSED", aborted' = aborted,
             Execute(e, event, sends, armed)
      PROVE  /\ [Contract!Next]_(Contract!vars)
             /\ \A d \in Endpoint : Told(fsm'[d], told'[d], aborted'[d], received'[d])
  <2>1. Perform(e, event, <<>>, armed) /\ received' = received
    BY <1>1 DEF Execute
  <2>2. /\ received' \in [Endpoint -> Nat] /\ received'[e] >= received[e]
        /\ \A d \in Endpoint \ {e} : received'[d] = received[d]
    BY <1>0, <2>1
  <2> QED
    BY <1>1, <2>1, <2>2, SilentPerform
<1>2. CASE ProcessOpenActive(e)
  BY <1>1, <1>2 DEF ProcessOpenActive
<1>3. CASE ProcessEarlySend(e)
  BY <1>1, <1>3 DEF ProcessEarlySend
<1>4. CASE ProcessSend(e)
  BY <1>1, <1>4 DEF ProcessSend
<1>5. CASE ProcessEarlyClose(e)
  BY <1>1, <1>5 DEF ProcessEarlyClose
<1>6. CASE ProcessClose(e)
  <2>1. /\ fsm[e] # "CLOSED" /\ aborted' = aborted
        /\ \E event, sends, armed : Execute(e, event, sends, armed)
    BY <1>6 DEF ProcessClose
  <2> QED
    BY <1>1, <2>1
<1>7. CASE ProcessAbort(e)
  <2>1. /\ fsm[e] \in States \ {"INIT", "CLOSED"} /\ aborted' = [aborted EXCEPT ![e] = TRUE]
        /\ received' = received /\ Perform(e, "ABORT", <<>>, timers[e])
    BY <1>0, <1>7 DEF ProcessAbort, Execute
  <2>2. NextState(fsm[e], "ABORT") = "CLOSED"
    BY <2>1, AbortCloses
  <2>3. EntryTells(fsm[e], "CLOSED", "ABORT") = <<>>
    BY <2>1 DEF EntryTells
  <2>4. <<>> \o <<>> = <<>>
    BY ConcatEmptySeq
  <2>5. told[e] \o <<>> = told[e]
    BY <1>0, ConcatEmptySeq
  <2>6. told' = told /\ fsm' = [fsm EXCEPT ![e] = "CLOSED"]
    BY <1>0, <2>1, <2>2, <2>3, <2>4, <2>5 DEF Perform
  <2>7. ~aborted[e] /\ ~Contains(told[e], "TIMED_OUT")
    BY <1>0, <2>1 DEF Told
  <2>8. Contract!Abort(e)
    BY <2>1, <2>6, <2>7 DEF Contract!Abort, Contains, Contract!Contains
  <2>9. ASSUME NEW d \in Endpoint
        PROVE  Told(fsm'[d], told'[d], aborted'[d], received'[d])
    <3>0. fsm \in [Endpoint -> States]
      BY DEF ToldInv, CloseInv, TypeInv, TypeOK
    <3>1. CASE d = e
      <4>1. fsm'[d] = "CLOSED"
        BY <2>6, <3>0, <3>1
      <4> QED
        BY <4>1 DEF Told, Handshake
    <3>2. CASE d # e
      <4>1. fsm'[d] = fsm[d] /\ told'[d] = told[d] /\ aborted'[d] = aborted[d] /\ received'[d] = received[d]
        BY <1>0, <2>1, <2>6, <3>0, <3>2
      <4> QED
        BY <4>1, EndpointTold
    <3> QED
      BY <3>1, <3>2
  <2> QED
    BY <2>8, <2>9 DEF Contract!Next
<1>8. CASE RejectCommand(e)
  BY <1>8, NothingIsTold DEF RejectCommand, Fail, connVars, history
<1> QED
  BY <1>2, <1>3, <1>4, <1>5, <1>6, <1>7, <1>8 DEF ProcessAppCommand

LEMMA SegmentTells ==
  ASSUME ToldInv, NEW e \in Endpoint, NEW i \in 1 .. Len(wire[e]),
         RcvSegment(e, i) \/ LoseSegment(e, i)
  PROVE  /\ [Contract!Next]_(Contract!vars)
         /\ \A d \in Endpoint : Told(fsm'[d], told'[d], aborted'[d], received'[d])
<1>0. /\ fsm[e] \in States /\ received \in [Endpoint -> Nat] /\ Symbols \in Nat \ {0}
  BY EndpointTold, TransferAssumption
<1>1. CASE UNCHANGED connVars /\ UNCHANGED history
  BY <1>1, NothingIsTold DEF connVars, history
\* A segment of which only the transition is told.
<1>2. ASSUME NEW event, NEW sends, NEW armed, fsm[e] # "CLOSED",
             received' = received \/ received' = [received EXCEPT ![e] = @ + 1],
             Handle(e, i, event, sends, <<>>, armed)
      PROVE  /\ [Contract!Next]_(Contract!vars)
             /\ \A d \in Endpoint : Told(fsm'[d], told'[d], aborted'[d], received'[d])
  <2>1. Perform(e, event, <<>>, armed) /\ aborted' = aborted
    BY <1>2 DEF Handle
  <2>2. /\ received' \in [Endpoint -> Nat] /\ received'[e] >= received[e]
        /\ \A d \in Endpoint \ {e} : received'[d] = received[d]
    BY <1>0, <1>2
  <2> QED
    BY <1>2, <2>1, <2>2, SilentPerform
\* The end of the handshake.
<1>3. ASSUME NEW event, NEW sends, NEW armed, received' = received,
             \/ fsm[e] = "SYN_SENT" /\ event = "RCV_SYN_ACK"
             \/ fsm[e] = "SYN_RCVD" /\ event = "RCV_ACK",
             Handle(e, i, event, sends, <<"ESTABLISHED">>, armed)
      PROVE  /\ [Contract!Next]_(Contract!vars)
             /\ \A d \in Endpoint : Told(fsm'[d], told'[d], aborted'[d], received'[d])
  <2>1. /\ NextState(fsm[e], event) = "ESTABLISHED"
        /\ EntryTells(fsm[e], "ESTABLISHED", event) = <<>>
        /\ fsm[e] \in Handshake /\ fsm[e] # "CLOSED"
    BY <1>3 DEF NextState, Moves, EntryTells, Handshake
  <2>2. <<"ESTABLISHED">> = <<"ESTABLISHED">> \o <<>>
    OBVIOUS
  <2>3. Perform(e, event, <<"ESTABLISHED">>, armed) /\ aborted' = aborted
    BY <1>3 DEF Handle
  <2>4. /\ received' \in [Endpoint -> Nat] /\ received'[e] >= received[e]
        /\ \A d \in Endpoint \ {e} : received'[d] = received[d]
    BY <1>0, <1>3
  <2>5. <<"ESTABLISHED">> \in Tellings
    BY DEF Tellings
  <2>6. Tellable(fsm[e], "ESTABLISHED", <<"ESTABLISHED">>, received[e], received'[e])
    BY <2>1, <2>4 DEF Tellable, Handshake
  <2> QED
    BY <2>1, <2>2, <2>3, <2>4, <2>5, <2>6, PerformTells
<1>4. CASE RcvInListen(e, i)
  BY <1>2, <1>4 DEF RcvInListen
<1>5. CASE RcvSynAck(e, i)
  BY <1>3, <1>5 DEF RcvSynAck
<1>6. CASE RcvInSynSent(e, i)
  <2>1. CASE Handle(e, i, "RCV_RST", <<>>, <<"CONNECTION_RESET">>, timers[e])
    <3> DEFINE all == <<"CONNECTION_RESET", "CLOSED">>
    <3>1. fsm[e] = "SYN_SENT" /\ received' = received
      BY <1>6 DEF RcvInSynSent
    <3>2. /\ NextState(fsm[e], "RCV_RST") = "CLOSED"
          /\ EntryTells(fsm[e], "CLOSED", "RCV_RST") = <<"CLOSED">>
      BY <3>1 DEF NextState, Moves, EntryTells
    <3>3. all = <<"CONNECTION_RESET">> \o <<"CLOSED">>
      OBVIOUS
    <3>4. Perform(e, "RCV_RST", <<"CONNECTION_RESET">>, timers[e]) /\ aborted' = aborted
      BY <2>1 DEF Handle
    <3>5. /\ received' \in [Endpoint -> Nat] /\ received'[e] >= received[e]
          /\ \A d \in Endpoint \ {e} : received'[d] = received[d]
      BY <1>0, <3>1
    <3>6. all \in Tellings
      BY DEF Tellings
    <3>7. Tellable(fsm[e], "CLOSED", all, received[e], received'[e])
      BY <3>1, <3>5 DEF Tellable, Handshake
    <3> HIDE DEF all
    <3> QED
      BY <3>1, <3>2, <3>3, <3>4, <3>5, <3>6, <3>7, PerformTells
  <2>2. CASE Handle(e, i, "IGNORE", <<>>, <<>>, timers[e])
    BY <1>2, <1>6, <2>2 DEF RcvInSynSent
  <2> QED
    BY <1>6, <2>1, <2>2 DEF RcvInSynSent
<1>7. CASE RcvFin(e, i)
  <2> DEFINE o == FinOutcome(fsm[e], timers[e])
  <2>1. o.tells = <<>>
    BY DEF FinOutcome, Outcome
  <2>2. /\ fsm[e] # "CLOSED" /\ received' = received
        /\ Handle(e, i, o.event, o.sends, o.tells, o.timers)
    BY <1>7 DEF RcvFin, HandleOutcome
  <2> HIDE DEF o
  <2> QED
    BY <1>2, <2>1, <2>2
<1>8. CASE RcvClosing(e, i)
  <2> DEFINE o == OtherOutcome(fsm[e], timers[e])
  <2>1. /\ fsm[e] = "SYN_RCVD" => o.event = "RCV_ACK" /\ o.tells = <<"ESTABLISHED">>
        /\ fsm[e] # "SYN_RCVD" => o.tells = <<>>
    BY DEF OtherOutcome, Outcome
  <2>2. /\ fsm[e] # "CLOSED" /\ received' = received
        /\ Handle(e, i, o.event, o.sends, o.tells, o.timers)
    BY <1>8 DEF RcvClosing, HandleOutcome
  <2> HIDE DEF o
  <2> QED
    BY <1>2, <1>3, <2>1, <2>2
<1>9. CASE RcvEstablished(e, i)
  <2>0. fsm[e] = "ESTABLISHED"
    BY <1>9 DEF RcvEstablished
  <2>1. ASSUME received' = [received EXCEPT ![e] = @ + 1], NEW sends,
               received[e] + 1 = Symbols,
               Handle(e, i, "IGNORE", sends, <<"PEER_CLOSED">>, timers[e])
        PROVE  /\ [Contract!Next]_(Contract!vars)
               /\ \A d \in Endpoint : Told(fsm'[d], told'[d], aborted'[d], received'[d])
    <3>1. NextState(fsm[e], "IGNORE") = "ESTABLISHED"
      BY <2>0 DEF NextState, Moves
    <3>2. EntryTells(fsm[e], "ESTABLISHED", "IGNORE") = <<>>
      BY <2>0 DEF EntryTells
    <3>3. <<"PEER_CLOSED">> = <<"PEER_CLOSED">> \o <<>>
      OBVIOUS
    <3>4. Perform(e, "IGNORE", <<"PEER_CLOSED">>, timers[e]) /\ aborted' = aborted
      BY <2>1 DEF Handle
    <3>5. /\ received' \in [Endpoint -> Nat] /\ received'[e] = received[e] + 1
          /\ \A d \in Endpoint \ {e} : received'[d] = received[d]
      BY <1>0, <2>1
    <3>6. /\ received'[e] >= received[e] /\ received[e] < Symbols /\ received'[e] >= Symbols
      BY <1>0, <2>1, <3>5
    <3>7. <<"PEER_CLOSED">> \in Tellings
      BY DEF Tellings
    <3>8. Tellable("ESTABLISHED", "ESTABLISHED", <<"PEER_CLOSED">>, received[e], received'[e])
      BY <3>6 DEF Tellable, Handshake
    <3> QED
      BY <2>0, <3>1, <3>2, <3>3, <3>4, <3>5, <3>7, <3>8, PerformTells
  <2>2. ASSUME received' = [received EXCEPT ![e] = @ + 1],
               Handle(e, i, "IGNORE",
                      IF received[e] + 1 < Symbols THEN <<"PULL">> ELSE <<>>,
                      IF received[e] + 1 = Symbols THEN <<"PEER_CLOSED">> ELSE <<>>,
                      timers[e])
        PROVE  /\ [Contract!Next]_(Contract!vars)
               /\ \A d \in Endpoint : Told(fsm'[d], told'[d], aborted'[d], received'[d])
    <3> DEFINE sends == IF received[e] + 1 < Symbols THEN <<"PULL">> ELSE <<>>
    <3>1. CASE received[e] + 1 = Symbols
      <4>1. Handle(e, i, "IGNORE", sends, <<"PEER_CLOSED">>, timers[e])
        BY <2>2, <3>1
      <4> HIDE DEF sends
      <4> QED
        BY <2>1, <2>2, <3>1, <4>1
    <3>2. CASE received[e] + 1 # Symbols
      <4>1. Handle(e, i, "IGNORE", sends, <<>>, timers[e])
        BY <2>2, <3>2
      <4> HIDE DEF sends
      <4> QED
        BY <1>2, <2>0, <2>2, <4>1
    <3> QED
      BY <3>1, <3>2
  <2>3. ASSUME received' = received, NEW sends, Handle(e, i, "IGNORE", sends, <<>>, timers[e])
        PROVE  /\ [Contract!Next]_(Contract!vars)
               /\ \A d \in Endpoint : Told(fsm'[d], told'[d], aborted'[d], received'[d])
    BY <1>2, <2>0, <2>3
  <2> QED
    BY <1>9, <2>2, <2>3 DEF RcvEstablished
<1>10. CASE RcvUnknown(e, i) \/ RcvAtListener(e, i) \/ RcvWhileClosed(e, i) \/ LoseSegment(e, i)
  BY <1>1, <1>10 DEF RcvUnknown, RcvAtListener, RcvWhileClosed, LoseSegment, Fail
<1> QED
  BY <1>4, <1>5, <1>6, <1>7, <1>8, <1>9, <1>10 DEF RcvSegment

LEMMA TimerTells ==
  ASSUME ToldInv, NEW e \in Endpoint, TimerFires(e)
  PROVE  /\ [Contract!Next]_(Contract!vars)
         /\ \A d \in Endpoint : Told(fsm'[d], told'[d], aborted'[d], received'[d])
<1>0. /\ fsm[e] \in States /\ received \in [Endpoint -> Nat]
      /\ "REXMIT" \in timers[e] => fsm[e] \in Ending \cup Open
  BY EndpointTold
<1>1. received' = received =>
         /\ received' \in [Endpoint -> Nat] /\ received'[e] >= received[e]
         /\ \A d \in Endpoint \ {e} : received'[d] = received[d]
  BY <1>0
<1>2. ASSUME NEW timer, NEW event, NEW armed, fsm[e] # "CLOSED",
             Expire(e, timer, event, <<>>, armed)
      PROVE  /\ [Contract!Next]_(Contract!vars)
             /\ \A d \in Endpoint : Told(fsm'[d], told'[d], aborted'[d], received'[d])
  BY <1>1, <1>2, SilentPerform DEF Expire
<1>3. CASE ConnEstabTimeout(e)
  BY <1>2, <1>3 DEF ConnEstabTimeout
<1>4. CASE TimeWaitTimeout(e)
  BY <1>2, <1>4 DEF TimeWaitTimeout
<1>5. CASE RexmitTimeout(e)
  <2>1. fsm[e] \in Ending \cup Open
    BY <1>0, <1>5 DEF RexmitTimeout, Expire, Due
  <2>2. fsm[e] \in States \ {"INIT"} /\ fsm[e] \notin {"CLOSED", "TIME_WAIT"}
    BY <1>0, <2>1 DEF Ending, Open
  <2>3. CASE Expire(e, "REXMIT", "IGNORE", <<>>, timers[e])
    BY <1>2, <2>2, <2>3
  <2>4. CASE Expire(e, "REXMIT", "ABORT", <<"TIMED_OUT">>, timers[e] \ {"REXMIT"})
    <3>1. NextState(fsm[e], "ABORT") = "CLOSED"
      BY <2>2, AbortCloses
    <3>2. EntryTells(fsm[e], "CLOSED", "ABORT") = <<>>
      BY <2>2 DEF EntryTells
    <3>3. <<"TIMED_OUT">> = <<"TIMED_OUT">> \o <<>>
      OBVIOUS
    <3>4. /\ Perform(e, "ABORT", <<"TIMED_OUT">>, timers[e] \ {"REXMIT"}) /\ aborted' = aborted
          /\ received' = received
      BY <2>4 DEF Expire
    <3>5. <<"TIMED_OUT">> \in Tellings
      BY DEF Tellings
    <3>6. Tellable(fsm[e], "CLOSED", <<"TIMED_OUT">>, received[e], received'[e])
      BY <1>1, <2>2, <3>4 DEF Tellable, Handshake
    <3> QED
      BY <1>1, <2>2, <3>1, <3>2, <3>3, <3>4, <3>5, <3>6, PerformTells
  <2> QED
    BY <1>5, <2>3, <2>4 DEF RexmitTimeout
<1>6. CASE RexmitFails(e)
  BY <1>6, NothingIsTold DEF RexmitFails, Fail, connVars, history
<1> QED
  BY <1>3, <1>4, <1>5, <1>6 DEF TimerFires

LEMMA InitTold == Init => ToldInv /\ Contract!Init
<1> SUFFICES ASSUME Init PROVE ToldInv /\ Contract!Init
  OBVIOUS
<1>1. Contract!Init
  BY DEF Init, Contract!Init
<1>2. ASSUME NEW e \in Endpoint
      PROVE  Told(fsm[e], told[e], aborted[e], received[e])
  <2>1. told[e] = <<>> /\ aborted[e] = FALSE /\ fsm[e] \in {"INIT", "LISTEN"}
    BY <1>2 DEF Init
  <2> QED
    BY <2>1, NothingTold DEF Told
<1> QED
  BY <1>1, <1>2, InitFits DEF ToldInv

LEMMA StepTells == ToldInv /\ [Next]_vars => ToldInv' /\ [Contract!Next]_(Contract!vars)
<1> SUFFICES ASSUME ToldInv, [Next]_vars
             PROVE  /\ [Contract!Next]_(Contract!vars)
                    /\ \A d \in Endpoint : Told(fsm'[d], told'[d], aborted'[d], received'[d])
  BY CloseKept DEF ToldInv
<1>1. CASE UNCHANGED vars \/ Connect \/ WriteEarly \/ \E e \in Endpoint : App(e)
  <2>1. UNCHANGED <<fsm, told, aborted, received>>
    BY <1>1 DEF vars, connVars, history, Connect, WriteEarly, App, AppCloses, AppAborts, AppReceives
  <2> QED
    BY <2>1, NothingIsTold
<1> QED
  BY <1>1, CommandTells, SegmentTells, TimerTells DEF Next

\* Whatever commands, segments and timers meet in whatever order, each application is told
\* what SocketContract allows: established at most once and first, that its peer has closed
\* at most twice, one final indication, and nothing after an abort.
THEOREM ContractHolds == Spec => KeepsContract
<1>1. Init => ToldInv /\ Contract!Init
  BY InitTold
<1>2. ToldInv /\ [Next]_vars => ToldInv' /\ [Contract!Next]_(Contract!vars)
  BY StepTells
<1> QED
  BY <1>1, <1>2, PTL DEF Spec, KeepsContract, Contract!Spec

----------------------------------------------------------------------------
(* The socket.  Everything about the two queues between an application and  *)
(* its connection is said by what stands in them and what they end with.    *)

Has(q, x)  == \E i \in 1 .. Len(q) : q[i] = x
Late(q, x) == \E i \in 2 .. Len(q) : q[i] = x
Starts(q)  == IF q = <<>> THEN "NOTHING" ELSE Head(q)
Ends(q)    == IF q = <<>> THEN "NOTHING" ELSE q[Len(q)]

\* A close or an abort is on its way.
Leaving(q) == Has(q, "CLOSE") \/ Has(q, "ABORT")

HalfClosed == {"FIN_WAIT_1", "FIN_WAIT_2", "CLOSING"}
Gone       == {"TIME_WAIT", "CLOSED"}

\* Before the handshake is over nothing is told; a client whose connection has not opened
\* has the command to do so on its way.
OpeningFits(e, s, P, Q, f) ==
    /\ f \in Handshake =>
           /\ Ends(P) = "NOTHING"
           /\ s \in IF e = "client" THEN {"BOUND", "CONNECTING", "CLOSED"} ELSE {"BOUND"}
    /\ e = "client" /\ s = "BOUND" => f = "INIT" /\ Q = <<>>
    /\ f = "INIT" /\ s # "BOUND" => Starts(Q) = "OPEN_ACTIVE"
    /\ e = "server" => s # "CONNECTING" /\ (s \in {"BOUND", "CONNECTED"} => Q = <<>>)
    /\ s = "CONNECTING" => ~Leaving(Q)
    /\ s = "CONNECTING" /\ Ends(P) = "NOTHING" => f \in {"INIT", "SYN_SENT"}

\* ESTABLISHED is told first.  A client that is told after it has left reopens its socket
\* and writes: then its last command is one that the connection refuses.
ConnectedFits(e, s, P, Q, f) ==
    /\ ~Late(P, "ESTABLISHED")
    /\ e = "server" /\ Has(P, "ESTABLISHED") => s = "BOUND"
    /\ s = "CONNECTED" => Ends(Q) \in {"NOTHING", "SEND"}
    /\ f = "CLOSE_WAIT" =>
           /\ Ends(P) # "ESTABLISHED"
           /\ s \in {"CONNECTED", "LOCALLY_CLOSED"} => Ends(P) # "NOTHING"
    /\ s = "CONNECTED" /\ Ends(P) = "NOTHING" /\ Q = <<>> => f = "ESTABLISHED"
    /\ e = "server" /\ Ends(P) = "ESTABLISHED" => f = "ESTABLISHED"

\* A socket that has been closed has its command on its way, or the connection is closing,
\* unless queued bytes defer it (d).
ClosedFits(s, P, Q, f, d) ==
    /\ s = "LOCALLY_CLOSED" => Ends(Q) \in {"NOTHING", "CLOSE"}
    /\ s = "LOCALLY_CLOSED" /\ Ends(P) = "NOTHING" /\ Q = <<>> =>
           f \in HalfClosed \/ (f = "ESTABLISHED" /\ d)
    /\ s = "CLOSED" =>
           \/ Ends(Q) \in {"CLOSE", "ABORT"}
           \/ f \notin Handshake \cup {"ESTABLISHED"}
           \/ f = "ESTABLISHED" /\ d
    /\ Has(P, "CLOSED") => f \in Gone

SocketFits(e, s, P, Q, f, d) ==
    OpeningFits(e, s, P, Q, f) /\ ConnectedFits(e, s, P, Q, f) /\ ClosedFits(s, P, Q, f, d)

SocketsFit ==
    \A e \in Endpoint :
        SocketFits(e, sockstate[e], toApp[e], toConn[e], fsm[e], snd[e].finSeq # 0)

SocketInv == CloseInv /\ SocketsFit

----------------------------------------------------------------------------
(* The queues.                                                              *)

LEMMA EmptyQueues ==
  /\ Ends(<<>>) = "NOTHING" /\ Starts(<<>>) = "NOTHING"
  /\ \A x : ~Has(<<>>, x) /\ ~Late(<<>>, x)
<1>1. Len(<<>>) = 0
  OBVIOUS
<1>2. 1 .. 0 = {} /\ 2 .. 0 = {}
  OBVIOUS
<1> QED
  BY <1>1, <1>2 DEF Ends, Starts, Has, Late

\* One message more.
LEMMA QueuedOne ==
  ASSUME NEW S, NEW q \in Seq(S), NEW x \in S
  PROVE  /\ Ends(q \o <<x>>) = x
         /\ q \o <<x>> # <<>>
         /\ \A y : Has(q \o <<x>>, y) <=> (Has(q, y) \/ y = x)
         /\ \A y : Late(q \o <<x>>, y) <=> (Late(q, y) \/ (q # <<>> /\ y = x))
         /\ q # <<>> => Starts(q \o <<x>>) = Starts(q)
         /\ q = <<>> => Starts(q \o <<x>>) = x
<1> DEFINE n == Len(q)
           u == q \o <<x>>
<1>1. /\ n \in Nat /\ Len(u) = n + 1
      /\ \A i \in 1 .. n : u[i] = q[i]
      /\ u[n + 1] = x
      /\ u \in Seq(S)
  OBVIOUS
<1>2. q = <<>> <=> n = 0
  OBVIOUS
<1> HIDE DEF u
<1>3. u # <<>>
  BY <1>1
<1>4. 1 .. n + 1 = (1 .. n) \cup {n + 1} /\ (n # 0 => 2 .. n + 1 = (2 .. n) \cup {n + 1})
  BY <1>1
<1>5. \A y : Has(u, y) <=> (Has(q, y) \/ y = x)
  BY <1>1, <1>4 DEF Has
<1>6. \A y : Late(u, y) <=> (Late(q, y) \/ (q # <<>> /\ y = x))
  <2>1. CASE n = 0
    <3>1. 2 .. n + 1 = {} /\ 2 .. n = {}
      BY <2>1
    <3> QED
      BY <1>1, <1>2, <2>1, <3>1 DEF Late
  <2>2. CASE n # 0
    <3>1. \A i \in 2 .. n : u[i] = q[i]
      BY <1>1
    <3> QED
      BY <1>1, <1>2, <1>4, <2>2, <3>1 DEF Late
  <2> QED
    BY <2>1, <2>2
<1>7. Ends(u) = x
  BY <1>1, <1>3 DEF Ends
<1>8. Starts(u) = u[1]
  BY <1>1, <1>3 DEF Starts
<1>9. q # <<>> => Starts(u) = Starts(q)
  <2> SUFFICES ASSUME q # <<>> PROVE Starts(u) = Starts(q)
    OBVIOUS
  <2>1. 1 \in 1 .. n
    BY <1>1, <1>2
  <2>2. Starts(q) = q[1]
    BY DEF Starts
  <2> QED
    BY <1>1, <1>8, <2>1, <2>2
<1>10. q = <<>> => Starts(u) = x
  BY <1>1, <1>2, <1>8
<1> QED
  BY <1>3, <1>5, <1>6, <1>7, <1>9, <1>10 DEF u

\* The first message is taken.
LEMMA QueueTaken ==
  ASSUME NEW S, NEW q \in Seq(S), q # <<>>
  PROVE  /\ Has(q, Head(q)) /\ Has(q, Ends(q))
         /\ Starts(q) = Head(q)
         /\ \A y : Has(Tail(q), y) => Has(q, y) /\ Late(q, y)
         /\ \A y : Late(Tail(q), y) => Late(q, y)
         /\ Tail(q) = <<>> => Ends(Tail(q)) = "NOTHING" /\ Ends(q) = Head(q)
         /\ Tail(q) # <<>> => Ends(Tail(q)) = Ends(q)
<1> DEFINE n == Len(q)
           u == Tail(q)
<1>1. n \in Nat /\ n >= 1 /\ Len(u) = n - 1 /\ u \in Seq(S)
  OBVIOUS
<1>2. \A i \in 1 .. n - 1 : u[i] = q[i + 1]
  OBVIOUS
<1>3. Head(q) = q[1] /\ Ends(q) = q[n]
  <2>1. Head(q) = q[1]
    OBVIOUS
  <2>2. Ends(q) = q[n]
    BY DEF Ends
  <2> QED
    BY <2>1, <2>2
<1>4. u = <<>> <=> n - 1 = 0
  <2>1. \A w \in Seq(S) : w = <<>> <=> Len(w) = 0
    OBVIOUS
  <2> HIDE DEF u
  <2> QED
    BY <1>1, <2>1
<1> HIDE DEF u
<1>5. Has(q, Head(q)) /\ Has(q, Ends(q))
  BY <1>1, <1>3 DEF Has
<1>6. \A y : Has(u, y) => Has(q, y) /\ Late(q, y)
  <2> SUFFICES ASSUME NEW y, NEW i \in 1 .. n - 1, u[i] = y PROVE Has(q, y) /\ Late(q, y)
    BY <1>1 DEF Has
  <2>1. q[i + 1] = y /\ i + 1 \in 1 .. n /\ i + 1 \in 2 .. n
    BY <1>1, <1>2
  <2> QED
    BY <2>1 DEF Has, Late
<1>7. \A y : Late(u, y) => Late(q, y)
  <2> SUFFICES ASSUME NEW y, NEW i \in 2 .. n - 1, u[i] = y PROVE Late(q, y)
    BY <1>1 DEF Late
  <2>1. q[i + 1] = y /\ i + 1 \in 2 .. n
    BY <1>1, <1>2
  <2> QED
    BY <2>1 DEF Late
<1>8. u = <<>> => Ends(u) = "NOTHING" /\ Ends(q) = Head(q)
  BY <1>1, <1>3, <1>4 DEF Ends
<1>9. u # <<>> => Ends(u) = Ends(q)
  <2> SUFFICES ASSUME u # <<>> PROVE Ends(u) = Ends(q)
    OBVIOUS
  <2>1. Ends(u) = u[n - 1]
    BY <1>1 DEF Ends
  <2>2. n - 1 \in 1 .. n - 1 /\ (n - 1) + 1 = n
    BY <1>1, <1>4
  <2> QED
    BY <1>2, <1>3, <2>1, <2>2
<1>10. Starts(q) = Head(q)
  BY DEF Starts
<1> QED
  BY <1>5, <1>6, <1>7, <1>8, <1>9, <1>10 DEF u

\* The application is told more.
LEMMA QueuedTelling ==
  ASSUME NEW P \in Seq(Indications), NEW all \in Tellings
  PROVE  /\ Ends(P \o all) = IF Ends(all) = "NOTHING" THEN Ends(P) ELSE Ends(all)
         /\ Has(P \o all, "ESTABLISHED") <=> (Has(P, "ESTABLISHED") \/ Ends(all) = "ESTABLISHED")
         /\ Has(P \o all, "CLOSED") <=> (Has(P, "CLOSED") \/ Ends(all) = "CLOSED")
         /\ Late(P \o all, "ESTABLISHED") <=>
                (Late(P, "ESTABLISHED") \/ (P # <<>> /\ Ends(all) = "ESTABLISHED"))
<1>1. CASE all = <<>>
  <2>1. P \o all = P
    BY <1>1, ConcatEmptySeq
  <2>2. Ends(all) = "NOTHING"
    BY <1>1, EmptyQueues
  <2> QED
    BY <2>1, <2>2
<1>2. ASSUME NEW x \in Indications, all = <<x>>
      PROVE  /\ Ends(P \o all) = IF Ends(all) = "NOTHING" THEN Ends(P) ELSE Ends(all)
             /\ Has(P \o all, "ESTABLISHED") <=> (Has(P, "ESTABLISHED") \/ Ends(all) = "ESTABLISHED")
             /\ Has(P \o all, "CLOSED") <=> (Has(P, "CLOSED") \/ Ends(all) = "CLOSED")
             /\ Late(P \o all, "ESTABLISHED") <=>
                    (Late(P, "ESTABLISHED") \/ (P # <<>> /\ Ends(all) = "ESTABLISHED"))
  <2>1. Ends(all) = x
    <3>1. <<x>> # <<>> /\ Len(<<x>>) = 1 /\ <<x>>[1] = x
      OBVIOUS
    <3> QED
      BY <1>2, <3>1 DEF Ends
  <2>2. x # "NOTHING"
    BY DEF Indications
  <2> QED
    BY <1>2, <2>1, <2>2, QueuedOne
<1>3. CASE all = <<"CONNECTION_RESET", "CLOSED">>
  <2> DEFINE R == P \o <<"CONNECTION_RESET">>
  <2>1. R \in Seq(Indications) /\ "CONNECTION_RESET" \in Indications /\ "CLOSED" \in Indications
    BY DEF Indications
  <2>2. P \o all = R \o <<"CLOSED">>
    BY <1>3
  <2>3. Ends(all) = "CLOSED"
    <3>1. all # <<>> /\ Len(all) = 2 /\ all[2] = "CLOSED"
      BY <1>3
    <3> QED
      BY <3>1 DEF Ends
  <2>4. /\ \A y : Has(R, y) <=> (Has(P, y) \/ y = "CONNECTION_RESET")
        /\ \A y : Late(R, y) <=> (Late(P, y) \/ (P # <<>> /\ y = "CONNECTION_RESET"))
    BY <2>1, QueuedOne
  <2> HIDE DEF R
  <2>5. /\ Ends(R \o <<"CLOSED">>) = "CLOSED"
        /\ \A y : Has(R \o <<"CLOSED">>, y) <=> (Has(R, y) \/ y = "CLOSED")
        /\ \A y : Late(R \o <<"CLOSED">>, y) <=> (Late(R, y) \/ (R # <<>> /\ y = "CLOSED"))
    BY <2>1, QueuedOne
  <2> QED
    BY <2>2, <2>3, <2>4, <2>5
<1> QED
  BY <1>1, <1>2, <1>3 DEF Tellings, Indications

----------------------------------------------------------------------------
(* One endpoint's steps, without the rest of the state.                     *)

\* A transition from f to g that tells t last, while no command is taken.
Moved(f, g, t, d, after) ==
    /\ g \in Handshake => f \in Handshake /\ t = "NOTHING"
    /\ f = "INIT" <=> g = "INIT"
    /\ f = "SYN_SENT" => g = "SYN_SENT" \/ t # "NOTHING"
    /\ f = "ESTABLISHED" => g = "ESTABLISHED" \/ t # "NOTHING"
    /\ g = "ESTABLISHED" => f \in Handshake \cup {"ESTABLISHED"}
    /\ g = "CLOSE_WAIT" => t # "ESTABLISHED" /\ (f = "CLOSE_WAIT" \/ t # "NOTHING")
    /\ f \in HalfClosed => g \in HalfClosed \/ t # "NOTHING"
    /\ f \in Gone => g \in Gone
    /\ t = "ESTABLISHED" => f \in Handshake /\ g = "ESTABLISHED"
    /\ t = "CLOSED" => g \in Gone
    /\ f = "ESTABLISHED" /\ g = "ESTABLISHED" /\ d => after

\* What is left of the queue of commands when the first one is taken.
LEMMA TakenCommands ==
  ASSUME NEW Q \in Seq(Commands), Q # <<>>
  PROVE  /\ Starts(Q) \in Commands /\ Ends(Q) # "NOTHING"
         /\ Starts(Q) \in {"CLOSE", "ABORT"} => Leaving(Q)
         /\ Leaving(Tail(Q)) => Leaving(Q)
         /\ Tail(Q) = <<>> => Ends(Tail(Q)) = "NOTHING" /\ Ends(Q) = Starts(Q)
         /\ Tail(Q) # <<>> => Ends(Tail(Q)) = Ends(Q)
<1>1. Head(Q) \in Commands
  BY HeadTailProperties
<1>2. Ends(Q) \in Commands
  <2>1. Len(Q) \in 1 .. Len(Q)
    OBVIOUS
  <2>2. Q[Len(Q)] \in Commands
    BY <2>1, ElementOfSeq
  <2> QED
    BY <2>2 DEF Ends
<1> QED
  BY <1>1, <1>2, QueueTaken DEF Leaving, Commands

LEMMA MovedFits ==
  ASSUME NEW e \in Endpoint, NEW s, NEW P \in Seq(Indications), NEW Q, NEW f, NEW g,
         NEW d \in BOOLEAN, NEW after \in BOOLEAN, NEW all \in Tellings,
         SocketFits(e, s, P, Q, f, d), Moved(f, g, Ends(all), d, after)
  PROVE  SocketFits(e, s, P \o all, Q, g, after)
<1> DEFINE R == P \o all
           t == Ends(all)
<1>1. /\ Ends(R) = IF t = "NOTHING" THEN Ends(P) ELSE t
      /\ Has(R, "ESTABLISHED") <=> (Has(P, "ESTABLISHED") \/ t = "ESTABLISHED")
      /\ Has(R, "CLOSED") <=> (Has(P, "CLOSED") \/ t = "CLOSED")
      /\ Late(R, "ESTABLISHED") <=> (Late(P, "ESTABLISHED") \/ (P # <<>> /\ t = "ESTABLISHED"))
  BY QueuedTelling
<1>2. Ends(P) = "NOTHING" => P = <<>>
  <2> SUFFICES ASSUME P # <<>> PROVE Ends(P) # "NOTHING"
    OBVIOUS
  <2>1. Len(P) \in 1 .. Len(P)
    OBVIOUS
  <2>2. P[Len(P)] \in Indications
    BY <2>1, ElementOfSeq
  <2> QED
    BY <2>2 DEF Ends, Indications
<1> HIDE DEF R, t
<1>3. Moved(f, g, t, d, after)
  BY DEF t
<1>4. OpeningFits(e, s, R, Q, g)
  BY <1>1, <1>3 DEF SocketFits, OpeningFits, Moved, Handshake
<1>5. ConnectedFits(e, s, R, Q, g)
  BY <1>1, <1>2, <1>3 DEF SocketFits, OpeningFits, ConnectedFits, Moved, Handshake, Endpoint
<1>6. ClosedFits(s, R, Q, g, after)
  BY <1>1, <1>3 DEF SocketFits, ClosedFits, Moved, Handshake, HalfClosed, Gone
<1> QED
  BY <1>4, <1>5, <1>6 DEF SocketFits, R

\* A command to open, or to write, changes no more than the state.
LEMMA OpenedFits ==
  ASSUME NEW e \in Endpoint, NEW s, NEW P, NEW Q \in Seq(Commands), Q # <<>>,
         NEW f, NEW g, NEW d \in BOOLEAN, NEW after \in BOOLEAN, d => after,
         SocketFits(e, s, P, Q, f, d),
         \/ Starts(Q) = "OPEN_ACTIVE" /\ f = "INIT" /\ g = "SYN_SENT" /\ e = "client"
         \/ Starts(Q) = "SEND" /\ f \in {"SYN_SENT", "SYN_RCVD", "ESTABLISHED", "CLOSE_WAIT"} /\ g = f
  PROVE  SocketFits(e, s, P, Tail(Q), g, after)
<1> DEFINE T == Tail(Q)
<1>1. /\ Ends(Q) # "NOTHING"
      /\ Leaving(T) => Leaving(Q)
      /\ T = <<>> => Ends(T) = "NOTHING" /\ Ends(Q) = Starts(Q)
      /\ T # <<>> => Ends(T) = Ends(Q)
  BY TakenCommands
<1> HIDE DEF T
<1>2. OpeningFits(e, s, P, T, g)
  BY <1>1 DEF SocketFits, OpeningFits, Handshake, Endpoint
<1>3. ConnectedFits(e, s, P, T, g)
  BY <1>1 DEF SocketFits, OpeningFits, ConnectedFits, Handshake, Endpoint
<1>4. ClosedFits(s, P, T, g, after)
  BY <1>1 DEF SocketFits, OpeningFits, ClosedFits, Handshake, HalfClosed, Gone
<1> QED
  BY <1>2, <1>3, <1>4 DEF SocketFits, T

\* A command to close or to abort: the connection leaves, unless its close is deferred.
LEMMA LeftFits ==
  ASSUME NEW e \in Endpoint, NEW s, NEW P \in Seq(Indications), NEW Q \in Seq(Commands),
         Q # <<>>, NEW f \in States \ {"INIT"}, NEW g, NEW d \in BOOLEAN, NEW after \in BOOLEAN,
         SocketFits(e, s, P, Q, f, d), Starts(Q) \in {"CLOSE", "ABORT"},
         NEW all \in Tellings, Ends(all) \in {"NOTHING", "CLOSED"},
         RoleFits(e, f), f # "SYN_RCVD" => g \notin Handshake,
         g = "ESTABLISHED" => after,
         g = "CLOSE_WAIT" => f = "CLOSE_WAIT",
         g = "LAST_ACK" => f = "CLOSE_WAIT",
         g \in Handshake \cup HalfClosed \cup {"ESTABLISHED", "CLOSE_WAIT", "LAST_ACK"}
             => Starts(Q) = "CLOSE",
         g \in States \ {"FIN_WAIT_2", "CLOSING", "TIME_WAIT"},
         g = "CLOSED" => Ends(all) = "CLOSED" \/ Starts(Q) = "ABORT",
         Ends(all) = "CLOSED" \/ f \in Gone => g = "CLOSED"
  PROVE  SocketFits(e, s, P \o all, Tail(Q), g, after)
<1> DEFINE T == Tail(Q)
           R == P \o all
           t == Ends(all)
<1>1. /\ Ends(Q) # "NOTHING"
      /\ Leaving(Q)
      /\ T = <<>> => Ends(T) = "NOTHING" /\ Ends(Q) = Starts(Q)
      /\ T # <<>> => Ends(T) = Ends(Q)
  BY TakenCommands
<1>2. /\ Ends(R) = IF t = "NOTHING" THEN Ends(P) ELSE t
      /\ Has(R, "ESTABLISHED") <=> (Has(P, "ESTABLISHED") \/ t = "ESTABLISHED")
      /\ Has(R, "CLOSED") <=> (Has(P, "CLOSED") \/ t = "CLOSED")
      /\ Late(R, "ESTABLISHED") <=> (Late(P, "ESTABLISHED") \/ (P # <<>> /\ t = "ESTABLISHED"))
  BY QueuedTelling
<1>3. Ends(P) = "ESTABLISHED" => Has(P, "ESTABLISHED")
  <2> SUFFICES ASSUME Ends(P) = "ESTABLISHED" PROVE Has(P, "ESTABLISHED")
    OBVIOUS
  <2>1. P # <<>>
    BY EmptyQueues
  <2> QED
    BY <2>1, QueueTaken
<1> HIDE DEF T, R, t
\* The socket has left: neither bound, nor connecting, nor in a server's handshake.
<1>4. /\ s \notin {"BOUND", "CONNECTING"}
      /\ f \in Handshake => e = "client" /\ f = "SYN_SENT" /\ s = "CLOSED"
  <2>1. s # "BOUND" /\ s # "CONNECTING"
    BY <1>1 DEF SocketFits, OpeningFits, Endpoint
  <2> QED
    BY <2>1 DEF SocketFits, OpeningFits, Handshake, Endpoint, RoleFits
<1>5. g \notin Handshake
  BY <1>4 DEF Handshake
<1>6. OpeningFits(e, s, R, T, g)
  <2>1. e = "server" /\ s = "CONNECTED" => FALSE
    BY DEF SocketFits, OpeningFits
  <2> QED
    BY <1>4, <1>5, <2>1 DEF OpeningFits, Handshake
<1>7. ConnectedFits(e, s, R, T, g)
  <2>1. e = "server" => ~Has(P, "ESTABLISHED")
    BY <1>4 DEF SocketFits, ConnectedFits
  <2>2. s = "CONNECTED" => T # <<>>
    BY <1>1 DEF SocketFits, ConnectedFits
  <2>3. t \in {"NOTHING", "CLOSED"}
    BY DEF t
  <2>4. g = "CLOSE_WAIT" => t = "NOTHING" /\ f = "CLOSE_WAIT"
    BY <2>3 DEF t
  <2> QED
    BY <1>1, <1>2, <1>3, <2>1, <2>2, <2>3, <2>4 DEF SocketFits, ConnectedFits
<1>8. ClosedFits(s, R, T, g, after)
  <2>1. s = "LOCALLY_CLOSED" => Ends(T) \in {"NOTHING", "CLOSE"}
    BY <1>1 DEF SocketFits, ClosedFits
  <2>2. s = "CLOSED" => g \notin Handshake \cup {"ESTABLISHED"} \/ (g = "ESTABLISHED" /\ after)
    BY <1>5
  <2>3. Has(R, "CLOSED") => g \in Gone
    BY <1>2 DEF SocketFits, ClosedFits, Gone, t
  <2>4. ASSUME s = "LOCALLY_CLOSED", Ends(R) = "NOTHING", T = <<>>
        PROVE  g \in HalfClosed \/ (g = "ESTABLISHED" /\ after)
    <3>1. Starts(Q) = "CLOSE"
      BY <1>1, <2>4 DEF SocketFits, ClosedFits
    <3>2. t = "NOTHING" /\ Ends(P) = "NOTHING"
      BY <1>2, <2>4
    <3>3. f # "CLOSE_WAIT"
      BY <2>4, <3>2 DEF SocketFits, ConnectedFits
    <3>4. g # "CLOSED"
      BY <3>1, <3>2 DEF t
    <3> QED
      BY <1>5, <3>3, <3>4 DEF States, Handshake, HalfClosed
  <2> QED
    BY <2>1, <2>2, <2>3, <2>4 DEF ClosedFits
<1> QED
  BY <1>6, <1>7, <1>8 DEF SocketFits, T, R

\* A command is sent.
LEMMA QueuedCommand ==
  ASSUME NEW Q \in Seq(Commands), NEW c \in Commands
  PROVE  /\ Ends(Q \o <<c>>) = c /\ Q \o <<c>> # <<>>
         /\ Leaving(Q \o <<c>>) <=> (Leaving(Q) \/ c \in {"CLOSE", "ABORT"})
         /\ Starts(Q \o <<c>>) = IF Q = <<>> THEN c ELSE Starts(Q)
<1> DEFINE T == Q \o <<c>>
<1>1. /\ Ends(T) = c /\ T # <<>>
      /\ \A y : Has(T, y) <=> (Has(Q, y) \/ y = c)
      /\ Q # <<>> => Starts(T) = Starts(Q)
      /\ Q = <<>> => Starts(T) = c
  BY QueuedOne
<1> HIDE DEF T
<1>2. Leaving(T) <=> (Leaving(Q) \/ c \in {"CLOSE", "ABORT"})
  <2>1. Has(T, "CLOSE") <=> (Has(Q, "CLOSE") \/ "CLOSE" = c)
    BY <1>1
  <2>2. Has(T, "ABORT") <=> (Has(Q, "ABORT") \/ "ABORT" = c)
    BY <1>1
  <2> QED
    BY <2>1, <2>2 DEF Leaving
<1> QED
  BY <1>1, <1>2 DEF T

\* The application connects, writes, closes or aborts.
LEMMA AskedFits ==
  ASSUME NEW e \in Endpoint, NEW s, NEW r, NEW P, NEW Q \in Seq(Commands), NEW f,
         NEW d \in BOOLEAN, SocketFits(e, s, P, Q, f, d), NEW c,
         \/ e = "client" /\ s = "BOUND" /\ r = "CONNECTING" /\ c = "OPEN_ACTIVE"
         \/ e = "client" /\ s = "CONNECTING" /\ r = s /\ c = "SEND"
         \/ /\ s \in {"CONNECTED", "CONNECTING", "PEER_CLOSED"}
            /\ r = IF s = "CONNECTED" THEN "LOCALLY_CLOSED" ELSE "CLOSED"
            /\ c = "CLOSE"
         \/ s \notin {"BOUND", "CLOSED", "SOCKERROR"} /\ r = "CLOSED" /\ c = "ABORT"
  PROVE  SocketFits(e, r, P, Q \o <<c>>, f, d)
<1> DEFINE T == Q \o <<c>>
<1>1. c \in Commands
  BY DEF Commands
<1>2. /\ Ends(T) = c /\ T # <<>>
      /\ Leaving(T) <=> (Leaving(Q) \/ c \in {"CLOSE", "ABORT"})
      /\ Starts(T) = IF Q = <<>> THEN c ELSE Starts(Q)
  BY <1>1, QueuedCommand
<1>3. Starts(<<>>) = "NOTHING" /\ ~Leaving(<<>>)
  BY EmptyQueues DEF Leaving
<1> HIDE DEF T
<1>4. OpeningFits(e, r, P, T, f)
  BY <1>2, <1>3 DEF SocketFits, OpeningFits, Handshake, Endpoint
<1>5. ConnectedFits(e, r, P, T, f)
  BY <1>2 DEF SocketFits, ConnectedFits, Endpoint
<1>6. ClosedFits(r, P, T, f, d)
  BY <1>2 DEF SocketFits, ClosedFits
<1> QED
  BY <1>4, <1>5, <1>6 DEF SocketFits, T

\* What the socket makes of an indication.
SocketAfter(x, answers) ==
    CASE x = "ESTABLISHED" -> "CONNECTED"
      [] x = "PEER_CLOSED" -> IF answers THEN "CLOSED" ELSE "PEER_CLOSED"
      [] x = "CLOSED" -> "CLOSED"
      [] OTHER -> "SOCKERROR"

\* The application is told; it answers with a command c, or not at all.
LEMMA ReceivedFits ==
  ASSUME NEW e \in Endpoint, NEW s, NEW P \in Seq(Indications), P # <<>>,
         NEW Q \in Seq(Commands), NEW T, NEW f, NEW d \in BOOLEAN,
         SocketFits(e, s, P, Q, f, d), NEW answers \in BOOLEAN, answers => Head(P) = "PEER_CLOSED",
         \/ answers /\ T = Q \o <<"CLOSE">>
         \/ Head(P) = "ESTABLISHED" /\ e = "client" /\ T = Q \o <<"SEND">>
         \/ ~answers /\ ~(Head(P) = "ESTABLISHED" /\ e = "client") /\ T = Q
  PROVE  SocketFits(e, SocketAfter(Head(P), answers), Tail(P), T, f, d)
<1> DEFINE R == Tail(P)
           x == Head(P)
           r == SocketAfter(x, answers)
<1>1. /\ Has(P, x) /\ Has(P, Ends(P))
      /\ \A y : Has(R, y) => Has(P, y) /\ Late(P, y)
      /\ \A y : Late(R, y) => Late(P, y)
      /\ R = <<>> => Ends(R) = "NOTHING" /\ Ends(P) = x
      /\ R # <<>> => Ends(R) = Ends(P)
  BY QueueTaken
<1>2. x \in Indications /\ R \in Seq(Indications)
  BY HeadTailProperties
<1>3. R # <<>> => Has(R, Ends(R)) /\ Ends(R) \in Indications
  <2> HIDE DEF R
  <2> SUFFICES ASSUME R # <<>> PROVE Has(R, Ends(R)) /\ Ends(R) \in Indications
    OBVIOUS
  <2>1. Len(R) \in 1 .. Len(R)
    BY <1>2
  <2>2. R[Len(R)] \in Indications
    BY <1>2, <2>1, ElementOfSeq
  <2> QED
    BY <2>1, <2>2 DEF Ends, Has
<1>4. Ends(P) # "NOTHING"
  BY <1>1, <1>2, <1>3 DEF Indications
<1>5. /\ "CLOSE" \in Commands /\ "SEND" \in Commands
      /\ answers => Ends(T) = "CLOSE" /\ T # <<>>
      /\ x = "ESTABLISHED" /\ e = "client" => Ends(T) = "SEND" /\ T # <<>>
      /\ ~answers /\ ~(x = "ESTABLISHED" /\ e = "client") => T = Q
  BY QueuedCommand DEF Commands
<1>6. r = SocketAfter(x, answers) /\ (answers => x = "PEER_CLOSED")
  OBVIOUS
<1> HIDE DEF R, x, r
<1>7. r \in {"CONNECTED", "CLOSED", "PEER_CLOSED", "SOCKERROR"} /\ (r = "CONNECTED" <=> x = "ESTABLISHED")
  BY <1>6 DEF SocketAfter
<1>8. f \notin Handshake
  BY <1>4 DEF SocketFits, OpeningFits
<1>9. ~Has(R, "ESTABLISHED") /\ ~Late(R, "ESTABLISHED")
  BY <1>1 DEF SocketFits, ConnectedFits
<1>10. Ends(R) # "ESTABLISHED"
  BY <1>1, <1>3, <1>9
<1>11. r = "CONNECTED" /\ e = "server" => s = "BOUND" /\ Q = <<>> /\ T = Q
  <2> SUFFICES ASSUME r = "CONNECTED", e = "server" PROVE s = "BOUND" /\ Q = <<>> /\ T = Q
    OBVIOUS
  <2>1. x = "ESTABLISHED" /\ ~answers /\ e # "client"
    BY <1>6, <1>7
  <2>2. Has(P, "ESTABLISHED")
    BY <1>1, <2>1
  <2>3. s = "BOUND"
    BY <2>2 DEF SocketFits, ConnectedFits
  <2> QED
    BY <1>5, <2>1, <2>3 DEF SocketFits, OpeningFits
<1>12. OpeningFits(e, r, R, T, f)
  BY <1>7, <1>8, <1>11 DEF OpeningFits, Handshake
<1>13. ConnectedFits(e, r, R, T, f)
  <2>1. r = "CONNECTED" => Ends(T) \in {"NOTHING", "SEND"}
    BY <1>5, <1>7, <1>11, EmptyQueues DEF Endpoint
  <2>2. r = "CONNECTED" /\ f = "CLOSE_WAIT" => Ends(R) # "NOTHING"
    BY <1>1, <1>3, <1>7 DEF SocketFits, ConnectedFits, Indications
  <2>3. r = "CONNECTED" /\ Ends(R) = "NOTHING" /\ T = <<>> => f = "ESTABLISHED"
    <3> SUFFICES ASSUME r = "CONNECTED", Ends(R) = "NOTHING", T = <<>> PROVE f = "ESTABLISHED"
      OBVIOUS
    <3>1. e = "server"
      BY <1>5, <1>7 DEF Endpoint
    <3>2. Ends(P) = "ESTABLISHED"
      BY <1>1, <1>3, <1>7 DEF Indications
    <3> QED
      BY <3>1, <3>2 DEF SocketFits, ConnectedFits
  <2> QED
    BY <1>7, <1>9, <1>10, <2>1, <2>2, <2>3 DEF ConnectedFits
<1>14. ClosedFits(r, R, T, f, d)
  <2>1. Has(R, "CLOSED") => f \in Gone
    BY <1>1 DEF SocketFits, ClosedFits
  <2>2. r = "CLOSED" => Ends(T) = "CLOSE" \/ f \in Gone
    <3> SUFFICES ASSUME r = "CLOSED", ~answers PROVE f \in Gone
      BY <1>5
    <3>1. x = "CLOSED"
      BY <1>6 DEF SocketAfter
    <3> QED
      BY <1>1, <3>1 DEF SocketFits, ClosedFits
  <2> QED
    BY <1>7, <2>1, <2>2 DEF ClosedFits, Gone, Handshake
<1> QED
  BY <1>12, <1>13, <1>14 DEF SocketFits, R, x, r

----------------------------------------------------------------------------
(* Sockets in the whole state.                                              *)

LEMMA EndsOf ==
  /\ \A x : Ends(<<x>>) = x
  /\ Ends(<<"CONNECTION_RESET", "CLOSED">>) = "CLOSED"
<1>1. ASSUME NEW x PROVE Ends(<<x>>) = x
  <2>1. <<x>> # <<>> /\ Len(<<x>>) = 1 /\ <<x>>[1] = x
    OBVIOUS
  <2> QED
    BY <2>1 DEF Ends
<1>2. Ends(<<"CONNECTION_RESET", "CLOSED">>) = "CLOSED"
  <2> DEFINE u == <<"CONNECTION_RESET", "CLOSED">>
  <2>1. u # <<>> /\ Len(u) = 2 /\ u[2] = "CLOSED"
    OBVIOUS
  <2> HIDE DEF u
  <2> QED
    BY <2>1 DEF Ends, u
<1> QED
  BY <1>1, <1>2

\* What stateEntered tells suits the transition, if no command is taken and the handshake
\* does not end with it.
LEMMA EntryMoved ==
  ASSUME NEW s \in States \ {"CLOSED"}, NEW event,
         event \notin {"OPEN_ACTIVE", "ABORT", "RCV_SYN_ACK"},
         event = "CLOSE" => s = "CLOSE_WAIT", event = "RCV_ACK" => s # "SYN_RCVD",
         NEW d \in BOOLEAN, NEW after \in BOOLEAN, s = "ESTABLISHED" /\ d => after
  PROVE  Moved(s, NextState(s, event), Ends(EntryTells(s, NextState(s, event), event)), d, after)
<1> DEFINE new == NextState(s, event)
           t == Ends(EntryTells(s, new, event))
<1>1. /\ new \in Handshake => s \in Handshake
      /\ s = "INIT" <=> new = "INIT"
      /\ s = "SYN_SENT" => new \in {"SYN_SENT", "CLOSED"}
      /\ s = "ESTABLISHED" => new \in {"ESTABLISHED", "CLOSE_WAIT"}
      /\ new = "ESTABLISHED" => s = "ESTABLISHED"
      /\ s \in HalfClosed => new \in HalfClosed \cup {"TIME_WAIT"}
      /\ s = "TIME_WAIT" => new \in {"TIME_WAIT", "CLOSED"}
  BY DEF NextState, Moves, States, Handshake, HalfClosed
<1> HIDE DEF new
<1>2. t = IF new = s THEN "NOTHING"
          ELSE IF new = "CLOSE_WAIT" THEN "PEER_CLOSED"
          ELSE IF new = "TIME_WAIT" \/ (new = "CLOSED" /\ s # "TIME_WAIT") THEN "CLOSED"
          ELSE "NOTHING"
  BY EndsOf, EmptyQueues DEF EntryTells
<1> HIDE DEF t
<1> QED
  <2>1. Moved(s, new, t, d, after)
    BY <1>1, <1>2 DEF Moved, Handshake, HalfClosed, Gone
  <2> QED
    BY <2>1 DEF t, new

LEMMA EndpointSocket ==
  ASSUME SocketInv, NEW e \in Endpoint
  PROVE  /\ fsm[e] \in States /\ sockstate[e] \in SockStates /\ (snd[e].finSeq # 0) \in BOOLEAN
         /\ toApp \in [Endpoint -> Seq(Indications)] /\ toConn \in [Endpoint -> Seq(Commands)]
         /\ sockstate \in [Endpoint -> SockStates] /\ fsm \in [Endpoint -> States]
         /\ snd \in [Endpoint -> SndRecords]
         /\ SocketFits(e, sockstate[e], toApp[e], toConn[e], fsm[e], snd[e].finSeq # 0)
         /\ Fits(e, fsm[e], timers[e], snd[e], finSeqs[e])
  BY DEF SocketInv, SocketsFit, CloseInv, TypeInv, TypeOK, NumbersType, EndpointsFit,
         Indications, Commands, SockStates

\* A step of e.
LEMMA SocketStep ==
  ASSUME SocketInv, NEW e \in Endpoint,
         \A d \in Endpoint \ {e} :
             /\ sockstate'[d] = sockstate[d] /\ toApp'[d] = toApp[d] /\ toConn'[d] = toConn[d]
             /\ fsm'[d] = fsm[d] /\ snd'[d].finSeq = snd[d].finSeq,
         SocketFits(e, sockstate'[e], toApp'[e], toConn'[e], fsm'[e], snd'[e].finSeq # 0)
  PROVE  SocketsFit'
<1>1. ASSUME NEW d \in Endpoint
      PROVE  SocketFits(d, sockstate'[d], toApp'[d], toConn'[d], fsm'[d], snd'[d].finSeq # 0)
  <2>1. CASE d = e
    BY <2>1
  <2>2. CASE d # e
    BY <2>2, EndpointSocket
  <2> QED
    BY <2>1, <2>2
<1> QED
  BY <1>1 DEF SocketsFit

LEMMA SocketsStay ==
  ASSUME SocketInv, UNCHANGED <<sockstate, toApp, toConn, fsm, snd>>
  PROVE  SocketsFit'
  BY EndpointSocket DEF SocketsFit

\* A connection that moves and tells, while the application does nothing.
LEMMA PerformMoves ==
  ASSUME SocketInv, NEW e \in Endpoint, NEW event, NEW tells, NEW armed, fsm[e] # "CLOSED",
         NEW all \in Tellings,
         all = tells \o EntryTells(fsm[e], NextState(fsm[e], event), event),
         Perform(e, event, tells, armed), UNCHANGED <<sockstate, toConn>>,
         \A d \in Endpoint \ {e} : snd'[d] = snd[d],
         Moved(fsm[e], NextState(fsm[e], event), Ends(all), snd[e].finSeq # 0, snd'[e].finSeq # 0)
  PROVE  SocketsFit'
<1> DEFINE new == NextState(fsm[e], event)
<1>0. /\ toApp \in [Endpoint -> Seq(Indications)] /\ fsm \in [Endpoint -> States]
      /\ toApp[e] \in Seq(Indications)
      /\ (snd[e].finSeq # 0) \in BOOLEAN /\ (snd'[e].finSeq # 0) \in BOOLEAN
      /\ SocketFits(e, sockstate[e], toApp[e], toConn[e], fsm[e], snd[e].finSeq # 0)
  BY EndpointSocket
<1>1. toApp' = [toApp EXCEPT ![e] = @ \o all] /\ fsm' = [fsm EXCEPT ![e] = new]
  BY DEF Perform
<1> HIDE DEF new
<1>2. /\ toApp'[e] = toApp[e] \o all /\ fsm'[e] = new
      /\ \A d \in Endpoint \ {e} : toApp'[d] = toApp[d] /\ fsm'[d] = fsm[d]
  BY <1>0, <1>1
<1>3. Moved(fsm[e], new, Ends(all), snd[e].finSeq # 0, snd'[e].finSeq # 0)
  BY DEF new
<1>4. SocketFits(e, sockstate[e], toApp[e] \o all, toConn[e], new, snd'[e].finSeq # 0)
  BY <1>0, <1>3, MovedFits
<1> QED
  BY <1>2, <1>4, SocketStep

\* One that tells only what its transition does.
LEMMA SilentMoves ==
  ASSUME SocketInv, NEW e \in Endpoint, NEW event, NEW armed, fsm[e] # "CLOSED",
         event \notin {"OPEN_ACTIVE", "ABORT", "RCV_SYN_ACK"},
         event = "CLOSE" => fsm[e] = "CLOSE_WAIT", event = "RCV_ACK" => fsm[e] # "SYN_RCVD",
         Perform(e, event, <<>>, armed), UNCHANGED <<sockstate, toConn>>,
         \A d \in Endpoint \ {e} : snd'[d] = snd[d],
         fsm[e] = "ESTABLISHED" => snd'[e].finSeq = snd[e].finSeq
  PROVE  SocketsFit'
<1> DEFINE all == EntryTells(fsm[e], NextState(fsm[e], event), event)
<1>1. fsm[e] \in States \ {"CLOSED"}
  BY EndpointSocket
<1>2. all \in Tellings
  BY <1>1, EntryTellable, 0 \in Nat, 0 >= 0
<1>3. all \in Seq(Indications)
  BY EntryTellsType
<1>4. (snd[e].finSeq # 0) \in BOOLEAN /\ (snd'[e].finSeq # 0) \in BOOLEAN
  OBVIOUS
<1>5. Moved(fsm[e], NextState(fsm[e], event), Ends(all), snd[e].finSeq # 0, snd'[e].finSeq # 0)
  BY <1>1, <1>4, EntryMoved
<1>6. all = <<>> \o all
  <2> HIDE DEF all
  <2> QED
    BY <1>3, ConcatEmptySeq
<1> QED
  BY <1>2, <1>5, <1>6, PerformMoves

\* The application does something, and sends a command or none.
LEMMA SocketActs ==
  ASSUME SocketInv, NEW e \in Endpoint, NEW r, NEW commands,
         sockstate' = [sockstate EXCEPT ![e] = r], Command(e, commands), UNCHANGED <<fsm, snd>>,
         \A d \in Endpoint \ {e} : toApp'[d] = toApp[d],
         SocketFits(e, r, toApp'[e], toConn[e] \o commands, fsm[e], snd[e].finSeq # 0)
  PROVE  SocketsFit'
<1>1. sockstate \in [Endpoint -> SockStates] /\ toConn \in [Endpoint -> Seq(Commands)]
  BY EndpointSocket
<1>2. /\ sockstate'[e] = r /\ toConn'[e] = toConn[e] \o commands
      /\ \A d \in Endpoint \ {e} : sockstate'[d] = sockstate[d] /\ toConn'[d] = toConn[d]
  BY <1>1 DEF Command
<1> QED
  BY <1>2, SocketStep

LEMMA SocketApp ==
  ASSUME SocketInv, Connect \/ WriteEarly \/ \E e \in Endpoint : App(e)
  PROVE  SocketsFit'
<1>0. "client" \in Endpoint
  BY DEF Endpoint
<1>1. CASE Connect
  <2>1. /\ sockstate["client"] = "BOUND" /\ sockstate' = [sockstate EXCEPT !["client"] = "CONNECTING"]
        /\ Command("client", <<"OPEN_ACTIVE">>) /\ UNCHANGED <<fsm, snd, toApp>>
    BY <1>1 DEF Connect, connVars
  <2>2. SocketFits("client", "CONNECTING", toApp["client"], toConn["client"] \o <<"OPEN_ACTIVE">>,
                   fsm["client"], snd["client"].finSeq # 0)
    BY <1>0, <2>1, EndpointSocket, AskedFits
  <2> QED
    BY <1>0, <2>1, <2>2, SocketActs
<1>2. CASE WriteEarly
  <2>1. /\ sockstate["client"] = "CONNECTING" /\ sockstate' = sockstate
        /\ Command("client", <<"SEND">>) /\ UNCHANGED <<fsm, snd, toApp>>
    BY <1>2 DEF WriteEarly, connVars
  <2>2. SocketFits("client", "CONNECTING", toApp["client"], toConn["client"] \o <<"SEND">>,
                   fsm["client"], snd["client"].finSeq # 0)
    BY <1>0, <2>1, EndpointSocket, AskedFits
  <2>3. sockstate' = [sockstate EXCEPT !["client"] = "CONNECTING"]
    BY <1>0, <2>1, EndpointSocket
  <2> QED
    BY <1>0, <2>1, <2>2, <2>3, SocketActs
<1>3. ASSUME NEW e \in Endpoint, AppCloses(e)
      PROVE  SocketsFit'
  <2> DEFINE r == IF sockstate[e] = "CONNECTED" THEN "LOCALLY_CLOSED" ELSE "CLOSED"
  <2>1. /\ sockstate[e] \in {"CONNECTED", "CONNECTING", "PEER_CLOSED"}
        /\ sockstate' = [sockstate EXCEPT ![e] = r]
        /\ Command(e, <<"CLOSE">>) /\ UNCHANGED <<fsm, snd, toApp>>
    BY <1>3 DEF AppCloses, connVars
  <2>2. SocketFits(e, r, toApp[e], toConn[e] \o <<"CLOSE">>, fsm[e], snd[e].finSeq # 0)
    BY <2>1, EndpointSocket, AskedFits
  <2> HIDE DEF r
  <2> QED
    BY <2>1, <2>2, SocketActs
<1>4. ASSUME NEW e \in Endpoint, AppAborts(e)
      PROVE  SocketsFit'
  <2>1. /\ sockstate[e] \notin {"BOUND", "CLOSED", "SOCKERROR"}
        /\ sockstate' = [sockstate EXCEPT ![e] = "CLOSED"]
        /\ Command(e, <<"ABORT">>) /\ UNCHANGED <<fsm, snd, toApp>>
    BY <1>4 DEF AppAborts, connVars
  <2>2. SocketFits(e, "CLOSED", toApp[e], toConn[e] \o <<"ABORT">>, fsm[e], snd[e].finSeq # 0)
    BY <2>1, EndpointSocket, AskedFits
  <2> QED
    BY <2>1, <2>2, SocketActs
<1>5. ASSUME NEW e \in Endpoint, AppReceives(e)
      PROVE  SocketsFit'
  <2> DEFINE x == Head(toApp[e])
             answers == x = "PEER_CLOSED" /\ e \in Answerers
             commands == CASE answers -> <<"CLOSE">>
                           [] x = "ESTABLISHED" /\ e = "client" -> <<"SEND">>
                           [] OTHER -> <<>>
             r == SocketAfter(x, answers)
  <2>1. /\ toApp[e] # <<>> /\ toApp' = [toApp EXCEPT ![e] = Tail(@)]
        /\ sockstate' = [sockstate EXCEPT ![e] = r]
        /\ Command(e, commands) /\ UNCHANGED <<fsm, snd>>
    BY <1>5 DEF AppReceives, connVars, SocketAfter
  <2>2. /\ toApp \in [Endpoint -> Seq(Indications)] /\ toConn[e] \in Seq(Commands)
        /\ SocketFits(e, sockstate[e], toApp[e], toConn[e], fsm[e], snd[e].finSeq # 0)
    BY EndpointSocket
  <2>3. answers \in BOOLEAN /\ (answers => x = "PEER_CLOSED")
    OBVIOUS
  <2>4. toConn[e] \o <<>> = toConn[e]
    BY <2>2, ConcatEmptySeq
  <2>5. \/ answers /\ commands = <<"CLOSE">>
        \/ x = "ESTABLISHED" /\ e = "client" /\ commands = <<"SEND">>
        \/ ~answers /\ ~(x = "ESTABLISHED" /\ e = "client") /\ commands = <<>>
    OBVIOUS
  <2>6. toApp'[e] = Tail(toApp[e]) /\ \A d \in Endpoint \ {e} : toApp'[d] = toApp[d]
    BY <2>1, <2>2
  <2> HIDE DEF answers, commands
  <2>7. SocketFits(e, r, Tail(toApp[e]), toConn[e] \o commands, fsm[e], snd[e].finSeq # 0)
    BY <2>1, <2>2, <2>3, <2>4, <2>5, ReceivedFits
  <2> HIDE DEF r
  <2> QED
    BY <2>1, <2>6, <2>7, SocketActs
<1> QED
  BY <1>1, <1>2, <1>3, <1>4, <1>5 DEF App

\* A command is executed.
LEMMA SocketExecutes ==
  ASSUME SocketInv, NEW e \in Endpoint, NEW event, NEW sends, NEW armed,
         NEW all, all = EntryTells(fsm[e], NextState(fsm[e], event), event),
         Execute(e, event, sends, armed), \A d \in Endpoint \ {e} : snd'[d] = snd[d],
         SocketFits(e, sockstate[e], toApp[e] \o all, Tail(toConn[e]),
                    NextState(fsm[e], event), snd'[e].finSeq # 0)
  PROVE  SocketsFit'
<1> DEFINE new == NextState(fsm[e], event)
<1>1. /\ toApp \in [Endpoint -> Seq(Indications)] /\ toConn \in [Endpoint -> Seq(Commands)]
      /\ fsm \in [Endpoint -> States]
  BY EndpointSocket
<1>2. all = <<>> \o all
  <2>1. all \in Seq(Indications)
    BY EntryTellsType
  <2> QED
    BY <2>1, ConcatEmptySeq
<1>3. /\ toApp' = [toApp EXCEPT ![e] = @ \o all] /\ fsm' = [fsm EXCEPT ![e] = new]
      /\ toConn' = [toConn EXCEPT ![e] = Tail(@)] /\ sockstate' = sockstate
  BY <1>2 DEF Execute, Perform
<1> HIDE DEF new
<1>4. /\ toApp'[e] = toApp[e] \o all /\ fsm'[e] = new /\ toConn'[e] = Tail(toConn[e])
      /\ \A d \in Endpoint \ {e} :
             toApp'[d] = toApp[d] /\ fsm'[d] = fsm[d] /\ toConn'[d] = toConn[d]
  BY <1>1, <1>3
<1>5. SocketFits(e, sockstate[e], toApp[e] \o all, Tail(toConn[e]), new, snd'[e].finSeq # 0)
  BY DEF new
<1> QED
  BY <1>3, <1>4, <1>5, SocketStep

LEMMA SocketCommand ==
  ASSUME SocketInv, NEW e \in Endpoint, ProcessAppCommand(e)
  PROVE  SocketsFit'
<1> DEFINE f == fsm[e]
           Q == toConn[e]
           s == sockstate[e]
           P == toApp[e]
           d == snd[e].finSeq # 0
           after == snd'[e].finSeq # 0
<1>0. /\ f \in States /\ Q \in Seq(Commands) /\ P \in Seq(Indications) /\ d \in BOOLEAN
      /\ after \in BOOLEAN /\ snd \in [Endpoint -> SndRecords] /\ snd[e] \in SndRecords
      /\ SocketFits(e, s, P, Q, f, d) /\ RoleFits(e, f) /\ NumbersFit(f, snd[e], finSeqs[e])
  BY EndpointSocket DEF Fits
<1>1. Q # <<>> => Starts(Q) = Head(Q)
  BY DEF Starts
<1>2. P \o <<>> = P /\ <<>> \in Tellings
  BY <1>0, ConcatEmptySeq DEF Tellings
<1>3. ASSUME NEW new, SendSideOf(e, new)
      PROVE  snd'[e] = new /\ \A c \in Endpoint \ {e} : snd'[c] = snd[c]
  BY <1>0, <1>3 DEF SendSideOf
\* A command that changes no more than the state.
<1>4. ASSUME NEW event, NEW sends, NEW armed, Execute(e, event, sends, armed), Q # <<>>,
             \A c \in Endpoint \ {e} : snd'[c] = snd[c], d => after,
             \/ Head(Q) = "OPEN_ACTIVE" /\ f = "INIT" /\ event = "OPEN_ACTIVE" /\ e = "client"
             \/ /\ Head(Q) = "SEND" /\ event = "SEND"
                /\ f \in {"SYN_SENT", "SYN_RCVD", "ESTABLISHED", "CLOSE_WAIT"}
      PROVE  SocketsFit'
  <2> DEFINE g == NextState(f, event)
  <2>1. \/ Starts(Q) = "OPEN_ACTIVE" /\ f = "INIT" /\ g = "SYN_SENT" /\ e = "client"
        \/ /\ Starts(Q) = "SEND" /\ g = f
           /\ f \in {"SYN_SENT", "SYN_RCVD", "ESTABLISHED", "CLOSE_WAIT"}
    BY <1>1, <1>4 DEF NextState, Moves
  <2>2. EntryTells(f, g, event) = <<>>
    BY <2>1 DEF EntryTells
  <2> HIDE DEF g
  <2>3. SocketFits(e, s, P, Tail(Q), g, after)
    <3> HIDE DEF f, Q, s, P, d, after
    <3> QED
      BY <1>0, <1>4, <2>1, OpenedFits
  <2> QED
    BY <1>2, <1>4, <2>2, <2>3, SocketExecutes DEF g
\* A close or an abort.
<1>5. ASSUME NEW event, NEW sends, NEW armed, Execute(e, event, sends, armed), Q # <<>>,
             \A c \in Endpoint \ {e} : snd'[c] = snd[c], f # "INIT", f # "CLOSED",
             \/ Head(Q) = "ABORT" /\ event = "ABORT"
             \/ Head(Q) = "CLOSE" /\ event = "CLOSE" /\ f \in {"LISTEN", "SYN_SENT"}
             \/ /\ Head(Q) = "CLOSE" /\ event \in {"CLOSE", "IGNORE"} /\ after
                /\ f \in {"SYN_RCVD", "ESTABLISHED", "CLOSE_WAIT"}
      PROVE  SocketsFit'
  <2> DEFINE g == NextState(f, event)
             all == EntryTells(f, g, event)
  <2>1. \/ Head(Q) = "ABORT" /\ g = "CLOSED" /\ all = <<>>
        \/ Head(Q) = "CLOSE" /\ g = "CLOSED" /\ all = <<"CLOSED">> /\ f \in {"LISTEN", "SYN_SENT"}
        \/ /\ Head(Q) = "CLOSE" /\ all = <<>> /\ after
           /\ f \in {"SYN_RCVD", "ESTABLISHED", "CLOSE_WAIT"}
           /\ g \in {f, "FIN_WAIT_1", "LAST_ACK"} /\ (g = "LAST_ACK" => f = "CLOSE_WAIT")
    <3>1. CASE Head(Q) = "ABORT" /\ event = "ABORT"
      <4>1. g = "CLOSED"
        BY <1>5, <3>1 DEF NextState
      <4>2. all = <<>>
        BY <1>5, <3>1, <4>1 DEF EntryTells
      <4> QED
        BY <3>1, <4>1, <4>2
    <3>2. CASE Head(Q) = "CLOSE" /\ event = "CLOSE" /\ f \in {"LISTEN", "SYN_SENT"}
      <4>1. g = "CLOSED"
        BY <3>2 DEF NextState, Moves
      <4>2. all = <<"CLOSED">>
        BY <3>2, <4>1 DEF EntryTells
      <4> QED
        BY <3>2, <4>1, <4>2
    <3>3. CASE /\ Head(Q) = "CLOSE" /\ event \in {"CLOSE", "IGNORE"} /\ after
               /\ f \in {"SYN_RCVD", "ESTABLISHED", "CLOSE_WAIT"}
      <4>1. g \in {f, "FIN_WAIT_1", "LAST_ACK"} /\ (g = "LAST_ACK" => f = "CLOSE_WAIT")
        BY <3>3 DEF NextState, Moves
      <4>2. g # f => g \notin {"CLOSE_WAIT", "TIME_WAIT", "CLOSED"}
        BY <4>1
      <4>3. all = <<>>
        BY <4>2 DEF EntryTells
      <4> QED
        BY <3>3, <4>1, <4>3
    <3> QED
      BY <1>5, <3>1, <3>2, <3>3
  <2> HIDE DEF g, all
  <2>2. /\ all \in Tellings /\ Ends(all) \in {"NOTHING", "CLOSED"}
        /\ Ends(all) = "CLOSED" <=> all = <<"CLOSED">>
    <3>1. Ends(<<>>) = "NOTHING" /\ Ends(<<"CLOSED">>) = "CLOSED" /\ <<>> # <<"CLOSED">>
      BY EmptyQueues, EndsOf
    <3> QED
      BY <2>1, <3>1 DEF Tellings
  <2>3. g \in States \ {"FIN_WAIT_2", "CLOSING", "TIME_WAIT"}
    BY <1>0, <2>1 DEF States
  <2>4. /\ f # "SYN_RCVD" => g \notin Handshake
        /\ g = "ESTABLISHED" => after
        /\ g \in {"CLOSE_WAIT", "LAST_ACK"} => f = "CLOSE_WAIT"
        /\ g \in Handshake \cup HalfClosed \cup {"ESTABLISHED", "CLOSE_WAIT", "LAST_ACK"}
               => Head(Q) = "CLOSE"
    BY <2>1 DEF Handshake, HalfClosed
  <2>5. /\ g = "CLOSED" => Ends(all) = "CLOSED" \/ Head(Q) = "ABORT"
        /\ Ends(all) = "CLOSED" \/ f \in Gone => g = "CLOSED"
    BY <1>5, <2>1, <2>2 DEF Gone
  <2>6. SocketFits(e, s, P \o all, Tail(Q), g, after)
    <3>1. Starts(Q) = Head(Q) /\ Starts(Q) \in {"CLOSE", "ABORT"} /\ f \in States \ {"INIT"}
      BY <1>0, <1>1, <1>5
    <3> HIDE DEF f, Q, s, P, d, after
    <3> QED
      BY <1>0, <1>5, <2>2, <2>3, <2>4, <2>5, <3>1, LeftFits
  <2> QED
    BY <1>5, <2>6, SocketExecutes DEF g, all
<1>6. CASE ProcessOpenActive(e)
  <2>1. /\ Q # <<>> /\ Head(Q) = "OPEN_ACTIVE" /\ f = "INIT"
        /\ Execute(e, "OPEN_ACTIVE", <<"SYN">>, timers[e]) /\ SendSideOf(e, SynNumbered(snd[e]))
    BY <1>6 DEF ProcessOpenActive, TakeCommand
  <2>2. e = "client" /\ ~d
    BY <1>0, <2>1 DEF RoleFits, NumbersFit, Handshake
  <2> QED
    BY <1>3, <1>4, <2>1, <2>2
<1>7. CASE ProcessEarlySend(e)
  <2> DEFINE new == [snd[e] EXCEPT !.queue = EnqueueAppData(@, setup.request)]
  <2>1. /\ Q # <<>> /\ Head(Q) = "SEND" /\ f \in {"SYN_SENT", "SYN_RCVD"}
        /\ Execute(e, "SEND", <<>>, timers[e]) /\ SendSideOf(e, new)
    BY <1>7 DEF ProcessEarlySend, TakeCommand
  <2>2. new.finSeq = snd[e].finSeq
    BY <1>0 DEF SndRecords
  <2> HIDE DEF new
  <2> QED
    BY <1>3, <1>4, <2>1, <2>2
<1>8. CASE ProcessSend(e)
  <2>1. /\ Q # <<>> /\ Head(Q) = "SEND" /\ f \in {"ESTABLISHED", "CLOSE_WAIT"}
        /\ \E sends : /\ Execute(e, "SEND", IF sends THEN <<"SYMBOL">> ELSE <<>>, timers[e])
                      /\ SendSideOf(e, [snd[e] EXCEPT !.started = @ \/ sends])
    BY <1>8 DEF ProcessSend, TakeCommand
  <2>2. PICK new, segments : /\ new.finSeq = snd[e].finSeq /\ SendSideOf(e, new)
                             /\ Execute(e, "SEND", segments, timers[e])
    <3>1. \A b : [snd[e] EXCEPT !.started = @ \/ b].finSeq = snd[e].finSeq
      BY <1>0 DEF SndRecords
    <3> QED
      BY <2>1, <3>1
  <2> QED
    BY <1>3, <1>4, <2>1, <2>2
<1>9. CASE ProcessEarlyClose(e)
  <2>1. /\ Q # <<>> /\ Head(Q) = "CLOSE" /\ f \in {"LISTEN", "SYN_SENT"} /\ snd' = snd
        /\ Execute(e, "CLOSE", <<>>, timers[e])
    BY <1>9 DEF ProcessEarlyClose, TakeCommand
  <2> QED
    BY <1>5, <2>1
<1>10. CASE ProcessClose(e)
  <2>1. /\ Q # <<>> /\ Head(Q) = "CLOSE" /\ f \in {"SYN_RCVD", "ESTABLISHED", "CLOSE_WAIT"}
        /\ SendSideOf(e, AfterClose(snd[e]))
        /\ \E event \in {"CLOSE", "IGNORE"} : \E sends, armed : Execute(e, event, sends, armed)
    BY <1>10 DEF ProcessClose, TakeCommand
  <2>2. after
    <3> DEFINE n == AfterClose(snd[e]).finSeq
    <3>1. snd'[e] = AfterClose(snd[e])
      BY <1>3, <2>1
    <3>2. n = snd[e].queue.end
      BY <1>0, AfterCloseSnd
    <3>3. snd[e].queue.end \in Int /\ snd[e].queue.end >= 1
      BY <1>0 DEF NumbersFit, SndRecords
    <3> QED
      <4> HIDE DEF n
      <4>1. n # 0
        BY <3>2, <3>3
      <4> QED
        BY <3>1, <4>1 DEF n
  <2> HIDE DEF after
  <2> QED
    BY <1>3, <1>5, <2>1, <2>2
<1>11. CASE ProcessAbort(e)
  <2>1. /\ Q # <<>> /\ Head(Q) = "ABORT" /\ f \notin {"INIT", "CLOSED"} /\ snd' = snd
        /\ \E sends : Execute(e, "ABORT", sends, timers[e])
    BY <1>11 DEF ProcessAbort, TakeCommand
  <2> QED
    BY <1>5, <2>1
<1>12. CASE RejectCommand(e)
  BY <1>12, SocketsStay DEF RejectCommand, Fail, connVars, appVars
<1> QED
  BY <1>6, <1>7, <1>8, <1>9, <1>10, <1>11, <1>12 DEF ProcessAppCommand

LEMMA SocketSegment ==
  ASSUME SocketInv, NEW e \in Endpoint, NEW i \in 1 .. Len(wire[e]),
         RcvSegment(e, i) \/ LoseSegment(e, i)
  PROVE  SocketsFit'
<1>0. /\ fsm[e] \in States /\ snd \in [Endpoint -> SndRecords]
      /\ (snd[e].finSeq # 0) \in BOOLEAN /\ (snd'[e].finSeq # 0) \in BOOLEAN
  BY EndpointSocket
<1>1. CASE UNCHANGED connVars /\ UNCHANGED appVars
  BY <1>1, SocketsStay DEF connVars, appVars
<1>2. ASSUME NEW new, snd' = snd \/ SendSideOf(e, new)
      PROVE  \A d \in Endpoint \ {e} : snd'[d] = snd[d]
  BY <1>0, <1>2 DEF SendSideOf
\* A segment of which only the transition is told.
<1>3. ASSUME NEW event, NEW sends, NEW armed, fsm[e] # "CLOSED",
             event \notin {"OPEN_ACTIVE", "ABORT", "RCV_SYN_ACK"},
             event = "CLOSE" => fsm[e] = "CLOSE_WAIT", event = "RCV_ACK" => fsm[e] # "SYN_RCVD",
             snd' = snd \/ (fsm[e] = "LISTEN" /\ SendSideOf(e, SynNumbered(snd[e]))),
             Handle(e, i, event, sends, <<>>, armed)
      PROVE  SocketsFit'
  <2>1. Perform(e, event, <<>>, armed) /\ UNCHANGED <<sockstate, toConn>>
    BY <1>3 DEF Handle
  <2>2. \A d \in Endpoint \ {e} : snd'[d] = snd[d]
    BY <1>2, <1>3
  <2> QED
    BY <1>3, <2>1, <2>2, SilentMoves
\* One that is told for itself, in a state that tells nothing when it is entered.
<1>4. ASSUME NEW event, NEW sends, NEW armed, NEW g, NEW x \in {"ESTABLISHED", "PEER_CLOSED"},
             fsm[e] # "CLOSED", g = NextState(fsm[e], event), EntryTells(fsm[e], g, event) = <<>>,
             \/ x = "ESTABLISHED" /\ fsm[e] \in {"SYN_SENT", "SYN_RCVD"} /\ g = "ESTABLISHED"
             \/ x = "PEER_CLOSED" /\ fsm[e] = "ESTABLISHED" /\ g = "ESTABLISHED" /\ snd' = snd,
             \A d \in Endpoint \ {e} : snd'[d] = snd[d],
             Handle(e, i, event, sends, <<x>>, armed)
      PROVE  SocketsFit'
  <2>1. Perform(e, event, <<x>>, armed) /\ UNCHANGED <<sockstate, toConn>>
    BY <1>4 DEF Handle
  <2>2. <<x>> = <<x>> \o <<>> /\ <<x>> \in Tellings /\ Ends(<<x>>) = x
    BY EndsOf DEF Tellings
  <2>3. Moved(fsm[e], g, x, snd[e].finSeq # 0, snd'[e].finSeq # 0)
    BY <1>4 DEF Moved, Handshake, HalfClosed, Gone
  <2> QED
    BY <1>4, <2>1, <2>2, <2>3, PerformMoves
<1>5. CASE RcvInListen(e, i)
  <2>1. fsm[e] = "LISTEN"
    BY <1>5 DEF RcvInListen
  <2> QED
    BY <1>3, <1>5, <2>1 DEF RcvInListen
<1>6. CASE RcvSynAck(e, i)
  <2>1. /\ fsm[e] = "SYN_SENT"
        /\ \E sends, new :
               /\ Handle(e, i, "RCV_SYN_ACK", sends, <<"ESTABLISHED">>, timers[e])
               /\ SendSideOf(e, new)
    BY <1>6 DEF RcvSynAck
  <2>2. NextState(fsm[e], "RCV_SYN_ACK") = "ESTABLISHED"
    BY <2>1 DEF NextState, Moves
  <2>3. EntryTells(fsm[e], "ESTABLISHED", "RCV_SYN_ACK") = <<>>
    BY <2>1 DEF EntryTells
  <2> QED
    BY <1>2, <1>4, <2>1, <2>2, <2>3
<1>7. CASE RcvInSynSent(e, i)
  <2>0. fsm[e] = "SYN_SENT" /\ snd' = snd
    BY <1>7 DEF RcvInSynSent
  <2>1. CASE Handle(e, i, "RCV_RST", <<>>, <<"CONNECTION_RESET">>, timers[e])
    <3> DEFINE all == <<"CONNECTION_RESET", "CLOSED">>
    <3>1. /\ NextState(fsm[e], "RCV_RST") = "CLOSED"
          /\ EntryTells(fsm[e], "CLOSED", "RCV_RST") = <<"CLOSED">>
      BY <2>0 DEF NextState, Moves, EntryTells
    <3>2. all = <<"CONNECTION_RESET">> \o <<"CLOSED">>
      OBVIOUS
    <3>3. Perform(e, "RCV_RST", <<"CONNECTION_RESET">>, timers[e]) /\ UNCHANGED <<sockstate, toConn>>
      BY <2>1 DEF Handle
    <3>4. all \in Tellings /\ Ends(all) = "CLOSED"
      BY EndsOf DEF Tellings
    <3>5. Moved("SYN_SENT", "CLOSED", "CLOSED", snd[e].finSeq # 0, snd'[e].finSeq # 0)
      BY DEF Moved, Handshake, HalfClosed, Gone
    <3> HIDE DEF all
    <3> QED
      BY <2>0, <3>1, <3>2, <3>3, <3>4, <3>5, PerformMoves
  <2>2. CASE Handle(e, i, "IGNORE", <<>>, <<>>, timers[e])
    BY <1>3, <2>0, <2>2
  <2> QED
    BY <1>7, <2>1, <2>2 DEF RcvInSynSent
<1>8. CASE RcvFin(e, i)
  <2> DEFINE o == FinOutcome(fsm[e], timers[e])
  <2>1. o.tells = <<>> /\ o.event \in {"TIMEOUT_2MSL", "RCV_FIN"}
    BY DEF FinOutcome, Outcome
  <2>2. /\ fsm[e] # "CLOSED" /\ snd' = snd
        /\ Handle(e, i, o.event, o.sends, o.tells, o.timers)
    BY <1>8 DEF RcvFin, HandleOutcome
  <2> HIDE DEF o
  <2> QED
    BY <1>3, <2>1, <2>2
<1>9. CASE RcvClosing(e, i)
  <2> DEFINE o == OtherOutcome(fsm[e], timers[e])
  <2>1. /\ fsm[e] = "SYN_RCVD" => o.event = "RCV_ACK" /\ o.tells = <<"ESTABLISHED">>
        /\ fsm[e] # "SYN_RCVD" => o.tells = <<>>
        /\ o.event \in {"RCV_ACK", "CLOSE", "IGNORE"}
        /\ o.event = "CLOSE" => fsm[e] = "CLOSE_WAIT"
    BY DEF OtherOutcome, Outcome
  <2>2. /\ fsm[e] # "CLOSED" /\ snd' = snd
        /\ Handle(e, i, o.event, o.sends, o.tells, o.timers)
    BY <1>9 DEF RcvClosing, HandleOutcome
  <2> HIDE DEF o
  <2>3. CASE fsm[e] = "SYN_RCVD"
    <3>1. NextState(fsm[e], "RCV_ACK") = "ESTABLISHED"
      BY <2>3 DEF NextState, Moves
    <3>2. EntryTells(fsm[e], "ESTABLISHED", "RCV_ACK") = <<>>
      BY <2>3 DEF EntryTells
    <3> QED
      BY <1>4, <2>1, <2>2, <2>3, <3>1, <3>2
  <2>4. CASE fsm[e] # "SYN_RCVD"
    BY <1>3, <2>1, <2>2, <2>4
  <2> QED
    BY <2>3, <2>4
<1>10. CASE RcvEstablished(e, i)
  <2>0. fsm[e] = "ESTABLISHED" /\ snd' = snd
    BY <1>10 DEF RcvEstablished
  <2>1. NextState("ESTABLISHED", "IGNORE") = "ESTABLISHED"
    BY DEF NextState, Moves
  <2>2. EntryTells("ESTABLISHED", "ESTABLISHED", "IGNORE") = <<>>
    BY DEF EntryTells
  <2>3. \E sends : \/ Handle(e, i, "IGNORE", sends, <<>>, timers[e])
                   \/ Handle(e, i, "IGNORE", sends, <<"PEER_CLOSED">>, timers[e])
    <3>1. CASE received[e] + 1 = Symbols
      BY <1>10, <3>1 DEF RcvEstablished
    <3>2. CASE received[e] + 1 # Symbols
      BY <1>10, <3>2 DEF RcvEstablished
    <3> QED
      BY <3>1, <3>2
  <2> QED
    BY <1>3, <1>4, <2>0, <2>1, <2>2, <2>3
<1>11. CASE RcvUnknown(e, i) \/ RcvAtListener(e, i) \/ RcvWhileClosed(e, i) \/ LoseSegment(e, i)
  BY <1>1, <1>11 DEF RcvUnknown, RcvAtListener, RcvWhileClosed, LoseSegment, Fail
<1> QED
  BY <1>5, <1>6, <1>7, <1>8, <1>9, <1>10, <1>11 DEF RcvSegment

LEMMA SocketTimer ==
  ASSUME SocketInv, NEW e \in Endpoint, TimerFires(e)
  PROVE  SocketsFit'
<1>0. /\ fsm[e] \in States /\ snd \in [Endpoint -> SndRecords] /\ snd[e] \in SndRecords
      /\ (snd[e].finSeq # 0) \in BOOLEAN /\ (snd'[e].finSeq # 0) \in BOOLEAN
      /\ "REXMIT" \in timers[e] => fsm[e] \in Ending \cup Open
  BY EndpointSocket DEF Fits, TimersFit
<1>1. ASSUME NEW timer, NEW event, NEW armed, fsm[e] # "CLOSED",
             event \in {"TIMEOUT_CONN_ESTAB", "TIMEOUT_2MSL", "IGNORE"},
             Expire(e, timer, event, <<>>, armed),
             \A d \in Endpoint \ {e} : snd'[d] = snd[d], snd'[e].finSeq = snd[e].finSeq
      PROVE  SocketsFit'
  <2>1. Perform(e, event, <<>>, armed) /\ UNCHANGED <<sockstate, toConn>>
    BY <1>1 DEF Expire
  <2> QED
    BY <1>1, <2>1, SilentMoves
<1>2. CASE ConnEstabTimeout(e)
  BY <1>1, <1>2 DEF ConnEstabTimeout
<1>3. CASE TimeWaitTimeout(e)
  BY <1>1, <1>3 DEF TimeWaitTimeout
<1>4. CASE RexmitTimeout(e)
  <2>1. fsm[e] \in Ending \cup Open
    BY <1>0, <1>4 DEF RexmitTimeout, Expire, Due
  <2>2. /\ fsm[e] \in States \ {"INIT", "CLOSED", "TIME_WAIT", "SYN_SENT", "SYN_RCVD", "LISTEN"}
    BY <1>0, <2>1 DEF Ending, Open
  <2>3. CASE Expire(e, "REXMIT", "IGNORE", <<>>, timers[e]) /\ AgainOrNothing(e)
    <3>1. \A d \in Endpoint \ {e} : snd'[d] = snd[d]
      BY <1>0, <2>3 DEF AgainOrNothing, SendAgain, SendSideOf
    <3>2. snd'[e].finSeq = snd[e].finSeq
      <4>1. CASE snd' = snd
        BY <4>1
      <4>2. CASE SendSideOf(e, AfterRexmit(setup.algorithm, snd[e]))
        <5>1. snd'[e] = AfterRexmit(setup.algorithm, snd[e])
          BY <1>0, <4>2 DEF SendSideOf
        <5> QED
          BY <1>0, <5>1, AfterRexmitSnd
      <4> QED
        BY <2>3, <4>1, <4>2 DEF AgainOrNothing, SendAgain
    <3> QED
      BY <1>1, <2>2, <2>3, <3>1, <3>2
  <2>4. CASE Expire(e, "REXMIT", "ABORT", <<"TIMED_OUT">>, timers[e] \ {"REXMIT"}) /\ snd' = snd
    <3>1. NextState(fsm[e], "ABORT") = "CLOSED"
      BY <2>2, AbortCloses
    <3>2. EntryTells(fsm[e], "CLOSED", "ABORT") = <<>>
      BY <2>2 DEF EntryTells
    <3>3. /\ <<"TIMED_OUT">> = <<"TIMED_OUT">> \o <<>> /\ <<"TIMED_OUT">> \in Tellings
          /\ Ends(<<"TIMED_OUT">>) = "TIMED_OUT"
      BY EndsOf DEF Tellings
    <3>4. /\ Perform(e, "ABORT", <<"TIMED_OUT">>, timers[e] \ {"REXMIT"})
          /\ UNCHANGED <<sockstate, toConn>>
      BY <2>4 DEF Expire
    <3>5. Moved(fsm[e], "CLOSED", "TIMED_OUT", snd[e].finSeq # 0, snd'[e].finSeq # 0)
      BY <2>2 DEF Moved, Handshake, HalfClosed, Gone
    <3> QED
      BY <2>2, <2>4, <3>1, <3>2, <3>3, <3>4, <3>5, PerformMoves
  <2> QED
    BY <1>4, <2>3, <2>4 DEF RexmitTimeout
<1>5. CASE RexmitFails(e)
  BY <1>5, SocketsStay DEF RexmitFails, Fail, connVars, appVars
<1> QED
  BY <1>2, <1>3, <1>4, <1>5 DEF TimerFires

LEMMA InitSockets == Init => SocketInv
<1> SUFFICES ASSUME Init PROVE SocketInv
  OBVIOUS
<1>1. ASSUME NEW e \in Endpoint
      PROVE  SocketFits(e, sockstate[e], toApp[e], toConn[e], fsm[e], snd[e].finSeq # 0)
  <2>1. /\ sockstate[e] = "BOUND" /\ toApp[e] = <<>> /\ toConn[e] = <<>>
        /\ fsm[e] = IF e = "client" THEN "INIT" ELSE "LISTEN"
    BY <1>1 DEF Init
  <2> DEFINE d == snd[e].finSeq # 0
  <2> HIDE DEF d
  <2>2. /\ OpeningFits(e, "BOUND", <<>>, <<>>, fsm[e])
        /\ ConnectedFits(e, "BOUND", <<>>, <<>>, fsm[e])
        /\ ClosedFits("BOUND", <<>>, <<>>, fsm[e], d)
    BY <1>1, <2>1, EmptyQueues
       DEF OpeningFits, ConnectedFits, ClosedFits, Handshake, Leaving, Endpoint
  <2> QED
    BY <2>1, <2>2 DEF SocketFits, d
<1> QED
  BY <1>1, InitFits DEF SocketInv, SocketsFit

LEMMA SocketKept == SocketInv /\ [Next]_vars => SocketInv'
<1> SUFFICES ASSUME SocketInv, [Next]_vars PROVE SocketsFit'
  BY CloseKept DEF SocketInv
<1>1. CASE UNCHANGED vars
  BY <1>1, SocketsStay DEF vars, connVars, appVars
<1> QED
  BY <1>1, SocketApp, SocketCommand, SocketSegment, SocketTimer DEF Next

\* When no message is between an application and its connection, the socket's state is that
\* of the connection: connecting while the SYN is on its way, connected while data flows,
\* closed when the connection has closed or, if queued bytes defer the FIN, is about to.
THEOREM SocketHolds == Spec => []SocketAgrees
<1>1. SocketInv => SocketAgrees
  <2> SUFFICES ASSUME SocketInv, NEW e \in Endpoint, toApp[e] = <<>>, toConn[e] = <<>>
               PROVE  /\ sockstate[e] = "CONNECTING" => fsm[e] = "SYN_SENT"
                      /\ sockstate[e] = "CONNECTED" => fsm[e] = "ESTABLISHED"
                      /\ sockstate[e] = "LOCALLY_CLOSED" =>
                             fsm[e] \in {"FIN_WAIT_1", "FIN_WAIT_2", "CLOSING"} \cup Deferring(e)
                      /\ sockstate[e] = "CLOSED" =>
                             fsm[e] \notin {"SYN_SENT", "SYN_RCVD", "ESTABLISHED"} \ Deferring(e)
    BY DEF SocketAgrees
  <2>1. SocketFits(e, sockstate[e], <<>>, <<>>, fsm[e], snd[e].finSeq # 0)
    BY EndpointSocket
  <2>2. /\ Ends(<<>>) = "NOTHING" /\ Starts(<<>>) = "NOTHING"
    BY EmptyQueues
  <2>3. snd[e].finSeq # 0 /\ fsm[e] = "ESTABLISHED" => "ESTABLISHED" \in Deferring(e)
    <3>1. NumbersFit(fsm[e], snd[e], finSeqs[e]) /\ snd[e] \in SndRecords
      BY EndpointSocket DEF Fits
    <3>2. snd[e].finSeq \in Int /\ snd[e].queue.end \in Int
      BY <3>1 DEF SndRecords
    <3>3. snd[e].finSeq # 0 /\ fsm[e] = "ESTABLISHED" => snd[e].finSeq > 1
      BY <3>1, <3>2 DEF NumbersFit, Open
    <3> QED
      BY <3>3 DEF Deferring
  <2> QED
    BY <2>1, <2>2, <2>3 DEF SocketFits, OpeningFits, ConnectedFits, ClosedFits, Handshake, HalfClosed
<1> QED
  BY <1>1, InitSockets, SocketKept, PTL DEF Spec

=============================================================================
