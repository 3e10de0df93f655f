------------------------ MODULE PullTransfer_proofs ------------------------
(***************************************************************************)
(* Type correctness of PullTransfer, the pacer's wake-up, and the window:  *)
(* the pull requests stay in order, and no more than the initial window is *)
(* ever outstanding, however packets are lost, trimmed and reordered.      *)
(* Then the end of a transfer, the refinement of TokenTransfer, and, while *)
(* the network only trims, the credit that finishes every transfer.        *)
(***************************************************************************)
EXTENDS PullTransfer, TLAPS, FiniteSetTheorems, SequenceTheorems

LEMMA InitType == Init => TypeOK
<1> SUFFICES ASSUME Init PROVE TypeOK
  OBVIOUS
<1>1. wire \subseteq Segments
  BY DEF Init, Segments, FirstAck
<1>2. requestWire \subseteq Requests
  BY DEF Init
<1>3. pullQueue \in [Conn -> Seq(Nat)] /\ requestCONNMap \in Seq(Conn)
  BY DEF Init
<1>4. counter \in 0 .. Len(requestCONNMap)
  BY DEF Init
<1> QED
  BY <1>1, <1>2, <1>3, <1>4 DEF Init, TypeOK

\* A counter of one connection changes.
LEMMA CounterType ==
  ASSUME NEW f \in [Conn -> Nat], NEW c \in Conn, NEW n \in Nat
  PROVE  [f EXCEPT ![c] = n] \in [Conn -> Nat]
  OBVIOUS

\* A segment that is taken from the wire is of a known connection.
LEMMA WireType ==
  ASSUME TypeOK, NEW p \in wire
  PROVE  /\ p \in Segments
         /\ p.conn \in Conn
         /\ p.ssn \in Nat
         /\ p.kind \in {"ACK", "SYMBOL", "HEADER"}
  BY DEF TypeOK, Segments

\* The symbols a sender adds are segments.
LEMMA NewSymbolsType ==
  ASSUME TypeOK, NEW c \in Conn, NEW k \in Nat
  PROVE  NewSymbols(c, k) \subseteq Segments
<1>1. \A i \in sndEsi[c] + 1 .. sndEsi[c] + k : Symbol(c, i) \in Segments
  BY DEF TypeOK, Symbol, Segments
<1> QED
  BY <1>1 DEF NewSymbols

LEMMA AddRequestType ==
  ASSUME TypeOK, NEW c \in Conn, AddRequestToPullsQueue(c)
  PROVE  /\ rcvRequestId' \in [Conn -> Nat]
         /\ pullQueue' \in [Conn -> Seq(Nat)]
<1>1. Append(pullQueue[c], rcvRequestId[c] + 1) \in Seq(Nat)
  BY DEF TypeOK
<1> QED
  BY <1>1 DEF TypeOK, AddRequestToPullsQueue

LEMMA GrowingMapType ==
  ASSUME TypeOK, NEW c \in Conn,
         requestCONNMap' \in {requestCONNMap, Append(requestCONNMap, c)}, counter' = counter
  PROVE  requestCONNMap' \in Seq(Conn) /\ counter' \in 0 .. Len(requestCONNMap')
<1>1. CASE requestCONNMap' = requestCONNMap
  BY <1>1 DEF TypeOK
<1>2. CASE requestCONNMap' = Append(requestCONNMap, c)
  <2>1. requestCONNMap' \in Seq(Conn) /\ Len(requestCONNMap') = Len(requestCONNMap) + 1
    BY <1>2, AppendProperties DEF TypeOK
  <2> QED
    BY <2>1, LenProperties DEF TypeOK
<1> QED
  BY <1>1, <1>2

LEMMA NextEsiType ==
  ASSUME NEW esi \in Nat, NEW ssn \in Nat, NEW n \in Nat, NEW wanted \in Nat,
         NEW finished \in BOOLEAN
  PROVE  NextEsi(esi, ssn, n, wanted, finished) \in Nat
  BY DEF NextEsi

\* The pacer picks a connection of the map and releases its oldest request.
LEMMA ReleasedRequest ==
  ASSUME TypeOK, ReleaseRequest
  PROVE  \E c \in Conn :
           /\ pullQueue[c] # <<>>
           /\ requestWire' = requestWire \cup {Request(c, Head(pullQueue[c]))}
           /\ pullQueue' = [pullQueue EXCEPT ![c] = Tail(@)]
           /\ counter' \in 0 .. Len(requestCONNMap)
<1>1. PICK k \in 0 .. Len(requestCONNMap) - 1 :
         LET c == requestCONNMap[Slot(k) + 1]
         IN  /\ pullQueue[c] # <<>>
             /\ requestWire' = requestWire \cup {Request(c, Head(pullQueue[c]))}
             /\ pullQueue' = [pullQueue EXCEPT ![c] = Tail(@)]
             /\ counter' = Slot(k) + 1
  BY DEF ReleaseRequest
<1> DEFINE c == requestCONNMap[Slot(k) + 1]
<1> Len(requestCONNMap) \in Nat /\ counter \in 0 .. Len(requestCONNMap)
  BY LenProperties DEF TypeOK
<1>2. Slot(k) \in 0 .. Len(requestCONNMap) - 1
  BY DEF Slot
<1>3. c \in Conn
  <2>1. requestCONNMap \in Seq(Conn)
    BY DEF TypeOK
  <2>2. Slot(k) + 1 \in 1 .. Len(requestCONNMap)
    BY <1>2
  <2> QED
    BY <2>1, <2>2, ElementOfSeq
<1>4. counter' \in 0 .. Len(requestCONNMap)
  BY <1>1, <1>2
<1> QED
  BY <1>1, <1>3, <1>4

LEMMA ReleaseType ==
  ASSUME TypeOK, ReleaseRequest
  PROVE  /\ requestWire' \subseteq Requests
         /\ pullQueue' \in [Conn -> Seq(Nat)]
         /\ counter' \in 0 .. Len(requestCONNMap)
<1>1. PICK c \in Conn :
         /\ pullQueue[c] # <<>>
         /\ requestWire' = requestWire \cup {Request(c, Head(pullQueue[c]))}
         /\ pullQueue' = [pullQueue EXCEPT ![c] = Tail(@)]
         /\ counter' \in 0 .. Len(requestCONNMap)
  BY ReleasedRequest
<1>2. Head(pullQueue[c]) \in Nat /\ Tail(pullQueue[c]) \in Seq(Nat)
  <2>1. pullQueue[c] \in Seq(Nat) /\ pullQueue[c] # <<>>
    BY <1>1 DEF TypeOK
  <2> QED
    BY <2>1, HeadTailProperties
<1>3. Request(c, Head(pullQueue[c])) \in Requests
  BY <1>2 DEF Request, Requests
<1>4. requestWire' \subseteq Requests
  BY <1>1, <1>3 DEF TypeOK
<1>5. pullQueue' \in [Conn -> Seq(Nat)]
  BY <1>1, <1>2 DEF TypeOK
<1> QED
  BY <1>1, <1>4, <1>5

\* Every step keeps the types: one step of the proof per action.
LEMMA NextType == TypeOK /\ [Next]_vars => TypeOK'
<1> SUFFICES ASSUME TypeOK, [Next]_vars PROVE TypeOK'
  OBVIOUS
<1>1. ASSUME NEW c \in Conn, SendInitialWindow(c) PROVE TypeOK'
  <2>1. wire' \subseteq Segments
    BY <1>1, NewSymbolsType, IWAssumption DEF SendInitialWindow, TypeOK
  <2> QED
    BY <1>1, <2>1, IWAssumption DEF SendInitialWindow, TypeOK, dataVars, hostVars
<1>2. ASSUME NEW r \in requestWire, RcvRequest(r) PROVE TypeOK'
  <2> DEFINE gap == RequestsGap(r.seq, sndRequestId[r.conn])
  <2>1. r.conn \in Conn /\ r.seq \in Nat
    BY DEF TypeOK, Requests
  <2>2. gap \in Nat
    BY <2>1 DEF TypeOK, RequestsGap
  <2> HIDE DEF gap
  <2>3. wire' \subseteq Segments
    BY <1>2, <2>1, <2>2, NewSymbolsType DEF RcvRequest, TypeOK, gap
  <2>4. /\ sndEsi' = [sndEsi EXCEPT ![r.conn] = sndEsi[r.conn] + gap]
        /\ sndRequestId' = [sndRequestId EXCEPT ![r.conn] = sndRequestId[r.conn] + gap]
    BY <1>2 DEF RcvRequest, gap
  <2>5. sndEsi' \in [Conn -> Nat] /\ sndRequestId' \in [Conn -> Nat]
    <3>1. sndEsi \in [Conn -> Nat] /\ sndRequestId \in [Conn -> Nat]
      BY DEF TypeOK
    <3>2. sndEsi[r.conn] + gap \in Nat /\ sndRequestId[r.conn] + gap \in Nat
      BY <2>1, <2>2, <3>1
    <3> QED
      BY <2>1, <2>4, <3>1, <3>2, CounterType
  <2> QED
    BY <1>2, <2>3, <2>5 DEF RcvRequest, TypeOK, dataVars, hostVars
<1>3. ASSUME RequestTimerFires PROVE TypeOK'
  <2>1. CASE ReleaseRequest /\ requestTimer' = TRUE /\ nap' = FALSE
    BY <1>3, <2>1, ReleaseType DEF RequestTimerFires, TypeOK, sndVars
  <2>2. CASE requestTimer' = FALSE /\ nap' \in {nap, TRUE}
             /\ UNCHANGED <<counter, pullQueue, requestWire>>
    BY <1>3, <2>2 DEF RequestTimerFires, TypeOK, sndVars
  <2> QED
    BY <1>3, <2>1, <2>2 DEF RequestTimerFires
<1>4. ASSUME NEW g \in Groups, CloseGroup(g) PROVE TypeOK'
  <2>1. connFinished' \in [Conn -> BOOLEAN]
    BY <1>4 DEF CloseGroup, Registered, TypeOK
  <2> QED
    BY <1>4, <2>1 DEF CloseGroup, TypeOK, sndVars, dataVars
<1>5. ASSUME NEW p \in wire, Establish(p) PROVE TypeOK'
  BY <1>5, WireType DEF Establish, TypeOK, sndVars, hostVars
<1>6. ASSUME NEW p \in wire, RcvFirstAck(p) PROVE TypeOK'
  BY <1>6 DEF RcvFirstAck, TypeOK, sndVars, dataVars, hostVars
<1>7. ASSUME NEW p \in wire, RcvHeader(p) PROVE TypeOK'
  <2>1. p.conn \in Conn
    BY WireType
  <2>2. rcvRequestId' \in [Conn -> Nat] /\ pullQueue' \in [Conn -> Seq(Nat)]
    BY <1>7, <2>1, AddRequestType DEF RcvHeader
  <2>3. requestCONNMap' \in Seq(Conn) /\ counter' \in 0 .. Len(requestCONNMap')
    BY <1>7, <2>1, GrowingMapType DEF RcvHeader
  <2>4. requestTimer' \in BOOLEAN
    BY <1>7 DEF RcvHeader, TimerAfter, AllPullQueuesEmpty, TypeOK
  <2> QED
    BY <1>7, <2>2, <2>3, <2>4 DEF RcvHeader, TypeOK, sndVars
<1>8. ASSUME NEW p \in wire, RcvExcessSymbol(p) PROVE TypeOK'
  <2>1. p.conn \in Conn
    BY WireType
  <2>2. /\ rcvEsi' \in [Conn -> Nat]
        /\ numberReceivedSymbols' \in [Conn -> Nat]
        /\ connFinished' \in [Conn -> BOOLEAN]
    <3>1. rcvEsi[p.conn] + 1 \in Nat /\ numberReceivedSymbols[p.conn] + 1 \in Nat
      BY <2>1 DEF TypeOK
    <3>2. /\ rcvEsi' = [rcvEsi EXCEPT ![p.conn] = rcvEsi[p.conn] + 1]
          /\ numberReceivedSymbols' =
                [numberReceivedSymbols EXCEPT ![p.conn] = numberReceivedSymbols[p.conn] + 1]
          /\ connFinished' = [connFinished EXCEPT ![p.conn] = TRUE]
      BY <1>8 DEF RcvExcessSymbol
    <3>3. rcvEsi' \in [Conn -> Nat] /\ numberReceivedSymbols' \in [Conn -> Nat]
      <4>1. rcvEsi \in [Conn -> Nat] /\ numberReceivedSymbols \in [Conn -> Nat]
        BY DEF TypeOK
      <4> QED
        BY <2>1, <3>1, <3>2, <4>1, CounterType
    <3>4. connFinished' \in [Conn -> BOOLEAN]
      BY <3>2 DEF TypeOK
    <3> QED
      BY <3>3, <3>4
  <2>3. requestTimer' \in BOOLEAN
    BY <1>8 DEF RcvExcessSymbol, AllConnFinished, TypeOK
  <2> QED
    BY <1>8, <2>2, <2>3 DEF RcvExcessSymbol, TypeOK, sndVars
<1>9. ASSUME NEW p \in wire, RcvSymbol(p) PROVE TypeOK'
  <2>1. p.conn \in Conn /\ p.ssn \in Nat
    BY WireType
  <2>2. rcvRequestId' \in [Conn -> Nat] /\ pullQueue' \in [Conn -> Seq(Nat)]
    BY <1>9, <2>1, AddRequestType DEF RcvSymbol, TypeOK
  <2>3. requestCONNMap' \in Seq(Conn) /\ counter' \in 0 .. Len(requestCONNMap')
    BY <1>9, <2>1, GrowingMapType DEF RcvSymbol
  <2>4. requestTimer' \in BOOLEAN
    BY <1>9 DEF RcvSymbol, TimerAfter, AllPullQueuesEmpty, TypeOK
  <2>5. NextEsi(rcvEsi[p.conn], p.ssn, numberReceivedSymbols[p.conn] + 1,
                Wanted[p.conn], connFinished[p.conn]) \in Nat
    <3>1. /\ rcvEsi[p.conn] \in Nat
          /\ numberReceivedSymbols[p.conn] + 1 \in Nat
          /\ Wanted[p.conn] \in Nat
          /\ connFinished[p.conn] \in BOOLEAN
      BY <2>1, WantedAssumption DEF TypeOK
    <3> QED
      BY <2>1, <3>1, NextEsiType
  <2>6. rcvEsi' \in [Conn -> Nat]
    BY <1>9, <2>1, <2>5 DEF RcvSymbol, TypeOK
  <2>7. /\ numberReceivedSymbols' \in [Conn -> Nat]
        /\ receivedSymbols' \in [Conn -> Nat]
    <3>1. numberReceivedSymbols[p.conn] + 1 \in Nat /\ receivedSymbols[p.conn] + 1 \in Nat
      <4>1. numberReceivedSymbols \in [Conn -> Nat] /\ receivedSymbols \in [Conn -> Nat]
        BY DEF TypeOK
      <4> QED
        BY <2>1, <4>1
    <3>2. numberReceivedSymbols' =
            [numberReceivedSymbols EXCEPT ![p.conn] = numberReceivedSymbols[p.conn] + 1]
      BY <1>9 DEF RcvSymbol
    <3>3. receivedSymbols' = [receivedSymbols EXCEPT ![p.conn] =
               IF connFinished[p.conn] THEN receivedSymbols[p.conn]
               ELSE receivedSymbols[p.conn] + 1]
      BY <1>9 DEF RcvSymbol
    <3>4. numberReceivedSymbols \in [Conn -> Nat] /\ receivedSymbols \in [Conn -> Nat]
      BY DEF TypeOK
    <3>5. receivedSymbols[p.conn] \in Nat
      BY <2>1, <3>4
    <3>6. CASE connFinished[p.conn]
      BY <2>1, <3>1, <3>2, <3>3, <3>4, <3>5, <3>6, CounterType
    <3>7. CASE ~connFinished[p.conn]
      BY <2>1, <3>1, <3>2, <3>3, <3>4, <3>7, CounterType
    <3> QED
      BY <3>6, <3>7
  <2>8. isfinalReceived' \in [Conn -> BOOLEAN]
    BY <1>9, <2>1 DEF RcvSymbol, IsFinal, TypeOK
  <2> QED
    BY <1>9, <2>2, <2>3, <2>4, <2>6, <2>7, <2>8 DEF RcvSymbol, TypeOK, sndVars
<1>10. ASSUME NEW p \in wire, Trim(p) PROVE TypeOK'
  <2>1. Header(p.conn, p.ssn) \in Segments
    BY WireType DEF Header, Segments
  <2> QED
    BY <1>10, <2>1 DEF Trim, TypeOK, sndVars, dataVars, hostVars
<1>11. ASSUME NEW p \in wire, LoseSegment(p) PROVE TypeOK'
  BY <1>11 DEF LoseSegment, TypeOK, sndVars, dataVars, hostVars
<1>12. ASSUME NEW r \in requestWire, LoseRequest(r) PROVE TypeOK'
  BY <1>12 DEF LoseRequest, TypeOK, sndVars, dataVars, hostVars
<1>13. CASE UNCHANGED vars
  BY <1>13 DEF vars, sndVars, dataVars, hostVars, TypeOK
<1> QED
  BY <1>1, <1>2, <1>3, <1>4, <1>5, <1>6, <1>7, <1>8, <1>9, <1>10, <1>11, <1>12, <1>13
     DEF Next, Endpoints, RcvSegment

\* Every reachable state has the declared types: request and symbol counters are
\* naturals, queues hold numbers, the round robin's position stays on the map.
THEOREM TypeCorrect == Spec => []TypeOK
  BY InitType, NextType, PTL DEF Spec

----------------------------------------------------------------------------
(* The pacer's wake-up.  NoLostWakeup is not inductive: why the timer may be off is  *)
(* needed, and what a connection has done before it is put on the map.               *)

\* The timer is only off when every connection of the map has finished, or in a nap
\* that began with empty queues.
PacerAwake ==
    \/ requestTimer
    \/ AllConnFinished(requestCONNMap, connFinished)
    \/ nap /\ AllPullQueuesEmpty(requestCONNMap, pullQueue)

FreshUntilRegistered ==
    \A c \in Conn :
        ~Registered(c) =>
            /\ numberReceivedSymbols[c] = 0
            /\ rcvEsi[c] = 0
            /\ pullQueue[c] = <<>>
            /\ ~connFinished[c]

SymbolsNumbered == \A p \in wire : p.kind = "SYMBOL" => p.ssn >= 1

PacerInv == TypeOK /\ PacerAwake /\ FreshUntilRegistered /\ SymbolsNumbered

LEMMA InitPacer == Init => PacerInv
<1> SUFFICES ASSUME Init PROVE PacerInv
  OBVIOUS
<1>1. TypeOK
  BY InitType
<1>2. PacerAwake
  BY DEF Init, PacerAwake, AllConnFinished
<1>3. FreshUntilRegistered
  BY DEF Init, FreshUntilRegistered
<1>4. SymbolsNumbered
  BY DEF Init, SymbolsNumbered, FirstAck
<1> QED
  BY <1>1, <1>2, <1>3, <1>4 DEF PacerInv

LEMMA NextSymbolsNumbered == TypeOK /\ SymbolsNumbered /\ [Next]_vars => SymbolsNumbered'
<1> SUFFICES ASSUME TypeOK, SymbolsNumbered, [Next]_vars PROVE SymbolsNumbered'
  OBVIOUS
<1>0. ASSUME NEW c \in Conn, NEW k \in Nat, wire' = wire \cup NewSymbols(c, k)
      PROVE  SymbolsNumbered'
  <2>1. sndEsi[c] \in Nat
    BY DEF TypeOK
  <2>2. \A p \in NewSymbols(c, k) : p.ssn >= 1
    BY <2>1 DEF NewSymbols, Symbol
  <2> QED
    BY <1>0, <2>2 DEF SymbolsNumbered
<1>1. ASSUME NEW c \in Conn, SendInitialWindow(c) PROVE SymbolsNumbered'
  BY <1>0, <1>1, IWAssumption DEF SendInitialWindow
<1>2. ASSUME NEW r \in requestWire, RcvRequest(r) PROVE SymbolsNumbered'
  <2>1. r.conn \in Conn /\ r.seq \in Nat
    BY DEF TypeOK, Requests
  <2>2. RequestsGap(r.seq, sndRequestId[r.conn]) \in Nat
    BY <2>1 DEF TypeOK, RequestsGap
  <2> QED
    BY <1>0, <1>2, <2>1, <2>2 DEF RcvRequest
<1>3. ASSUME NEW p \in wire, RcvSegment(p) \/ LoseSegment(p) PROVE SymbolsNumbered'
  <2>1. wire' = wire \ {p}
    BY <1>3 DEF RcvSegment, Establish, RcvFirstAck, RcvHeader, RcvExcessSymbol, RcvSymbol,
                LoseSegment
  <2> QED
    BY <2>1 DEF SymbolsNumbered
<1>4. ASSUME NEW p \in wire, Trim(p) PROVE SymbolsNumbered'
  BY <1>4 DEF Trim, Header, SymbolsNumbered
<1>5. CASE UNCHANGED wire
  BY <1>5 DEF SymbolsNumbered
<1> QED
  BY <1>1, <1>2, <1>3, <1>4, <1>5
     DEF Next, Endpoints, RequestTimerFires, CloseGroup, LoseRequest, vars

\* The conjuncts about the map only depend on the receiving side.
LEMMA ReceiverUnchanged ==
  ASSUME PacerAwake, FreshUntilRegistered,
         UNCHANGED <<requestTimer, requestCONNMap, connFinished, nap, pullQueue, rcvEsi,
                     numberReceivedSymbols>>
  PROVE  PacerAwake' /\ FreshUntilRegistered'
  BY DEF PacerAwake, FreshUntilRegistered, AllConnFinished, AllPullQueuesEmpty, Registered

\* Putting a connection on the map keeps the others where they are.
LEMMA Registering ==
  ASSUME TypeOK, NEW c \in Conn, requestCONNMap' = Append(requestCONNMap, c)
  PROVE  /\ Len(requestCONNMap') = Len(requestCONNMap) + 1
         /\ Len(requestCONNMap) \in Nat
         /\ \A i \in 1 .. Len(requestCONNMap) : requestCONNMap'[i] = requestCONNMap[i]
         /\ requestCONNMap'[Len(requestCONNMap) + 1] = c
         /\ Registered(c)'
         /\ \A d \in Conn : Registered(d) => Registered(d)'
<1>1. requestCONNMap \in Seq(Conn)
  BY DEF TypeOK
<1>2. Len(requestCONNMap) \in Nat
  BY <1>1, LenProperties
<1>3. /\ Len(requestCONNMap') = Len(requestCONNMap) + 1
      /\ \A i \in 1 .. Len(requestCONNMap) : requestCONNMap'[i] = requestCONNMap[i]
      /\ requestCONNMap'[Len(requestCONNMap) + 1] = c
  BY <1>1, AppendProperties
<1> QED
  BY <1>2, <1>3 DEF Registered

\* A request that a connection on the map adds finds the timer set, a nap to end, or
\* a map on which everything has finished.
LEMMA AddedRequest ==
  ASSUME TypeOK, PacerAwake, NEW registers \in BOOLEAN,
         requestTimer' = TimerAfter(TRUE, registers)
  PROVE  requestTimer' \/ AllConnFinished(requestCONNMap, connFinished)
  BY DEF PacerAwake, TimerAfter


LEMMA HeaderPacer ==
  ASSUME PacerInv, NEW p \in wire, RcvHeader(p)
  PROVE  PacerAwake' /\ FreshUntilRegistered'
<1> DEFINE c == p.conn
<1>1. c \in Conn /\ TypeOK /\ PacerAwake /\ FreshUntilRegistered
  BY WireType DEF PacerInv
<1>2. /\ pullQueue' = [pullQueue EXCEPT ![c] = Append(@, rcvRequestId[c] + 1)]
      /\ UNCHANGED <<connFinished, nap, rcvEsi, numberReceivedSymbols>>
  BY DEF RcvHeader, AddRequestToPullsQueue
<1>3. pullQueue'[c] # <<>>
  <2>1. pullQueue[c] \in Seq(Nat) /\ rcvRequestId[c] + 1 \in Nat
    BY <1>1 DEF TypeOK
  <2>2. pullQueue'[c] = Append(pullQueue[c], rcvRequestId[c] + 1)
    BY <1>1, <1>2 DEF TypeOK
  <2> QED
    BY <2>1, <2>2, AppendProperties
<1>4. CASE numberReceivedSymbols[c] = 0 /\ ~Registered(c)
  <2>1. requestCONNMap' = Append(requestCONNMap, c) /\ requestTimer' = TimerAfter(TRUE, TRUE)
    BY <1>4 DEF RcvHeader
  <2>2. Registered(c)' /\ \A d \in Conn : Registered(d) => Registered(d)'
    BY <1>1, <2>1, Registering
  <2>3. ~AllPullQueuesEmpty(requestCONNMap', pullQueue')
    BY <1>3, <2>2 DEF Registered, AllPullQueuesEmpty
  <2>4. requestTimer'
    BY <2>1, <2>3 DEF TimerAfter
  <2>5. FreshUntilRegistered'
    BY <1>1, <1>2, <2>2 DEF FreshUntilRegistered, TypeOK
  <2> QED
    BY <2>4, <2>5 DEF PacerAwake
<1>5. CASE ~(numberReceivedSymbols[c] = 0 /\ ~Registered(c))
  <2>1. requestCONNMap' = requestCONNMap /\ requestTimer' = TimerAfter(TRUE, FALSE)
    BY <1>5 DEF RcvHeader
  <2>2. Registered(c)
    BY <1>1, <1>5 DEF FreshUntilRegistered
  <2>3. PacerAwake'
    BY <1>1, <1>2, <2>1, AddedRequest DEF PacerAwake
  <2>4. FreshUntilRegistered'
    BY <1>1, <1>2, <2>1, <2>2 DEF FreshUntilRegistered, Registered, TypeOK
  <2> QED
    BY <2>3, <2>4
<1> QED
  BY <1>4, <1>5

\* The transfers of the source want more symbols than the initial window holds.
LargeTransfers == \A c \in Conn : Wanted[c] > IW

\* The first symbol of a large transfer asks for another one.
LEMMA FirstSymbolAsks ==
  ASSUME LargeTransfers, PacerInv, NEW p \in wire, p.kind = "SYMBOL", ~Registered(p.conn)
  PROVE  Asks(numberReceivedSymbols[p.conn] + 1, p.ssn - (rcvEsi[p.conn] + 1),
              Wanted[p.conn], connFinished[p.conn])
<1>1. p.conn \in Conn /\ p.ssn \in Nat
  BY WireType DEF PacerInv
<1>2. p.ssn >= 1
  BY DEF PacerInv, SymbolsNumbered
<1>3. /\ numberReceivedSymbols[p.conn] = 0
      /\ rcvEsi[p.conn] = 0
      /\ ~connFinished[p.conn]
  BY <1>1 DEF PacerInv, FreshUntilRegistered
<1>4. Wanted[p.conn] \in Nat /\ IW \in Nat \ {0} /\ Wanted[p.conn] > IW
  BY <1>1, WantedAssumption, IWAssumption DEF LargeTransfers
<1> QED
  BY <1>1, <1>2, <1>3, <1>4 DEF Asks

LEMMA SymbolPacer ==
  ASSUME LargeTransfers, PacerInv, NEW p \in wire, RcvSymbol(p)
  PROVE  PacerAwake' /\ FreshUntilRegistered'
<1> DEFINE c == p.conn
           n == numberReceivedSymbols[c] + 1
           asks == Asks(n, p.ssn - (rcvEsi[c] + 1), Wanted[c], connFinished[c])
<1>1. c \in Conn /\ TypeOK /\ PacerAwake /\ FreshUntilRegistered
  BY WireType DEF PacerInv
<1>2. /\ \A d \in Conn \ {c} : /\ rcvEsi'[d] = rcvEsi[d]
                               /\ numberReceivedSymbols'[d] = numberReceivedSymbols[d]
                               /\ pullQueue'[d] = pullQueue[d]
      /\ UNCHANGED <<connFinished, nap>>
  BY <1>1 DEF RcvSymbol, AddRequestToPullsQueue, TypeOK
<1>3. CASE n = 1 /\ ~Registered(c)
  <2>1. asks
    BY <1>3, FirstSymbolAsks DEF RcvSymbol
  <2>2. /\ requestCONNMap' = Append(requestCONNMap, c)
        /\ requestTimer' = TimerAfter(asks, TRUE)
        /\ AddRequestToPullsQueue(c)
    BY <1>3, <2>1 DEF RcvSymbol
  <2>3. pullQueue'[c] # <<>>
    <3>1. pullQueue[c] \in Seq(Nat) /\ rcvRequestId[c] + 1 \in Nat
      BY <1>1 DEF TypeOK
    <3>2. pullQueue'[c] = Append(pullQueue[c], rcvRequestId[c] + 1)
      BY <1>1, <2>2 DEF AddRequestToPullsQueue, TypeOK
    <3> QED
      BY <3>1, <3>2, AppendProperties
  <2>4. Registered(c)' /\ \A d \in Conn : Registered(d) => Registered(d)'
    BY <1>1, <2>2, Registering
  <2>5. ~AllPullQueuesEmpty(requestCONNMap', pullQueue')
    BY <2>3, <2>4 DEF Registered, AllPullQueuesEmpty
  <2>6. requestTimer'
    BY <2>2, <2>5 DEF TimerAfter
  <2>7. FreshUntilRegistered'
    BY <1>1, <1>2, <2>4 DEF FreshUntilRegistered
  <2> QED
    BY <2>6, <2>7 DEF PacerAwake
<1>4. CASE ~(n = 1 /\ ~Registered(c))
  <2>1. requestCONNMap' = requestCONNMap /\ requestTimer' = TimerAfter(asks, FALSE)
    BY <1>4 DEF RcvSymbol
  <2>2. Registered(c)
    BY <1>1, <1>4 DEF FreshUntilRegistered
  <2>3. FreshUntilRegistered'
    BY <1>1, <1>2, <2>1, <2>2 DEF FreshUntilRegistered, Registered
  <2>4. CASE asks
    <3>1. requestTimer' = TimerAfter(TRUE, FALSE)
      BY <2>1, <2>4 DEF TimerAfter
    <3> QED
      BY <1>1, <1>2, <2>1, <2>3, <3>1, AddedRequest DEF PacerAwake
  <2>5. CASE ~asks
    <3>1. pullQueue' = pullQueue
      BY <2>5 DEF RcvSymbol
    <3>2. requestTimer' = requestTimer
      BY <1>1, <2>1, <2>5 DEF TimerAfter, TypeOK
    <3>3. UNCHANGED <<requestCONNMap, connFinished, nap>>
      BY <1>2, <2>1
    <3>4. PacerAwake'
      BY <1>1, <3>1, <3>2, <3>3 DEF PacerAwake
    <3> QED
      BY <2>3, <3>4
  <2> QED
    BY <2>4, <2>5
<1> QED
  BY <1>3, <1>4

LEMMA ExcessPacer ==
  ASSUME LargeTransfers, PacerInv, NEW p \in wire, RcvExcessSymbol(p)
  PROVE  PacerAwake' /\ FreshUntilRegistered'
<1> DEFINE c == p.conn
<1>1. c \in Conn /\ TypeOK /\ PacerAwake /\ FreshUntilRegistered
  BY WireType DEF PacerInv
<1>2. Wanted[c] \in Nat \ {0} /\ numberReceivedSymbols[c] \in Nat
  BY <1>1, WantedAssumption, IWAssumption DEF LargeTransfers, TypeOK
<1>3. numberReceivedSymbols[c] # 0
  BY <1>2 DEF RcvExcessSymbol
<1>4. Registered(c)
  BY <1>1, <1>3 DEF FreshUntilRegistered
<1>5. /\ connFinished' = [connFinished EXCEPT ![c] = TRUE]
      /\ requestTimer' = (requestTimer /\ ~AllConnFinished(requestCONNMap, connFinished'))
      /\ UNCHANGED <<requestCONNMap, nap, pullQueue>>
      /\ rcvEsi' = [rcvEsi EXCEPT ![c] = @ + 1]
      /\ numberReceivedSymbols' =
           [numberReceivedSymbols EXCEPT ![c] = numberReceivedSymbols[c] + 1]
  BY DEF RcvExcessSymbol
<1>6. \A d \in Conn : connFinished[d] => connFinished'[d]
  BY <1>1, <1>5 DEF TypeOK
<1>7. AllConnFinished(requestCONNMap, connFinished)
        => AllConnFinished(requestCONNMap, connFinished')
  BY <1>1, <1>6, LenProperties, ElementOfSeq DEF AllConnFinished, TypeOK
<1>8. PacerAwake'
  BY <1>1, <1>5, <1>7 DEF PacerAwake
<1>9. FreshUntilRegistered'
  BY <1>1, <1>4, <1>5 DEF FreshUntilRegistered, Registered, TypeOK
<1> QED
  BY <1>8, <1>9


\* A tick of the pacer: it keeps itself going, naps, or stops when all have finished.
LEMMA TickPacer ==
  ASSUME PacerInv, RequestTimerFires
  PROVE  PacerAwake' /\ FreshUntilRegistered'
<1>1. TypeOK /\ FreshUntilRegistered
  BY DEF PacerInv
<1>2. UNCHANGED <<requestCONNMap, connFinished, rcvEsi, numberReceivedSymbols>>
  BY DEF RequestTimerFires
<1>3. CASE requestTimer' /\ ReleaseRequest
  <2>1. PICK c \in Conn :
           pullQueue[c] # <<>> /\ pullQueue' = [pullQueue EXCEPT ![c] = Tail(@)]
    BY <1>1, <1>3, ReleasedRequest
  <2>2. \A d \in Conn \ {c} : pullQueue'[d] = pullQueue[d]
    BY <1>1, <2>1 DEF TypeOK
  <2>3. FreshUntilRegistered'
    BY <1>1, <1>2, <2>1, <2>2 DEF FreshUntilRegistered, Registered
  <2> QED
    BY <1>3, <2>3 DEF PacerAwake
<1>4. CASE UNCHANGED pullQueue /\
           \/ AllConnFinished(requestCONNMap, connFinished)
           \/ nap' /\ AllPullQueuesEmpty(requestCONNMap, pullQueue)
  <2>1. PacerAwake'
    BY <1>2, <1>4 DEF PacerAwake
  <2>2. FreshUntilRegistered'
    BY <1>1, <1>2, <1>4 DEF FreshUntilRegistered, Registered
  <2> QED
    BY <2>1, <2>2
<1> QED
  BY <1>3, <1>4 DEF RequestTimerFires

LEMMA CloseGroupPacer ==
  ASSUME PacerInv, NEW g \in Groups, CloseGroup(g)
  PROVE  PacerAwake' /\ FreshUntilRegistered'
<1>1. TypeOK /\ PacerAwake /\ FreshUntilRegistered
  BY DEF PacerInv
<1>2. /\ connFinished' = [c \in Conn |-> connFinished[c] \/ (c \in g /\ Registered(c))]
      /\ UNCHANGED <<requestCONNMap, requestTimer, nap, pullQueue, rcvEsi,
                     numberReceivedSymbols>>
  BY DEF CloseGroup, dataVars
<1>3. \A d \in Conn : /\ connFinished[d] => connFinished'[d]
                      /\ ~Registered(d) /\ ~connFinished[d] => ~connFinished'[d]
  BY <1>2
<1>4. AllConnFinished(requestCONNMap, connFinished)
        => AllConnFinished(requestCONNMap, connFinished')
  BY <1>1, <1>3, LenProperties, ElementOfSeq DEF AllConnFinished, TypeOK
<1>5. PacerAwake'
  BY <1>1, <1>2, <1>4 DEF PacerAwake
<1>6. FreshUntilRegistered'
  BY <1>1, <1>2, <1>3 DEF FreshUntilRegistered, Registered
<1> QED
  BY <1>5, <1>6

LEMMA NextPacer == LargeTransfers /\ PacerInv /\ [Next]_vars => PacerInv'
<1> SUFFICES ASSUME LargeTransfers, PacerInv, [Next]_vars
             PROVE  PacerAwake' /\ FreshUntilRegistered'
  BY NextType, NextSymbolsNumbered DEF PacerInv
<1> PacerAwake /\ FreshUntilRegistered
  BY DEF PacerInv
<1>1. ASSUME NEW c \in Conn, SendInitialWindow(c) PROVE PacerAwake' /\ FreshUntilRegistered'
  BY <1>1, ReceiverUnchanged DEF SendInitialWindow, dataVars, hostVars
<1>2. ASSUME NEW r \in requestWire, RcvRequest(r) PROVE PacerAwake' /\ FreshUntilRegistered'
  BY <1>2, ReceiverUnchanged DEF RcvRequest, dataVars, hostVars
<1>3. ASSUME NEW p \in wire, Establish(p) PROVE PacerAwake' /\ FreshUntilRegistered'
  BY <1>3, ReceiverUnchanged DEF Establish, hostVars
<1>4. ASSUME NEW p \in wire, RcvFirstAck(p) \/ Trim(p) \/ LoseSegment(p)
      PROVE  PacerAwake' /\ FreshUntilRegistered'
  BY <1>4, ReceiverUnchanged DEF RcvFirstAck, Trim, LoseSegment, dataVars, hostVars
<1>5. ASSUME NEW r \in requestWire, LoseRequest(r)
      PROVE  PacerAwake' /\ FreshUntilRegistered'
  BY <1>5, ReceiverUnchanged DEF LoseRequest, dataVars, hostVars
<1>6. CASE UNCHANGED vars
  BY <1>6, ReceiverUnchanged DEF vars, dataVars, hostVars
<1> QED
  BY <1>1, <1>2, <1>3, <1>4, <1>5, <1>6, HeaderPacer, SymbolPacer, ExcessPacer, TickPacer,
     CloseGroupPacer DEF Next, Endpoints, RcvSegment

\* When every transfer is larger than the initial window, as in the source, the pacer's
\* timer is set whenever an unfinished connection on the map has a queued request.
THEOREM PacerNeverSleepsOnRequest ==
  ASSUME LargeTransfers
  PROVE  Spec => []NoLostWakeup
<1>1. PacerInv => NoLostWakeup
  BY DEF PacerInv, PacerAwake, NoLostWakeup, Registered, AllConnFinished, AllPullQueuesEmpty
<1>2. PacerInv /\ [Next]_vars => PacerInv'
  BY NextPacer
<1> QED
  BY <1>1, <1>2, InitPacer, PTL DEF Spec

----------------------------------------------------------------------------
(* The order of the requests, and the window.                              *)

\* Before its initial window is sent a connection has sent and asked for nothing.
QuietBeforeStart ==
    \A c \in Conn :
        sndEsi[c] = 0 => DataOf(c) = {} /\ rcvRequestId[c] = 0 /\ sndRequestId[c] = 0

\* The part of WindowBound that counts requests too; the rest follows from the order.
CreditBound == \A c \in Conn : Outstanding(c) <= IW

WindowInv ==
    /\ TypeOK
    /\ IsFiniteSet(wire)
    /\ QuietBeforeStart
    /\ PullsInOrder
    /\ CreditBound

LEMMA DataFinite ==
  ASSUME IsFiniteSet(wire), NEW c \in Conn
  PROVE  IsFiniteSet(DataOf(c)) /\ Cardinality(DataOf(c)) \in Nat
<1>1. DataOf(c) \in SUBSET wire
  BY DEF DataOf
<1> QED
  BY <1>1, FS_Subset, FS_CardinalityType

LEMMA IntervalCount ==
  ASSUME NEW a \in Nat, NEW k \in Nat
  PROVE  IsFiniteSet(a + 1 .. a + k) /\ Cardinality(a + 1 .. a + k) = k
<1> DEFINE first == a + 1
           last == a + k
<1>1. first \in Int /\ last \in Int
  OBVIOUS
<1>2. first > last => k = 0
  OBVIOUS
<1>3. last - first + 1 = k
  OBVIOUS
<1> HIDE DEF first, last
<1>4. /\ IsFiniteSet(first .. last)
      /\ Cardinality(first .. last) = IF first > last THEN 0 ELSE last - first + 1
  BY <1>1, FS_Interval
<1>5. IsFiniteSet(first .. last) /\ Cardinality(first .. last) = k
  BY <1>2, <1>3, <1>4
<1> QED
  BY <1>5 DEF first, last

\* Sending k symbols puts at most k segments on the wire.
LEMMA NewSymbolsCount ==
  ASSUME TypeOK, NEW c \in Conn, NEW k \in Nat
  PROVE  IsFiniteSet(NewSymbols(c, k)) /\ Cardinality(NewSymbols(c, k)) <= k
<1> DEFINE I == sndEsi[c] + 1 .. sndEsi[c] + k
           f == [i \in I |-> Symbol(c, i)]
<1>1. sndEsi[c] \in Nat
  BY DEF TypeOK
<1>2. IsFiniteSet(I) /\ Cardinality(I) = k
  BY <1>1, IntervalCount
<1>3. f \in Surjection(I, NewSymbols(c, k))
  BY DEF NewSymbols, Surjection
<1>4. IsFiniteSet(NewSymbols(c, k)) /\ Cardinality(NewSymbols(c, k)) <= Cardinality(I)
  BY <1>2, <1>3, FS_Surjection
<1> QED
  BY <1>2, <1>4

LEMMA NewSymbolsData ==
  ASSUME TypeOK, IsFiniteSet(wire), NEW c \in Conn, NEW k \in Nat,
         wire' = wire \cup NewSymbols(c, k)
  PROVE  /\ IsFiniteSet(wire')
         /\ \A d \in Conn \ {c} : DataOf(d)' = DataOf(d)
         /\ Cardinality(DataOf(c)') \in Nat
         /\ Cardinality(DataOf(c)') <= Cardinality(DataOf(c)) + k
<1> DEFINE S == NewSymbols(c, k)
<1>1. IsFiniteSet(S) /\ Cardinality(S) <= k
  BY NewSymbolsCount
<1>2. \A p \in S : p.conn = c /\ p.kind = "SYMBOL"
  BY DEF NewSymbols, Symbol
<1>3. DataOf(c)' = DataOf(c) \cup S /\ \A d \in Conn \ {c} : DataOf(d)' = DataOf(d)
  BY <1>2 DEF DataOf
<1>4. IsFiniteSet(DataOf(c)) /\ Cardinality(DataOf(c)) \in Nat
  BY DataFinite
<1>5. /\ IsFiniteSet(DataOf(c) \cup S)
      /\ Cardinality(DataOf(c) \cup S)
           = Cardinality(DataOf(c)) + Cardinality(S) - Cardinality(DataOf(c) \cap S)
  BY <1>1, <1>4, FS_Union
<1>6. /\ Cardinality(DataOf(c) \cap S) \in Nat
      /\ Cardinality(S) \in Nat
      /\ Cardinality(DataOf(c) \cup S) \in Nat
  BY <1>1, <1>4, <1>5, FS_Intersection, FS_CardinalityType
<1>7. IsFiniteSet(wire')
  BY <1>1, FS_Union
<1> HIDE DEF S
<1> QED
  BY <1>1, <1>3, <1>4, <1>5, <1>6, <1>7

\* Taking a segment of c from the wire leaves one less if it carried data.
LEMMA TakenData ==
  ASSUME IsFiniteSet(wire), NEW p \in wire, wire' = wire \ {p}
  PROVE  /\ IsFiniteSet(wire')
         /\ \A c \in Conn :
              /\ DataOf(c)' \subseteq DataOf(c)
              /\ Cardinality(DataOf(c)') \in Nat
              /\ Cardinality(DataOf(c)') <= Cardinality(DataOf(c))
              /\ p \in DataOf(c) => Cardinality(DataOf(c)') = Cardinality(DataOf(c)) - 1
<1>1. IsFiniteSet(wire')
  BY FS_RemoveElement
<1>2. ASSUME NEW c \in Conn
      PROVE  /\ DataOf(c)' \subseteq DataOf(c)
             /\ Cardinality(DataOf(c)') \in Nat
             /\ Cardinality(DataOf(c)') <= Cardinality(DataOf(c))
             /\ p \in DataOf(c) => Cardinality(DataOf(c)') = Cardinality(DataOf(c)) - 1
  <2>1. DataOf(c)' = DataOf(c) \ {p}
    BY DEF DataOf
  <2>2. IsFiniteSet(DataOf(c)) /\ Cardinality(DataOf(c)) \in Nat
    BY DataFinite
  <2>3. /\ IsFiniteSet(DataOf(c) \ {p})
        /\ Cardinality(DataOf(c) \ {p})
             = IF p \in DataOf(c) THEN Cardinality(DataOf(c)) - 1 ELSE Cardinality(DataOf(c))
    BY <2>2, FS_RemoveElement
  <2>4. Cardinality(DataOf(c) \ {p}) \in Nat
    BY <2>3, FS_CardinalityType
  <2> QED
    BY <2>1, <2>2, <2>3, <2>4
<1> QED
  BY <1>1, <1>2

\* A trimmed symbol still counts, once.
LEMMA TrimmedData ==
  ASSUME TypeOK, IsFiniteSet(wire), NEW p \in wire, Trim(p)
  PROVE  /\ IsFiniteSet(wire')
         /\ \A c \in Conn :
              /\ DataOf(c) = {} => DataOf(c)' = {}
              /\ Cardinality(DataOf(c)') \in Nat
              /\ Cardinality(DataOf(c)') <= Cardinality(DataOf(c))
<1> DEFINE h == Header(p.conn, p.ssn)
<1>1. wire' = (wire \ {p}) \cup {h} /\ h.conn = p.conn /\ h.kind = "HEADER" /\ p.kind = "SYMBOL"
  BY DEF Trim, Header
<1>2. IsFiniteSet(wire')
  BY <1>1, FS_RemoveElement, FS_AddElement
<1>3. ASSUME NEW c \in Conn
      PROVE  /\ DataOf(c) = {} => DataOf(c)' = {}
             /\ Cardinality(DataOf(c)') \in Nat
             /\ Cardinality(DataOf(c)') <= Cardinality(DataOf(c))
  <2>1. IsFiniteSet(DataOf(c)) /\ Cardinality(DataOf(c)) \in Nat
    BY DataFinite
  <2>2. CASE p.conn = c
    <3>1. p \in DataOf(c) /\ DataOf(c)' = (DataOf(c) \ {p}) \cup {h}
      BY <1>1, <2>2 DEF DataOf
    <3>2. /\ IsFiniteSet(DataOf(c) \ {p})
          /\ Cardinality(DataOf(c) \ {p}) = Cardinality(DataOf(c)) - 1
      BY <2>1, <3>1, FS_RemoveElement
    <3>3. /\ IsFiniteSet((DataOf(c) \ {p}) \cup {h})
          /\ \/ Cardinality((DataOf(c) \ {p}) \cup {h}) = Cardinality(DataOf(c) \ {p})
             \/ Cardinality((DataOf(c) \ {p}) \cup {h}) = Cardinality(DataOf(c) \ {p}) + 1
      BY <3>2, FS_AddElement
    <3>4. Cardinality((DataOf(c) \ {p}) \cup {h}) \in Nat
      BY <3>3, FS_CardinalityType
    <3> HIDE DEF h
    <3> QED
      BY <2>1, <3>1, <3>2, <3>3, <3>4
  <2>3. CASE p.conn # c
    <3>1. DataOf(c)' = DataOf(c)
      BY <1>1, <2>3 DEF DataOf
    <3> QED
      BY <2>1, <3>1
  <2> QED
    BY <2>2, <2>3
<1> QED
  BY <1>2, <1>3

----------------------------------------------------------------------------
(* The order of the requests. *)

\* The order and the window of one connection, to be proved connection by connection.
OrderOf(c) ==
    LET released == rcvRequestId[c] - Len(pullQueue[c])
    IN  /\ \A i \in 1 .. Len(pullQueue[c]) : pullQueue[c][i] = released + i
        /\ sndRequestId[c] <= released
        /\ \A r \in requestWire : r.conn = c => r.seq <= released

\* A connection whose requests are where they were keeps its order.
LEMMA SameOrder ==
  ASSUME PullsInOrder, NEW c \in Conn,
         rcvRequestId'[c] = rcvRequestId[c],
         pullQueue'[c] = pullQueue[c],
         sndRequestId'[c] = sndRequestId[c],
         \A r \in requestWire' : r.conn = c => r \in requestWire
  PROVE  OrderOf(c)'
  BY DEF PullsInOrder, OrderOf

LEMMA AddedOrder ==
  ASSUME TypeOK, PullsInOrder, NEW c \in Conn, AddRequestToPullsQueue(c),
         UNCHANGED <<requestWire, sndRequestId>>
  PROVE  \A d \in Conn : OrderOf(d)'
<1> DEFINE q == pullQueue[c]
           n == rcvRequestId[c]
<1>1. q \in Seq(Nat) /\ n \in Nat /\ Len(q) \in Nat
  BY LenProperties DEF TypeOK
<1>2. pullQueue'[c] = Append(q, n + 1) /\ rcvRequestId'[c] = n + 1
  BY DEF AddRequestToPullsQueue, TypeOK
<1>3. /\ Len(Append(q, n + 1)) = Len(q) + 1
      /\ \A i \in 1 .. Len(q) : Append(q, n + 1)[i] = q[i]
      /\ Append(q, n + 1)[Len(q) + 1] = n + 1
  BY <1>1, AppendProperties
<1>4. /\ \A i \in 1 .. Len(q) : q[i] = n - Len(q) + i
      /\ sndRequestId[c] <= n - Len(q)
      /\ \A r \in requestWire : r.conn = c => r.seq <= n - Len(q)
  BY DEF PullsInOrder
<1> HIDE DEF q, n
<1>5. rcvRequestId'[c] - Len(pullQueue'[c]) = n - Len(q)
  BY <1>1, <1>2, <1>3
<1>6. ASSUME NEW i \in 1 .. Len(q) + 1
      PROVE  Append(q, n + 1)[i] = n - Len(q) + i
  BY <1>1, <1>3, <1>4
<1>7. OrderOf(c)'
  BY <1>2, <1>3, <1>4, <1>5, <1>6 DEF OrderOf
<1>8. ASSUME NEW d \in Conn \ {c} PROVE OrderOf(d)'
  <2>1. pullQueue'[d] = pullQueue[d] /\ rcvRequestId'[d] = rcvRequestId[d]
    BY DEF AddRequestToPullsQueue, TypeOK
  <2> QED
    BY <2>1, SameOrder
<1> QED
  BY <1>7, <1>8

LEMMA ReleaseOrder ==
  ASSUME TypeOK, PullsInOrder, ReleaseRequest, UNCHANGED <<rcvRequestId, sndRequestId>>
  PROVE  \A d \in Conn : OrderOf(d)'
<1>1. PICK c \in Conn :
         /\ pullQueue[c] # <<>>
         /\ requestWire' = requestWire \cup {Request(c, Head(pullQueue[c]))}
         /\ pullQueue' = [pullQueue EXCEPT ![c] = Tail(@)]
  BY ReleasedRequest
<1> DEFINE q == pullQueue[c]
           n == rcvRequestId[c]
<1>3. q \in Seq(Nat) /\ n \in Nat /\ q # <<>> /\ Len(q) \in Nat
  BY <1>1, LenProperties DEF TypeOK
<1>4. /\ Len(Tail(q)) = Len(q) - 1
      /\ \A i \in 1 .. Len(Tail(q)) : Tail(q)[i] = q[i + 1]
      /\ Head(q) = q[1]
      /\ 1 \in 1 .. Len(q)
  BY <1>3, HeadTailProperties, EmptySeq
<1>5. /\ \A i \in 1 .. Len(q) : q[i] = n - Len(q) + i
      /\ sndRequestId[c] <= n - Len(q)
      /\ \A r \in requestWire : r.conn = c => r.seq <= n - Len(q)
  BY DEF PullsInOrder
<1>6. /\ pullQueue'[c] = Tail(q) /\ rcvRequestId'[c] = n
      /\ sndRequestId'[c] = sndRequestId[c]
      /\ requestWire' = requestWire \cup {Request(c, Head(q))}
      /\ \A d \in Conn \ {c} : pullQueue'[d] = pullQueue[d]
  BY <1>1 DEF TypeOK
<1>7. Request(c, Head(q)).conn = c /\ Request(c, Head(q)).seq = Head(q)
  BY DEF Request
<1>8. \A r \in requestWire : r.seq \in Nat
  BY DEF TypeOK, Requests
<1>9. sndRequestId[c] \in Nat
  BY DEF TypeOK
<1>10. OrderOf(c)'
  <2> HIDE DEF q, n
  <2>1. n - Len(Tail(q)) = n - Len(q) + 1
    BY <1>3, <1>4
  <2>2. \A i \in 1 .. Len(Tail(q)) : Tail(q)[i] = n - Len(Tail(q)) + i
    BY <1>3, <1>4, <1>5
  <2>3. sndRequestId[c] <= n - Len(Tail(q))
    BY <1>3, <1>5, <1>9, <2>1
  <2>4. Head(q) <= n - Len(Tail(q))
    BY <1>3, <1>4, <1>5, <2>1
  <2>5. \A r \in requestWire' : r.conn = c => r.seq <= n - Len(Tail(q))
    BY <1>3, <1>5, <1>6, <1>7, <1>8, <2>1, <2>4
  <2> QED
    BY <1>6, <2>2, <2>3, <2>5 DEF OrderOf
<1>11. ASSUME NEW d \in Conn \ {c} PROVE OrderOf(d)'
  <2>1. \A r \in requestWire' : r.conn = d => r \in requestWire
    BY <1>6, <1>7
  <2> QED
    BY <1>6, <2>1, SameOrder
<1> QED
  BY <1>10, <1>11

\* Answering a request moves the sender up to it, which is behind the queue.
LEMMA AnswerOrder ==
  ASSUME TypeOK, PullsInOrder, NEW r \in requestWire, RcvRequest(r)
  PROVE  \A d \in Conn : OrderOf(d)'
<1> DEFINE c == r.conn
           gap == RequestsGap(r.seq, sndRequestId[c])
<1>1. c \in Conn /\ r.seq \in Nat
  BY DEF TypeOK, Requests
<1>2. /\ requestWire' = requestWire \ {r}
      /\ sndRequestId' = [sndRequestId EXCEPT ![c] = @ + gap]
      /\ UNCHANGED <<rcvRequestId, pullQueue>>
  BY DEF RcvRequest, dataVars
<1>3. sndRequestId'[c] = sndRequestId[c] \/ sndRequestId'[c] = r.seq
  BY <1>1, <1>2 DEF RequestsGap, TypeOK
<1>4. OrderOf(c)'
  BY <1>1, <1>2, <1>3 DEF PullsInOrder, OrderOf
<1>5. ASSUME NEW d \in Conn \ {c} PROVE OrderOf(d)'
  BY <1>2, SameOrder DEF TypeOK
<1> QED
  BY <1>4, <1>5

LEMMA NextOrder == TypeOK /\ PullsInOrder /\ [Next]_vars => PullsInOrder'
<1> SUFFICES ASSUME TypeOK, PullsInOrder, [Next]_vars PROVE \A d \in Conn : OrderOf(d)'
  BY DEF PullsInOrder, OrderOf
<1>0. ASSUME UNCHANGED <<rcvRequestId, pullQueue>>, requestWire' \subseteq requestWire,
             sndRequestId' = sndRequestId
      PROVE  \A d \in Conn : OrderOf(d)'
  BY <1>0, SameOrder
<1>1. ASSUME NEW c \in Conn, SendInitialWindow(c) PROVE \A d \in Conn : OrderOf(d)'
  <2>1. /\ sndRequestId' = [sndRequestId EXCEPT ![c] = 0]
        /\ UNCHANGED <<requestWire, rcvRequestId, pullQueue>>
    BY <1>1 DEF SendInitialWindow, dataVars
  <2>2. ASSUME NEW d \in Conn \ {c} PROVE OrderOf(d)'
    BY <2>1, SameOrder DEF TypeOK
  <2>3. OrderOf(c)
    BY DEF PullsInOrder, OrderOf
  <2>4. sndRequestId'[c] <= rcvRequestId[c] - Len(pullQueue[c])
    <3>1. /\ sndRequestId'[c] = 0 /\ sndRequestId[c] \in Nat /\ rcvRequestId[c] \in Nat
          /\ Len(pullQueue[c]) \in Nat
      BY <2>1, LenProperties DEF TypeOK
    <3> QED
      BY <2>3, <3>1 DEF OrderOf
  <2>5. OrderOf(c)'
    BY <2>1, <2>3, <2>4 DEF OrderOf
  <2> QED
    BY <2>2, <2>5
<1>2. ASSUME NEW r \in requestWire, RcvRequest(r) PROVE \A d \in Conn : OrderOf(d)'
  BY <1>2, AnswerOrder
<1>3. ASSUME RequestTimerFires PROVE \A d \in Conn : OrderOf(d)'
  <2>1. UNCHANGED <<rcvRequestId, sndRequestId>>
    BY <1>3 DEF RequestTimerFires, sndVars
  <2>2. CASE ReleaseRequest
    BY <2>1, <2>2, ReleaseOrder
  <2>3. CASE UNCHANGED <<pullQueue, requestWire>>
    BY <1>0, <2>1, <2>3
  <2> QED
    BY <1>3, <2>2, <2>3 DEF RequestTimerFires
<1>4. ASSUME NEW p \in wire, RcvHeader(p) PROVE \A d \in Conn : OrderOf(d)'
  BY <1>4, WireType, AddedOrder DEF RcvHeader, sndVars
<1>5. ASSUME NEW p \in wire, RcvSymbol(p) PROVE \A d \in Conn : OrderOf(d)'
  <2>1. UNCHANGED <<sndRequestId, requestWire>>
    BY <1>5 DEF RcvSymbol, sndVars
  <2>2. AddRequestToPullsQueue(p.conn) \/ UNCHANGED <<rcvRequestId, pullQueue>>
    BY <1>5 DEF RcvSymbol
  <2> QED
    BY <1>0, <2>1, <2>2, WireType, AddedOrder
<1>6. ASSUME NEW p \in wire,
             Establish(p) \/ RcvFirstAck(p) \/ RcvExcessSymbol(p) \/ Trim(p) \/ LoseSegment(p)
      PROVE  \A d \in Conn : OrderOf(d)'
  BY <1>0, <1>6 DEF Establish, RcvFirstAck, RcvExcessSymbol, Trim, LoseSegment, sndVars,
                    dataVars
<1>7. ASSUME NEW g \in Groups, CloseGroup(g) PROVE \A d \in Conn : OrderOf(d)'
  BY <1>0, <1>7 DEF CloseGroup, sndVars, dataVars
<1>8. ASSUME NEW r \in requestWire, LoseRequest(r) PROVE \A d \in Conn : OrderOf(d)'
  BY <1>0, <1>8 DEF LoseRequest, sndVars, dataVars
<1>9. CASE UNCHANGED vars
  BY <1>0, <1>9 DEF vars, sndVars, dataVars
<1> QED
  BY <1>1, <1>2, <1>3, <1>4, <1>5, <1>6, <1>7, <1>8, <1>9 DEF Next, Endpoints, RcvSegment

----------------------------------------------------------------------------
(* The window. *)

\* What the window invariant says of one connection.
WindowOf(c) ==
    /\ sndEsi[c] = 0 => DataOf(c) = {} /\ rcvRequestId[c] = 0 /\ sndRequestId[c] = 0
    /\ Outstanding(c) <= IW

LEMMA WindowByConnection ==
  ASSUME TypeOK', IsFiniteSet(wire'), PullsInOrder', \A c \in Conn : WindowOf(c)'
  PROVE  WindowInv'
  BY DEF WindowInv, QuietBeforeStart, CreditBound, WindowOf

\* Losing data without asking for more never opens the window.
LEMMA LessWindow ==
  ASSUME WindowInv, NEW d \in Conn,
         sndEsi'[d] = sndEsi[d],
         sndRequestId'[d] = sndRequestId[d],
         rcvRequestId'[d] = rcvRequestId[d],
         DataOf(d) = {} => DataOf(d)' = {},
         Cardinality(DataOf(d)') \in Nat,
         Cardinality(DataOf(d)') <= Cardinality(DataOf(d))
  PROVE  WindowOf(d)'
<1>1. /\ sndEsi[d] \in Nat /\ sndRequestId[d] \in Nat /\ rcvRequestId[d] \in Nat
      /\ Cardinality(DataOf(d)) \in Nat
      /\ IW \in Nat
  BY DataFinite, IWAssumption DEF WindowInv, TypeOK
<1>2. Outstanding(d) <= IW
  BY DEF WindowInv, CreditBound
<1>3. Outstanding(d)' <= IW
  BY <1>1, <1>2 DEF Outstanding
<1>4. sndEsi[d] = 0 => DataOf(d) = {} /\ rcvRequestId[d] = 0 /\ sndRequestId[d] = 0
  BY DEF WindowInv, QuietBeforeStart
<1> QED
  BY <1>3, <1>4 DEF WindowOf

LEMMA SameWindow ==
  ASSUME WindowInv, NEW d \in Conn,
         sndEsi'[d] = sndEsi[d],
         sndRequestId'[d] = sndRequestId[d],
         rcvRequestId'[d] = rcvRequestId[d],
         DataOf(d)' = DataOf(d)
  PROVE  WindowOf(d)'
<1>1. Cardinality(DataOf(d)) \in Nat
  BY DataFinite DEF WindowInv
<1> QED
  BY <1>1, LessWindow

LEMMA StartWindow ==
  ASSUME WindowInv, NEW c \in Conn, SendInitialWindow(c)
  PROVE  IsFiniteSet(wire') /\ \A d \in Conn : WindowOf(d)'
<1>1. TypeOK /\ IsFiniteSet(wire)
  BY DEF WindowInv
<1>2. /\ sndEsi[c] = 0
      /\ wire' = wire \cup NewSymbols(c, IW)
      /\ sndEsi' = [sndEsi EXCEPT ![c] = IW]
      /\ sndRequestId' = [sndRequestId EXCEPT ![c] = 0]
      /\ rcvRequestId' = rcvRequestId
  BY DEF SendInitialWindow, dataVars
<1>3. DataOf(c) = {} /\ rcvRequestId[c] = 0
  BY <1>2 DEF WindowInv, QuietBeforeStart
<1>4. IW \in Nat \ {0}
  BY IWAssumption
<1>5. /\ IsFiniteSet(wire')
      /\ \A d \in Conn \ {c} : DataOf(d)' = DataOf(d)
      /\ Cardinality(DataOf(c)') <= Cardinality(DataOf(c)) + IW
      /\ Cardinality(DataOf(c)') \in Nat
  BY <1>1, <1>2, <1>4, NewSymbolsData
<1>6. Cardinality(DataOf(c)) = 0
  BY <1>3, FS_EmptySet
<1>7. sndEsi'[c] = IW /\ sndRequestId'[c] = 0 /\ rcvRequestId'[c] = 0
  BY <1>1, <1>2, <1>3 DEF TypeOK
<1>8. WindowOf(c)'
  BY <1>4, <1>5, <1>6, <1>7 DEF WindowOf, Outstanding
<1>9. ASSUME NEW d \in Conn \ {c} PROVE WindowOf(d)'
  <2>1. sndEsi'[d] = sndEsi[d] /\ sndRequestId'[d] = sndRequestId[d]
    BY <1>1, <1>2 DEF TypeOK
  <2> QED
    BY <1>2, <1>5, <2>1, SameWindow
<1> QED
  BY <1>5, <1>8, <1>9

LEMMA AnswerWindow ==
  ASSUME WindowInv, NEW r \in requestWire, RcvRequest(r)
  PROVE  IsFiniteSet(wire') /\ \A d \in Conn : WindowOf(d)'
<1> DEFINE c == r.conn
           gap == RequestsGap(r.seq, sndRequestId[c])
<1>1. TypeOK /\ IsFiniteSet(wire) /\ c \in Conn /\ r.seq \in Nat
  BY DEF WindowInv, TypeOK, Requests
<1>2. gap \in Nat
  BY <1>1 DEF TypeOK, RequestsGap
<1>3. /\ wire' = wire \cup NewSymbols(c, gap)
      /\ sndEsi' = [sndEsi EXCEPT ![c] = @ + gap]
      /\ sndRequestId' = [sndRequestId EXCEPT ![c] = @ + gap]
      /\ rcvRequestId' = rcvRequestId
  BY DEF RcvRequest, dataVars
<1>4. /\ IsFiniteSet(wire')
      /\ \A d \in Conn \ {c} : DataOf(d)' = DataOf(d)
      /\ Cardinality(DataOf(c)') <= Cardinality(DataOf(c)) + gap
      /\ Cardinality(DataOf(c)') \in Nat
  BY <1>1, <1>2, <1>3, NewSymbolsData
<1>5. Cardinality(DataOf(c)) \in Nat
  BY <1>1, DataFinite
<1>6. /\ sndEsi[c] \in Nat /\ sndRequestId[c] \in Nat /\ rcvRequestId[c] \in Nat
      /\ sndEsi'[c] = sndEsi[c] + gap /\ sndRequestId'[c] = sndRequestId[c] + gap
  BY <1>1, <1>3 DEF TypeOK
<1>7. ASSUME NEW d \in Conn \ {c} PROVE WindowOf(d)'
  <2>1. sndEsi'[d] = sndEsi[d] /\ sndRequestId'[d] = sndRequestId[d]
    BY <1>1, <1>3 DEF TypeOK
  <2> QED
    BY <1>3, <1>4, <2>1, SameWindow
<1>8. CASE sndEsi[c] = 0
  <2>1. DataOf(c) = {} /\ rcvRequestId[c] = 0 /\ sndRequestId[c] = 0
    BY <1>1, <1>8 DEF WindowInv, QuietBeforeStart
  <2>2. r.seq <= rcvRequestId[c] - Len(pullQueue[c]) /\ Len(pullQueue[c]) \in Nat
    BY <1>1, LenProperties DEF WindowInv, PullsInOrder, TypeOK
  <2>3. gap = 0
    BY <1>1, <2>1, <2>2 DEF RequestsGap
  <2>4. \A p \in NewSymbols(c, gap) : FALSE
    BY <1>6, <2>3 DEF NewSymbols
  <2>5. DataOf(c)' = DataOf(c)
    BY <1>3, <2>4 DEF DataOf
  <2>6. sndEsi'[c] = sndEsi[c] /\ sndRequestId'[c] = sndRequestId[c]
    BY <1>6, <2>3
  <2>7. WindowOf(c)'
    BY <1>1, <1>3, <2>5, <2>6, SameWindow
  <2> QED
    BY <1>4, <1>7, <2>7
<1>9. CASE sndEsi[c] # 0
  <2>1. Cardinality(DataOf(c)) + rcvRequestId[c] - sndRequestId[c] <= IW
    BY <1>1, <1>9 DEF WindowInv, CreditBound, Outstanding
  <2>2. sndEsi'[c] # 0
    BY <1>2, <1>6, <1>9
  <2>3. Cardinality(DataOf(c)') + rcvRequestId'[c] - sndRequestId'[c] <= IW
    BY <1>2, <1>3, <1>4, <1>5, <1>6, <2>1, IWAssumption
  <2>4. WindowOf(c)'
    BY <2>2, <2>3 DEF WindowOf, Outstanding
  <2> QED
    BY <1>4, <1>7, <2>4
<1> QED
  BY <1>1, <1>8, <1>9

\* Taking a segment from the wire and asking for at most one in return.
LEMMA TakenWindow ==
  ASSUME WindowInv, NEW p \in wire, wire' = wire \ {p},
         UNCHANGED <<sndEsi, sndRequestId>>,
         \/ UNCHANGED rcvRequestId
         \/ p.kind # "ACK" /\ AddRequestToPullsQueue(p.conn)
  PROVE  IsFiniteSet(wire') /\ \A d \in Conn : WindowOf(d)'
<1>1. TypeOK /\ IsFiniteSet(wire) /\ p.conn \in Conn
  BY WireType DEF WindowInv
<1>2. /\ IsFiniteSet(wire')
      /\ \A c \in Conn :
           /\ DataOf(c)' \subseteq DataOf(c)
           /\ Cardinality(DataOf(c)') \in Nat
           /\ Cardinality(DataOf(c)') <= Cardinality(DataOf(c))
           /\ p \in DataOf(c) => Cardinality(DataOf(c)') = Cardinality(DataOf(c)) - 1
  BY <1>1, TakenData
<1>3. ASSUME NEW d \in Conn, rcvRequestId'[d] = rcvRequestId[d] PROVE WindowOf(d)'
  BY <1>2, <1>3, LessWindow
<1>4. ASSUME p.kind # "ACK", AddRequestToPullsQueue(p.conn) PROVE WindowOf(p.conn)'
  <2> DEFINE c == p.conn
  <2>1. p \in DataOf(c)
    BY <1>4 DEF DataOf
  <2>2. sndEsi[c] # 0 /\ Outstanding(c) <= IW
    BY <1>1, <2>1 DEF WindowInv, QuietBeforeStart, CreditBound
  <2>3. rcvRequestId'[c] = rcvRequestId[c] + 1
    BY <1>1, <1>4 DEF AddRequestToPullsQueue, TypeOK
  <2>4. /\ Cardinality(DataOf(c)') = Cardinality(DataOf(c)) - 1
        /\ Cardinality(DataOf(c)) \in Nat
    BY <1>1, <1>2, <2>1, DataFinite
  <2>5. sndRequestId[c] \in Nat /\ rcvRequestId[c] \in Nat /\ IW \in Nat
    BY <1>1, IWAssumption DEF TypeOK
  <2>6. Outstanding(c)' <= IW
    BY <2>2, <2>3, <2>4, <2>5 DEF Outstanding
  <2> QED
    BY <2>2, <2>6 DEF WindowOf
<1>5. ASSUME AddRequestToPullsQueue(p.conn), NEW d \in Conn \ {p.conn}
      PROVE  rcvRequestId'[d] = rcvRequestId[d]
  BY <1>1, <1>5 DEF AddRequestToPullsQueue, TypeOK
<1> QED
  BY <1>1, <1>2, <1>3, <1>4, <1>5

LEMMA InitWindow == Init => WindowInv
<1> SUFFICES ASSUME Init PROVE WindowInv
  OBVIOUS
<1>1. TypeOK
  BY InitType
<1>2. IsFiniteSet(wire)
  <2> DEFINE f == [c \in Conn |-> FirstAck(c)]
  <2>1. f \in Surjection(Conn, wire)
    BY DEF Init, Surjection
  <2> QED
    BY <2>1, ConnAssumption, FS_Surjection
<1>3. PullsInOrder
  BY DEF Init, PullsInOrder
<1>4. ASSUME NEW c \in Conn PROVE WindowOf(c)
  <2>1. DataOf(c) = {}
    BY DEF Init, DataOf, FirstAck
  <2> QED
    BY <2>1, IWAssumption DEF Init, WindowOf, Outstanding
<1> QED
  BY <1>1, <1>2, <1>3, <1>4 DEF WindowInv, QuietBeforeStart, CreditBound, WindowOf

LEMMA NextWindow == WindowInv /\ [Next]_vars => WindowInv'
<1> SUFFICES ASSUME WindowInv, [Next]_vars
             PROVE  IsFiniteSet(wire') /\ \A d \in Conn : WindowOf(d)'
  BY NextType, NextOrder, WindowByConnection DEF WindowInv
<1> TypeOK /\ IsFiniteSet(wire)
  BY DEF WindowInv
<1>0. ASSUME UNCHANGED <<wire, sndEsi, sndRequestId, rcvRequestId>>
      PROVE  IsFiniteSet(wire') /\ \A d \in Conn : WindowOf(d)'
  BY <1>0, SameWindow DEF DataOf
<1>1. ASSUME NEW p \in wire, Trim(p)
      PROVE  IsFiniteSet(wire') /\ \A d \in Conn : WindowOf(d)'
  <2>1. UNCHANGED <<sndEsi, sndRequestId, rcvRequestId>>
    BY <1>1 DEF Trim, sndVars, dataVars
  <2> QED
    BY <1>1, <2>1, TrimmedData, LessWindow
<1>2. ASSUME NEW p \in wire,
             Establish(p) \/ RcvFirstAck(p) \/ RcvExcessSymbol(p) \/ LoseSegment(p)
      PROVE  IsFiniteSet(wire') /\ \A d \in Conn : WindowOf(d)'
  <2>1. wire' = wire \ {p} /\ UNCHANGED <<sndEsi, sndRequestId, rcvRequestId>>
    BY <1>2 DEF Establish, RcvFirstAck, RcvExcessSymbol, LoseSegment, sndVars, dataVars
  <2> QED
    BY <2>1, TakenWindow
<1>3. ASSUME NEW p \in wire, RcvHeader(p) \/ RcvSymbol(p)
      PROVE  IsFiniteSet(wire') /\ \A d \in Conn : WindowOf(d)'
  <2>1. /\ wire' = wire \ {p}
        /\ UNCHANGED <<sndEsi, sndRequestId>>
        /\ p.kind # "ACK"
        /\ AddRequestToPullsQueue(p.conn) \/ UNCHANGED rcvRequestId
    BY <1>3 DEF RcvHeader, RcvSymbol, sndVars
  <2> QED
    BY <2>1, TakenWindow
<1>4. CASE RequestTimerFires \/ (\E g \in Groups : CloseGroup(g))
             \/ (\E r \in requestWire : LoseRequest(r)) \/ UNCHANGED vars
  BY <1>0, <1>4 DEF RequestTimerFires, CloseGroup, LoseRequest, vars, sndVars, dataVars
<1> QED
  BY <1>1, <1>2, <1>3, <1>4, StartWindow, AnswerWindow DEF Next, Endpoints, RcvSegment

\* As no answered request is ahead of the queue, requests never weigh less than nothing.
LEMMA WindowFromCredit == WindowInv => WindowBound
<1> SUFFICES ASSUME WindowInv, NEW c \in Conn
             PROVE  Cardinality(DataOf(c)) <= IW /\ Outstanding(c) <= IW
  BY DEF WindowBound
<1>1. Outstanding(c) <= IW
  BY DEF WindowInv, CreditBound
<1>2. CASE sndEsi[c] = 0
  <2>1. Cardinality(DataOf(c)) = 0
    BY <1>2, FS_EmptySet DEF WindowInv, QuietBeforeStart
  <2> QED
    BY <1>1, <2>1, IWAssumption
<1>3. CASE sndEsi[c] # 0
  <2>1. sndRequestId[c] \in Nat /\ rcvRequestId[c] \in Nat /\ Len(pullQueue[c]) \in Nat
    BY LenProperties DEF WindowInv, TypeOK
  <2>2. Cardinality(DataOf(c)) \in Nat
    BY DataFinite DEF WindowInv
  <2>3. sndRequestId[c] <= rcvRequestId[c] - Len(pullQueue[c])
    BY DEF WindowInv, PullsInOrder
  <2>4. Cardinality(DataOf(c)) + rcvRequestId[c] - sndRequestId[c] <= IW
    BY <1>1, <1>3 DEF Outstanding
  <2> QED
    BY <1>1, <2>1, <2>2, <2>3, <2>4, IWAssumption
<1> QED
  BY <1>2, <1>3

\* For every number of connections, window and transfer size, and every loss, trimming
\* and reordering: what is in flight, and what is outstanding, never exceeds the
\* initial window.
THEOREM WindowHolds == Spec => []WindowBound
<1>1. WindowInv => WindowBound
  BY WindowFromCredit
<1> QED
  BY <1>1, InitWindow, NextWindow, PTL DEF Spec

\* The queued requests stay the latest ones, in order, without a hole, and behind all
\* that have been sent or answered.
THEOREM RequestsStayInOrder == Spec => []PullsInOrder
<1>1. WindowInv => PullsInOrder
  BY DEF WindowInv
<1> QED
  BY <1>1, InitWindow, NextWindow, PTL DEF Spec

----------------------------------------------------------------------------
(* The end of a transfer.                                                   *)

ByGroup(c) == \E g \in groupClosed : c \in g

\* How what a connection has counted, handed over and told belong together: until it is
\* finished everything counted has been handed over, only an excess symbol or its
\* group's close finishes it, and the end is told to a full or a finished connection.
DeliveryOf(c) ==
    /\ receivedSymbols[c] <= numberReceivedSymbols[c]
    /\ ~connFinished[c] => receivedSymbols[c] = numberReceivedSymbols[c]
    /\ connFinished[c] => numberReceivedSymbols[c] > Wanted[c] \/ ByGroup(c)
    /\ isfinalReceived[c] => numberReceivedSymbols[c] >= Wanted[c] \/ connFinished[c]
    /\ isfinalReceived[c] => receivedSymbols[c] = Wanted[c] \/ ByGroup(c)
    /\ numberReceivedSymbols[c] >= Wanted[c] /\ Wanted[c] > 0 => isfinalReceived[c]

Delivery == \A c \in Conn : DeliveryOf(c)

LEMMA SameDelivery ==
  ASSUME Delivery, NEW c \in Conn,
         receivedSymbols'[c] = receivedSymbols[c],
         numberReceivedSymbols'[c] = numberReceivedSymbols[c],
         connFinished'[c] = connFinished[c],
         isfinalReceived'[c] = isfinalReceived[c],
         groupClosed \subseteq groupClosed'
  PROVE  DeliveryOf(c)'
<1>1. ByGroup(c) => ByGroup(c)'
  BY DEF ByGroup
<1> QED
  BY <1>1 DEF Delivery, DeliveryOf

LEMMA InitDelivery == Init => Delivery
<1> SUFFICES ASSUME Init, NEW c \in Conn PROVE DeliveryOf(c)
  BY DEF Delivery
<1>1. Wanted[c] \in Nat
  BY WantedAssumption
<1> QED
  BY <1>1 DEF Init, DeliveryOf

LEMMA ExcessDelivery ==
  ASSUME TypeOK, Delivery, NEW p \in wire, RcvExcessSymbol(p)
  PROVE  \A c \in Conn : DeliveryOf(c)'
<1> DEFINE c == p.conn
           n == numberReceivedSymbols[c] + 1
<1>1. c \in Conn /\ Wanted[c] \in Nat /\ numberReceivedSymbols[c] \in Nat
      /\ receivedSymbols[c] \in Nat
  BY WireType, WantedAssumption DEF TypeOK
<1>2. /\ n > Wanted[c]
      /\ numberReceivedSymbols' = [numberReceivedSymbols EXCEPT ![c] = n]
      /\ connFinished' = [connFinished EXCEPT ![c] = TRUE]
      /\ UNCHANGED <<receivedSymbols, isfinalReceived, groupClosed>>
  BY DEF RcvExcessSymbol
<1>3. numberReceivedSymbols'[c] = n /\ connFinished'[c] = TRUE
  BY <1>1, <1>2 DEF TypeOK
<1>4. ByGroup(c)' = ByGroup(c)
  BY <1>2 DEF ByGroup
<1>5. DeliveryOf(c)'
  BY <1>1, <1>2, <1>3, <1>4 DEF Delivery, DeliveryOf
<1>6. ASSUME NEW d \in Conn \ {c} PROVE DeliveryOf(d)'
  BY <1>2, SameDelivery DEF TypeOK
<1> QED
  BY <1>5, <1>6

LEMMA SymbolDelivery ==
  ASSUME TypeOK, Delivery, NEW p \in wire, RcvSymbol(p)
  PROVE  \A c \in Conn : DeliveryOf(c)'
<1> DEFINE c == p.conn
           n == numberReceivedSymbols[c] + 1
<1>1. c \in Conn /\ Wanted[c] \in Nat /\ numberReceivedSymbols[c] \in Nat
      /\ receivedSymbols[c] \in Nat /\ connFinished[c] \in BOOLEAN
  BY WireType, WantedAssumption DEF TypeOK
<1>2. /\ n <= Wanted[c]
      /\ numberReceivedSymbols' = [numberReceivedSymbols EXCEPT ![c] = n]
      /\ receivedSymbols' =
            [receivedSymbols EXCEPT ![c] = IF connFinished[c] THEN @ ELSE @ + 1]
      /\ isfinalReceived' =
            [isfinalReceived EXCEPT ![c] = @ \/ IsFinal(n, Wanted[c], connFinished[c])]
      /\ UNCHANGED <<connFinished, groupClosed>>
  BY DEF RcvSymbol
<1>3. /\ numberReceivedSymbols'[c] = n
      /\ receivedSymbols'[c] =
            IF connFinished[c] THEN receivedSymbols[c] ELSE receivedSymbols[c] + 1
      /\ isfinalReceived'[c] <=> isfinalReceived[c] \/ n = Wanted[c] \/ connFinished[c]
  BY <1>1, <1>2 DEF TypeOK, IsFinal
<1>4. ByGroup(c)' = ByGroup(c)
  BY <1>2 DEF ByGroup
<1>5. DeliveryOf(c)
  BY <1>1 DEF Delivery
<1>6. DeliveryOf(c)'
  <2>1. CASE connFinished[c]
    <3>1. ByGroup(c)
      BY <1>1, <1>2, <1>5, <2>1 DEF DeliveryOf
    <3>2. receivedSymbols'[c] <= numberReceivedSymbols'[c]
      BY <1>1, <1>3, <1>5, <2>1 DEF DeliveryOf
    <3>3. connFinished'[c] /\ ByGroup(c)' /\ isfinalReceived'[c]
      BY <1>2, <1>3, <1>4, <2>1, <3>1
    <3> QED
      BY <3>2, <3>3 DEF DeliveryOf
  <2>2. CASE ~connFinished[c]
    <3>1. /\ receivedSymbols[c] = numberReceivedSymbols[c]
          /\ receivedSymbols'[c] = n
      BY <1>3, <1>5, <2>2 DEF DeliveryOf
    <3>2. ~isfinalReceived[c]
      BY <1>1, <1>2, <1>5, <2>2 DEF DeliveryOf
    <3> QED
      BY <1>1, <1>2, <1>3, <1>4, <2>2, <3>1, <3>2 DEF DeliveryOf
  <2> QED
    BY <1>1, <2>1, <2>2
<1>7. ASSUME NEW d \in Conn \ {c} PROVE DeliveryOf(d)'
  BY <1>2, SameDelivery DEF TypeOK
<1> QED
  BY <1>6, <1>7

LEMMA CloseDelivery ==
  ASSUME TypeOK, Delivery, NEW g \in Groups, CloseGroup(g)
  PROVE  \A c \in Conn : DeliveryOf(c)'
<1>1. /\ groupClosed' = groupClosed \cup {g}
      /\ connFinished' = [c \in Conn |-> connFinished[c] \/ (c \in g /\ Registered(c))]
      /\ UNCHANGED <<receivedSymbols, numberReceivedSymbols, isfinalReceived>>
  BY DEF CloseGroup, dataVars
<1>2. ASSUME NEW c \in Conn PROVE DeliveryOf(c)'
  <2>1. CASE c \in g /\ Registered(c)
    <3>1. ByGroup(c)' /\ connFinished'[c] = TRUE
      BY <1>1, <2>1 DEF ByGroup
    <3> QED
      BY <1>1, <3>1 DEF Delivery, DeliveryOf
  <2>2. CASE ~(c \in g /\ Registered(c))
    <3>1. connFinished'[c] = connFinished[c]
      BY <1>1, <2>2 DEF TypeOK
    <3> QED
      BY <1>1, <3>1, SameDelivery
  <2> QED
    BY <2>1, <2>2
<1> QED
  BY <1>2

LEMMA NextDelivery == TypeOK /\ Delivery /\ [Next]_vars => Delivery'
<1> SUFFICES ASSUME TypeOK, Delivery, [Next]_vars PROVE \A c \in Conn : DeliveryOf(c)'
  BY DEF Delivery
<1>0. ASSUME UNCHANGED <<receivedSymbols, numberReceivedSymbols, connFinished,
                         isfinalReceived, groupClosed>>
      PROVE  \A c \in Conn : DeliveryOf(c)'
  BY <1>0, SameDelivery
<1>1. ASSUME NEW p \in wire, Establish(p) \/ RcvFirstAck(p) \/ RcvHeader(p)
      PROVE  \A c \in Conn : DeliveryOf(c)'
  BY <1>0, <1>1 DEF Establish, RcvFirstAck, RcvHeader, dataVars, hostVars
<1>2. ASSUME NEW p \in wire, Trim(p) \/ LoseSegment(p)
      PROVE  \A c \in Conn : DeliveryOf(c)'
  BY <1>0, <1>2 DEF Trim, LoseSegment, dataVars, hostVars
<1>3. ASSUME NEW c \in Conn, SendInitialWindow(c)
      PROVE  \A d \in Conn : DeliveryOf(d)'
  BY <1>0, <1>3 DEF SendInitialWindow, dataVars, hostVars
<1>4. ASSUME NEW r \in requestWire, RcvRequest(r) \/ LoseRequest(r)
      PROVE  \A c \in Conn : DeliveryOf(c)'
  BY <1>0, <1>4 DEF RcvRequest, LoseRequest, dataVars, hostVars
<1>5. ASSUME RequestTimerFires PROVE \A c \in Conn : DeliveryOf(c)'
  BY <1>0, <1>5 DEF RequestTimerFires
<1>6. CASE UNCHANGED vars
  BY <1>0, <1>6 DEF vars, dataVars, hostVars
<1> QED
  BY <1>1, <1>2, <1>3, <1>4, <1>5, <1>6, ExcessDelivery, SymbolDelivery, CloseDelivery
     DEF Next, Endpoints, RcvSegment

\* The app of a connection is told the end once it has been handed everything it
\* wanted, and not before unless its multi-source group has been closed, for every
\* number of symbols, grouping and loss (the last branch of the symbol handler).
THEOREM EndHolds == Spec => []EndOfTransfer
<1>1. Init => TypeOK /\ Delivery
  BY InitType, InitDelivery
<1>2. TypeOK /\ Delivery /\ [Next]_vars => TypeOK' /\ Delivery'
  BY NextType, NextDelivery
<1>3. Delivery => EndOfTransfer
  BY DEF Delivery, DeliveryOf, EndOfTransfer, ByGroup
<1> QED
  BY <1>1, <1>2, <1>3, PTL DEF Spec

----------------------------------------------------------------------------
(* The numbers of the symbols in flight.                                    *)

\* A symbol keeps its number when it is trimmed, and no number is in flight twice.
SymbolsDistinct ==
    /\ \A p \in wire : p.kind # "ACK" => p.ssn <= sndEsi[p.conn]
    /\ \A p, q \in wire :
          p.kind # "ACK" /\ q.kind # "ACK" /\ p.conn = q.conn /\ p.ssn = q.ssn => p = q

LEMMA InitDistinct == Init => SymbolsDistinct
  BY DEF Init, FirstAck, SymbolsDistinct

\* A sender numbers what it adds behind everything in flight.
LEMMA SentDistinct ==
  ASSUME TypeOK, SymbolsDistinct, NEW c \in Conn, NEW k \in Nat,
         wire' = wire \cup NewSymbols(c, k),
         sndEsi' = [sndEsi EXCEPT ![c] = sndEsi[c] + k]
  PROVE  SymbolsDistinct'
<1>1. /\ sndEsi'[c] = sndEsi[c] + k /\ sndEsi[c] \in Nat
      /\ \A d \in Conn \ {c} : sndEsi'[d] = sndEsi[d]
  BY DEF TypeOK
<1>2. \A p \in NewSymbols(c, k) :
         /\ p.conn = c /\ p.kind = "SYMBOL" /\ p = Symbol(c, p.ssn)
         /\ p.ssn \in Nat /\ sndEsi[c] < p.ssn /\ p.ssn <= sndEsi[c] + k
  BY <1>1 DEF NewSymbols, Symbol
<1>3. \A p \in wire : p.kind # "ACK" =>
         /\ p.conn \in Conn /\ p.ssn \in Nat /\ sndEsi[p.conn] \in Nat
         /\ p.ssn <= sndEsi[p.conn]
  BY WireType DEF SymbolsDistinct, TypeOK
<1>4. \A p \in wire' : p.kind # "ACK" => p.ssn <= sndEsi'[p.conn]
  BY <1>1, <1>2, <1>3
<1>5. ASSUME NEW p \in wire', NEW q \in wire', p.kind # "ACK", q.kind # "ACK",
             p.conn = q.conn, p.ssn = q.ssn
      PROVE  p = q
  <2>1. CASE p \in wire /\ q \in wire
    BY <1>5, <2>1 DEF SymbolsDistinct
  <2>2. CASE p \in NewSymbols(c, k) /\ q \in NewSymbols(c, k)
    BY <1>2, <1>5, <2>2
  <2>3. CASE p \in wire /\ q \in NewSymbols(c, k)
    BY <1>1, <1>2, <1>3, <1>5, <2>3
  <2>4. CASE q \in wire /\ p \in NewSymbols(c, k)
    BY <1>1, <1>2, <1>3, <1>5, <2>4
  <2> QED
    BY <2>1, <2>2, <2>3, <2>4
<1> QED
  BY <1>4, <1>5 DEF SymbolsDistinct

LEMMA NextDistinct == TypeOK /\ SymbolsDistinct /\ [Next]_vars => SymbolsDistinct'
<1> SUFFICES ASSUME TypeOK, SymbolsDistinct, [Next]_vars PROVE SymbolsDistinct'
  OBVIOUS
<1>1. ASSUME NEW c \in Conn, SendInitialWindow(c) PROVE SymbolsDistinct'
  <2>1. sndEsi' = [sndEsi EXCEPT ![c] = sndEsi[c] + IW]
    BY <1>1, IWAssumption DEF SendInitialWindow
  <2> QED
    BY <1>1, <2>1, SentDistinct, IWAssumption DEF SendInitialWindow
<1>2. ASSUME NEW r \in requestWire, RcvRequest(r) PROVE SymbolsDistinct'
  <2>1. r.conn \in Conn /\ r.seq \in Nat
    BY DEF TypeOK, Requests
  <2>2. RequestsGap(r.seq, sndRequestId[r.conn]) \in Nat
    BY <2>1 DEF TypeOK, RequestsGap
  <2> QED
    BY <1>2, <2>1, <2>2, SentDistinct DEF RcvRequest
<1>3. ASSUME NEW p \in wire, RcvSegment(p) \/ LoseSegment(p) PROVE SymbolsDistinct'
  <2>1. wire' = wire \ {p} /\ UNCHANGED sndEsi
    BY <1>3 DEF RcvSegment, Establish, RcvFirstAck, RcvHeader, RcvExcessSymbol, RcvSymbol,
                LoseSegment, sndVars
  <2> QED
    BY <2>1 DEF SymbolsDistinct
<1>4. ASSUME NEW p \in wire, Trim(p) PROVE SymbolsDistinct'
  <2> DEFINE h == Header(p.conn, p.ssn)
  <2>1. /\ p.kind = "SYMBOL" /\ wire' = (wire \ {p}) \cup {h} /\ UNCHANGED sndEsi
        /\ h.conn = p.conn /\ h.ssn = p.ssn
    BY <1>4 DEF Trim, Header, sndVars
  <2>2. \A q \in wire \ {p} : q.kind # "ACK" => ~(q.conn = p.conn /\ q.ssn = p.ssn)
    BY <2>1 DEF SymbolsDistinct
  <2>3. p.ssn <= sndEsi[p.conn]
    BY <2>1 DEF SymbolsDistinct
  <2> HIDE DEF h
  <2> QED
    BY <2>1, <2>2, <2>3 DEF SymbolsDistinct
<1>5. CASE UNCHANGED <<wire, sndEsi>>
  BY <1>5 DEF SymbolsDistinct
<1> QED
  BY <1>1, <1>2, <1>3, <1>4, <1>5
     DEF Next, Endpoints, RequestTimerFires, CloseGroup, LoseRequest, vars, sndVars

\* Sending k symbols puts exactly k more segments on the wire.
LEMMA SentCount ==
  ASSUME TypeOK, IsFiniteSet(wire), SymbolsDistinct, NEW c \in Conn, NEW k \in Nat,
         wire' = wire \cup NewSymbols(c, k)
  PROVE  Cardinality(DataOf(c)') = Cardinality(DataOf(c)) + k
<1> DEFINE I == sndEsi[c] + 1 .. sndEsi[c] + k
           S == NewSymbols(c, k)
           f == [i \in I |-> Symbol(c, i)]
<1>1. sndEsi[c] \in Nat
  BY DEF TypeOK
<1>2. IsFiniteSet(I) /\ Cardinality(I) = k
  BY <1>1, IntervalCount
<1>3. ExistsBijection(I, S)
  <2>1. \A i, j \in I : f[i] = f[j] => i = j
    BY DEF Symbol
  <2>2. f \in Surjection(I, S)
    BY DEF NewSymbols, Surjection
  <2>3. f \in Bijection(I, S)
    BY <2>1, <2>2 DEF Bijection, Injection, IsInjective, Surjection
  <2> QED
    BY <2>3 DEF ExistsBijection
<1>4. IsFiniteSet(S) /\ Cardinality(S) = k
  BY <1>2, <1>3, FS_Bijection
<1>5. IsFiniteSet(DataOf(c)) /\ Cardinality(DataOf(c)) \in Nat
  BY DataFinite
<1>6. DataOf(c)' = DataOf(c) \cup S
  BY DEF DataOf, NewSymbols, Symbol
<1>7. DataOf(c) \cap S = {}
  <2>1. \A p \in S : p.kind = "SYMBOL" /\ p.conn = c /\ p.ssn \in Nat /\ p.ssn > sndEsi[c]
    BY <1>1 DEF NewSymbols, Symbol
  <2>2. \A p \in DataOf(c) : p.ssn <= sndEsi[c] /\ p.ssn \in Nat
    BY WireType DEF DataOf, SymbolsDistinct
  <2> QED
    BY <1>1, <2>1, <2>2
<1> HIDE DEF S
<1>8. Cardinality(DataOf(c) \cup S)
        = Cardinality(DataOf(c)) + Cardinality(S) - Cardinality(DataOf(c) \cap S)
  BY <1>4, <1>5, FS_Union
<1>9. Cardinality(DataOf(c) \cap S) = 0
  BY <1>7, FS_EmptySet
<1> QED
  BY <1>4, <1>5, <1>6, <1>8, <1>9

\* A trimmed symbol still counts.
LEMMA TrimmedCount ==
  ASSUME TypeOK, IsFiniteSet(wire), SymbolsDistinct, NEW p \in wire, Trim(p), NEW c \in Conn
  PROVE  Cardinality(DataOf(c)') = Cardinality(DataOf(c))
<1> DEFINE h == Header(p.conn, p.ssn)
<1>1. wire' = (wire \ {p}) \cup {h} /\ h.conn = p.conn /\ h.ssn = p.ssn /\ h.kind = "HEADER"
      /\ p.kind = "SYMBOL"
  BY DEF Trim, Header
<1>2. IsFiniteSet(DataOf(c)) /\ Cardinality(DataOf(c)) \in Nat
  BY DataFinite
<1>3. CASE p.conn = c
  <2>1. p \in DataOf(c) /\ h \notin wire
    BY <1>1, <1>3 DEF DataOf, SymbolsDistinct
  <2>2. DataOf(c)' = (DataOf(c) \ {p}) \cup {h} /\ h \notin DataOf(c) \ {p}
    BY <1>1, <1>3, <2>1 DEF DataOf
  <2>3. /\ IsFiniteSet(DataOf(c) \ {p})
        /\ Cardinality(DataOf(c) \ {p}) = Cardinality(DataOf(c)) - 1
    BY <1>2, <2>1, FS_RemoveElement
  <2> HIDE DEF h
  <2>4. Cardinality((DataOf(c) \ {p}) \cup {h}) = Cardinality(DataOf(c) \ {p}) + 1
    BY <2>2, <2>3, FS_AddElement
  <2> QED
    BY <1>2, <2>2, <2>3, <2>4
<1>4. CASE p.conn # c
  BY <1>1, <1>4 DEF DataOf
<1> QED
  BY <1>3, <1>4

----------------------------------------------------------------------------
(* Outstanding, action by action.                                           *)

TokenInv == WindowInv /\ SymbolsDistinct /\ Delivery

SameTokens == \A c \in Conn : Outstanding(c)' = Outstanding(c)

\* Taking a segment of c from the wire spends a token of c if it carried data.
LEMMA TakenTokens ==
  ASSUME TokenInv, NEW p \in wire, wire' = wire \ {p},
         UNCHANGED <<sndEsi, sndRequestId, rcvRequestId>>
  PROVE  /\ p.kind = "ACK" => SameTokens
         /\ p.kind # "ACK" =>
               /\ Outstanding(p.conn) > 0
               /\ Outstanding(p.conn)' = Outstanding(p.conn) - 1
               /\ \A d \in Conn \ {p.conn} : Outstanding(d)' = Outstanding(d)
<1>1. TypeOK /\ IsFiniteSet(wire) /\ p.conn \in Conn
  BY WireType DEF TokenInv, WindowInv
<1>2. ASSUME NEW d \in Conn, p \notin DataOf(d) PROVE Outstanding(d)' = Outstanding(d)
  <2>1. DataOf(d)' = DataOf(d)
    BY <1>2 DEF DataOf
  <2> QED
    BY <2>1 DEF Outstanding
<1>3. CASE p.kind = "ACK"
  BY <1>2, <1>3 DEF DataOf, SameTokens
<1>4. CASE p.kind # "ACK"
  <2> DEFINE c == p.conn
  <2>1. p \in DataOf(c) /\ \A d \in Conn \ {c} : p \notin DataOf(d)
    BY <1>4 DEF DataOf
  <2>2. /\ Cardinality(DataOf(c)') = Cardinality(DataOf(c)) - 1
        /\ Cardinality(DataOf(c)') \in Nat
        /\ Cardinality(DataOf(c)) \in Nat
    BY <1>1, <2>1, TakenData, DataFinite
  <2>3. sndEsi[c] # 0
    BY <1>1, <2>1 DEF TokenInv, WindowInv, QuietBeforeStart
  <2>4. /\ sndRequestId[c] \in Nat /\ rcvRequestId[c] \in Nat /\ Len(pullQueue[c]) \in Nat
        /\ sndRequestId[c] <= rcvRequestId[c] - Len(pullQueue[c])
    BY <1>1, LenProperties DEF TokenInv, WindowInv, PullsInOrder, TypeOK
  <2>5. Outstanding(c) > 0 /\ Outstanding(c)' = Outstanding(c) - 1
    BY <2>2, <2>3, <2>4 DEF Outstanding
  <2> QED
    BY <1>2, <1>4, <2>1, <2>5
<1> QED
  BY <1>3, <1>4

\* If a request is queued for it, the token is kept.
LEMMA TradedTokens ==
  ASSUME TokenInv, NEW p \in wire, wire' = wire \ {p}, p.kind # "ACK",
         UNCHANGED <<sndEsi, sndRequestId>>, AddRequestToPullsQueue(p.conn)
  PROVE  SameTokens /\ Outstanding(p.conn) > 0
<1> DEFINE c == p.conn
<1>1. TypeOK /\ IsFiniteSet(wire) /\ c \in Conn
  BY WireType DEF TokenInv, WindowInv
<1>2. p \in DataOf(c) /\ \A d \in Conn \ {c} : p \notin DataOf(d)
  BY DEF DataOf
<1>3. /\ Cardinality(DataOf(c)') = Cardinality(DataOf(c)) - 1
      /\ Cardinality(DataOf(c)') \in Nat
      /\ Cardinality(DataOf(c)) \in Nat
  BY <1>1, <1>2, TakenData, DataFinite
<1>4. sndEsi[c] # 0
  BY <1>1, <1>2 DEF TokenInv, WindowInv, QuietBeforeStart
<1>5. /\ sndRequestId[c] \in Nat /\ rcvRequestId[c] \in Nat /\ Len(pullQueue[c]) \in Nat
      /\ sndRequestId[c] <= rcvRequestId[c] - Len(pullQueue[c])
  BY <1>1, LenProperties DEF TokenInv, WindowInv, PullsInOrder, TypeOK
<1>6. /\ rcvRequestId'[c] = rcvRequestId[c] + 1
      /\ \A d \in Conn \ {c} : rcvRequestId'[d] = rcvRequestId[d]
  BY <1>1 DEF AddRequestToPullsQueue, TypeOK
<1>7. Outstanding(c)' = Outstanding(c) /\ Outstanding(c) > 0
  <2>1. /\ Outstanding(c) = Cardinality(DataOf(c)) + rcvRequestId[c] - sndRequestId[c]
        /\ Outstanding(c)' = Cardinality(DataOf(c)') + rcvRequestId'[c] - sndRequestId[c]
    BY <1>4 DEF Outstanding
  <2> HIDE DEF c
  <2>2. /\ Cardinality(DataOf(c)') + rcvRequestId'[c] = Cardinality(DataOf(c)) + rcvRequestId[c]
        /\ Cardinality(DataOf(c)) > 0
    <3> DEFINE before == Cardinality(DataOf(c))
               after == Cardinality(DataOf(c)')
               r == rcvRequestId[c]
    <3>1. after = before - 1 /\ after \in Nat /\ before \in Nat /\ r \in Nat
      BY <1>3, <1>5
    <3>2. rcvRequestId'[c] = r + 1
      BY <1>6
    <3> HIDE DEF before, after, r
    <3>3. after + (r + 1) = before + r /\ before > 0
      BY <3>1
    <3> QED
      BY <3>2, <3>3 DEF before, after, r
  <2>3. Cardinality(DataOf(c)) + rcvRequestId[c] - sndRequestId[c] > 0
    BY <1>3, <1>5, <2>2
  <2>4. rcvRequestId'[c] \in Nat
    BY <1>5, <1>6
  <2> QED
    BY SMTT(30), <1>3, <1>5, <2>1, <2>2, <2>3, <2>4
<1>8. ASSUME NEW d \in Conn \ {c} PROVE Outstanding(d)' = Outstanding(d)
  <2>1. DataOf(d)' = DataOf(d)
    BY <1>2 DEF DataOf
  <2> QED
    BY <1>6, <2>1 DEF Outstanding
<1> QED
  BY <1>7, <1>8 DEF SameTokens

\* The initial window is worth as much on the wire as before it is sent.
LEMMA StartTokens == ASSUME TokenInv, NEW c \in Conn, SendInitialWindow(c) PROVE SameTokens
<1>1. TypeOK /\ IsFiniteSet(wire) /\ SymbolsDistinct /\ IW \in Nat \ {0}
  BY IWAssumption DEF TokenInv, WindowInv
<1>2. /\ sndEsi[c] = 0
      /\ wire' = wire \cup NewSymbols(c, IW)
      /\ sndEsi' = [sndEsi EXCEPT ![c] = IW]
      /\ sndRequestId' = [sndRequestId EXCEPT ![c] = 0]
      /\ rcvRequestId' = rcvRequestId
  BY DEF SendInitialWindow, dataVars
<1>3. DataOf(c) = {} /\ rcvRequestId[c] = 0
  BY <1>2 DEF TokenInv, WindowInv, QuietBeforeStart
<1>4. Cardinality(DataOf(c)') = IW
  <2>1. Cardinality(DataOf(c)') = Cardinality(DataOf(c)) + IW
    BY <1>1, <1>2, SentCount
  <2>2. Cardinality(DataOf(c)) = 0
    BY <1>3, FS_EmptySet
  <2> QED
    BY <1>1, <2>1, <2>2
<1>5. sndEsi'[c] = IW /\ sndRequestId'[c] = 0 /\ rcvRequestId'[c] = 0
  BY <1>1, <1>2, <1>3 DEF TypeOK
<1>6. Outstanding(c)' = Outstanding(c)
  BY <1>1, <1>2, <1>4, <1>5 DEF Outstanding
<1>7. ASSUME NEW d \in Conn \ {c} PROVE Outstanding(d)' = Outstanding(d)
  <2>1. sndEsi'[d] = sndEsi[d] /\ sndRequestId'[d] = sndRequestId[d]
    BY <1>1, <1>2 DEF TypeOK
  <2>2. DataOf(d)' = DataOf(d)
    BY <1>1, <1>2, NewSymbolsData
  <2> QED
    BY <1>2, <2>1, <2>2 DEF Outstanding
<1> QED
  BY <1>6, <1>7 DEF SameTokens

\* An answered request, and the ones before it that count as lost, become symbols.
LEMMA AnswerTokens == ASSUME TokenInv, NEW r \in requestWire, RcvRequest(r) PROVE SameTokens
<1> DEFINE c == r.conn
           gap == RequestsGap(r.seq, sndRequestId[c])
<1>1. TypeOK /\ IsFiniteSet(wire) /\ SymbolsDistinct /\ c \in Conn /\ r.seq \in Nat
  BY DEF TokenInv, WindowInv, TypeOK, Requests
<1>2. gap \in Nat
  BY <1>1 DEF TypeOK, RequestsGap
<1>3. /\ wire' = wire \cup NewSymbols(c, gap)
      /\ sndEsi' = [sndEsi EXCEPT ![c] = @ + gap]
      /\ sndRequestId' = [sndRequestId EXCEPT ![c] = @ + gap]
      /\ rcvRequestId' = rcvRequestId
  BY DEF RcvRequest, dataVars
<1>4. /\ sndEsi[c] \in Nat /\ sndRequestId[c] \in Nat /\ rcvRequestId[c] \in Nat
      /\ sndEsi'[c] = sndEsi[c] + gap /\ sndRequestId'[c] = sndRequestId[c] + gap
  BY <1>1, <1>3 DEF TypeOK
<1>5. sndEsi[c] = 0 => gap = 0
  <2>1. r.seq <= rcvRequestId[c] - Len(pullQueue[c]) /\ Len(pullQueue[c]) \in Nat
    BY <1>1, LenProperties DEF TokenInv, WindowInv, PullsInOrder, TypeOK
  <2>2. sndEsi[c] = 0 => rcvRequestId[c] = 0 /\ sndRequestId[c] = 0
    BY <1>1 DEF TokenInv, WindowInv, QuietBeforeStart
  <2> QED
    BY <1>1, <2>1, <2>2 DEF RequestsGap
<1>6. /\ Cardinality(DataOf(c)') = Cardinality(DataOf(c)) + gap
      /\ Cardinality(DataOf(c)) \in Nat
      /\ \A d \in Conn \ {c} : DataOf(d)' = DataOf(d)
  BY <1>1, <1>2, <1>3, SentCount, NewSymbolsData, DataFinite
<1>7. Outstanding(c)' = Outstanding(c)
  BY <1>2, <1>3, <1>4, <1>5, <1>6 DEF Outstanding
<1>8. ASSUME NEW d \in Conn \ {c} PROVE Outstanding(d)' = Outstanding(d)
  <2>1. sndEsi'[d] = sndEsi[d] /\ sndRequestId'[d] = sndRequestId[d]
    BY <1>1, <1>3 DEF TypeOK
  <2> QED
    BY <1>3, <1>6, <2>1 DEF Outstanding
<1> QED
  BY <1>7, <1>8 DEF SameTokens

LEMMA TrimTokens == ASSUME TokenInv, NEW p \in wire, Trim(p) PROVE SameTokens
<1>1. TypeOK /\ IsFiniteSet(wire) /\ SymbolsDistinct
  BY DEF TokenInv, WindowInv
<1>2. UNCHANGED <<sndEsi, sndRequestId, rcvRequestId>>
  BY DEF Trim, sndVars, dataVars
<1> QED
  BY <1>1, <1>2, TrimmedCount DEF Outstanding, SameTokens

LEMMA QuietTokens ==
  ASSUME UNCHANGED <<wire, sndEsi, sndRequestId, rcvRequestId>>
  PROVE  SameTokens
  BY DEF Outstanding, DataOf, SameTokens

----------------------------------------------------------------------------
(* The refinement, action by action.                                        *)

LEMMA SameStep ==
  ASSUME SameTokens, UNCHANGED <<receivedSymbols, connFinished, isfinalReceived>>
  PROVE  UNCHANGED Tokens!vars
<1>1. [c \in Conn |-> Outstanding(c)]' = [c \in Conn |-> Outstanding(c)]
  BY DEF SameTokens
<1> QED
  BY <1>1 DEF Tokens!vars

\* One token of c less is the abstract step that spends it.
LEMMA SpentToken ==
  ASSUME NEW c \in Conn, Outstanding(c) > 0, Outstanding(c)' = Outstanding(c) - 1,
         \A d \in Conn \ {c} : Outstanding(d)' = Outstanding(d)
  PROVE  Tokens!Spend(c)
<1> DEFINE t == [d \in Conn |-> Outstanding(d)]
<1>1. t[c] > 0
  OBVIOUS
<1>2. t' = [d \in Conn |-> Outstanding(d)']
  OBVIOUS
<1>3. t' = [t EXCEPT ![c] = t[c] - 1]
  BY <1>2
<1> QED
  BY <1>1, <1>3 DEF Tokens!Spend

\* Losing a segment, also to the handshake: nothing but a token.
LEMMA LossStep ==
  ASSUME TokenInv, NEW p \in wire, wire' = wire \ {p},
         UNCHANGED <<sndEsi, sndRequestId, rcvRequestId>>,
         UNCHANGED <<receivedSymbols, connFinished, isfinalReceived>>
  PROVE  [Tokens!Next]_(Tokens!vars)
<1>1. CASE p.kind = "ACK"
  BY <1>1, TakenTokens, SameStep
<1>2. CASE p.kind # "ACK"
  <2>1. p.conn \in Conn
    BY WireType DEF TokenInv, WindowInv
  <2>2. Tokens!Spend(p.conn)
    BY <1>2, <2>1, TakenTokens, SpentToken
  <2>3. Tokens!Lose(p.conn)
    BY <2>2 DEF Tokens!Lose
  <2> QED
    BY <2>1, <2>3 DEF Tokens!Next
<1> QED
  BY <1>1, <1>2

LEMMA HeaderStep ==
  ASSUME TokenInv, NEW p \in wire, RcvHeader(p)
  PROVE  [Tokens!Next]_(Tokens!vars)
<1>1. /\ wire' = wire \ {p} /\ p.kind # "ACK"
      /\ UNCHANGED <<sndEsi, sndRequestId>> /\ AddRequestToPullsQueue(p.conn)
      /\ UNCHANGED <<receivedSymbols, connFinished, isfinalReceived>>
  BY DEF RcvHeader, sndVars
<1> QED
  BY <1>1, TradedTokens, SameStep

\* A symbol after the last wanted one is ignored, and stops the transfer.
LEMMA ExcessStep ==
  ASSUME TokenInv, NEW p \in wire, RcvExcessSymbol(p)
  PROVE  [Tokens!Next]_(Tokens!vars)
<1> DEFINE c == p.conn
<1>1. TypeOK /\ c \in Conn /\ Wanted[c] \in Nat /\ numberReceivedSymbols[c] \in Nat
  BY WireType, WantedAssumption DEF TokenInv, WindowInv, TypeOK
<1>2. /\ wire' = wire \ {p} /\ p.kind # "ACK"
      /\ numberReceivedSymbols[c] + 1 > Wanted[c]
      /\ UNCHANGED <<sndEsi, sndRequestId, rcvRequestId>>
      /\ connFinished' = [connFinished EXCEPT ![c] = TRUE]
      /\ UNCHANGED <<receivedSymbols, isfinalReceived>>
  BY DEF RcvExcessSymbol, sndVars
<1>3. Tokens!Spend(c)
  BY <1>1, <1>2, TakenTokens, SpentToken
<1>4. isfinalReceived[c] \/ Wanted[c] = 0
  BY <1>1, <1>2 DEF TokenInv, Delivery, DeliveryOf
<1>5. Tokens!Ignore(c)
  BY <1>2, <1>3, <1>4 DEF Tokens!Ignore
<1> QED
  BY <1>1, <1>5 DEF Tokens!Next

\* A wanted symbol is delivered; after its group's close it ends the transfer instead.
LEMMA SymbolStep ==
  ASSUME TokenInv, NEW p \in wire, RcvSymbol(p)
  PROVE  [Tokens!Next]_(Tokens!vars)
<1> DEFINE c == p.conn
           n == numberReceivedSymbols[c] + 1
           gap == p.ssn - (rcvEsi[c] + 1)
           asks == Asks(n, gap, Wanted[c], connFinished[c])
<1>1. /\ TypeOK /\ c \in Conn /\ Wanted[c] \in Nat /\ numberReceivedSymbols[c] \in Nat
      /\ connFinished[c] \in BOOLEAN /\ isfinalReceived[c] \in BOOLEAN
      /\ receivedSymbols[c] \in Nat
  BY WireType, WantedAssumption DEF TokenInv, WindowInv, TypeOK
<1>2. /\ wire' = wire \ {p} /\ p.kind # "ACK" /\ n <= Wanted[c]
      /\ UNCHANGED <<sndEsi, sndRequestId>>
      /\ IF asks THEN AddRequestToPullsQueue(c) ELSE UNCHANGED <<rcvRequestId, pullQueue>>
      /\ receivedSymbols' =
            [receivedSymbols EXCEPT ![c] = IF connFinished[c] THEN @ ELSE @ + 1]
      /\ isfinalReceived' =
            [isfinalReceived EXCEPT ![c] = @ \/ IsFinal(n, Wanted[c], connFinished[c])]
      /\ UNCHANGED connFinished
  BY DEF RcvSymbol, sndVars
<1>3. asks => ~connFinished[c]
  BY DEF Asks
<1>4. Tokens!Spend(c) \/ (asks /\ Outstanding(c) > 0 /\ SameTokens)
  <2> HIDE DEF asks
  <2>1. CASE asks
    BY <1>2, <2>1, TradedTokens
  <2>2. CASE ~asks
    BY <1>1, <1>2, <2>2, TakenTokens, SpentToken
  <2> QED
    BY <2>1, <2>2
<1>5. DeliveryOf(c)
  BY <1>1 DEF TokenInv, Delivery
<1>6. CASE connFinished[c]
  <2>1. Tokens!Spend(c)
    BY <1>3, <1>4, <1>6
  <2>2. receivedSymbols' = receivedSymbols
    BY <1>1, <1>2, <1>6 DEF TypeOK
  <2>3. isfinalReceived' = [isfinalReceived EXCEPT ![c] = TRUE]
    BY <1>2, <1>6 DEF IsFinal
  <2>4. Tokens!Ignore(c)
    BY <1>2, <1>6, <2>1, <2>2, <2>3 DEF Tokens!Ignore
  <2> QED
    BY <1>1, <2>4 DEF Tokens!Next
<1>7. CASE ~connFinished[c]
  <2>1. ~isfinalReceived[c] /\ receivedSymbols[c] + 1 = n
    BY <1>1, <1>2, <1>5, <1>7 DEF DeliveryOf
  <2>2. receivedSymbols' = [receivedSymbols EXCEPT ![c] = receivedSymbols[c] + 1]
    BY <1>2, <1>7
  <2>3. isfinalReceived' = [isfinalReceived EXCEPT ![c] = receivedSymbols[c] + 1 = Wanted[c]]
    BY <1>1, <1>2, <1>7, <2>1 DEF IsFinal
  <2>4. \/ Tokens!Spend(c)
        \/ /\ [d \in Conn |-> Outstanding(d)][c] > 0
           /\ [d \in Conn |-> Outstanding(d)]' = [d \in Conn |-> Outstanding(d)]
    BY <1>1, <1>4 DEF SameTokens
  <2>5. Tokens!Deliver(c)
    BY <1>2, <1>7, <2>1, <2>2, <2>3, <2>4 DEF Tokens!Deliver
  <2> QED
    BY <1>1, <2>5 DEF Tokens!Next
<1> QED
  BY <1>6, <1>7

\* Both specifications add up alike: the instance has the fold of its own.
LEMMA SameTotal ==
  ASSUME NEW f, NEW S
  PROVE  SumFunctionOnSet(f, S) = Tokens!SumFunctionOnSet(f, S)
  BY DEF SumFunctionOnSet, Tokens!SumFunctionOnSet, FoldFunctionOnSet,
         Tokens!FoldFunctionOnSet, MapThenFoldSet, Tokens!MapThenFoldSet

\* The close of a group stops those of its connections that the host knows.
LEMMA CloseStep ==
  ASSUME TokenInv, NEW g \in Groups, CloseGroup(g)
  PROVE  [Tokens!Next]_(Tokens!vars)
<1> DEFINE S == {c \in g : Registered(c)}
<1>1. /\ GroupTotal(g) >= GroupQuota
      /\ connFinished' = [c \in Conn |-> connFinished[c] \/ (c \in g /\ Registered(c))]
      /\ UNCHANGED <<wire, sndEsi, sndRequestId, rcvRequestId>>
      /\ UNCHANGED <<receivedSymbols, isfinalReceived>>
  BY DEF CloseGroup, sndVars, dataVars
<1>2. SameTokens
  BY <1>1, QuietTokens
<1>3. [c \in Conn |-> Outstanding(c)]' = [c \in Conn |-> Outstanding(c)]
  BY <1>2 DEF SameTokens
<1>4. /\ S \in SUBSET g
      /\ connFinished' = [c \in Conn |-> connFinished[c] \/ c \in S]
  BY <1>1
<1> HIDE DEF S
<1>5. Tokens!StopGroup(g)
  BY <1>1, <1>3, <1>4, SameTotal DEF Tokens!StopGroup, GroupTotal
<1> QED
  BY <1>5 DEF Tokens!Next

LEMMA InitTokens == Init => Tokens!Init
<1> SUFFICES ASSUME Init PROVE Tokens!Init
  OBVIOUS
<1>1. [c \in Conn |-> Outstanding(c)] = [c \in Conn |-> IW]
  BY DEF Init, Outstanding
<1> QED
  BY <1>1 DEF Init, Tokens!Init

LEMMA NextTokens == TokenInv /\ [Next]_vars => [Tokens!Next]_(Tokens!vars)
<1> SUFFICES ASSUME TokenInv, [Next]_vars PROVE [Tokens!Next]_(Tokens!vars)
  OBVIOUS
<1>1. ASSUME NEW p \in wire, Establish(p) \/ RcvFirstAck(p) \/ LoseSegment(p)
      PROVE  [Tokens!Next]_(Tokens!vars)
  <2>1. /\ wire' = wire \ {p}
        /\ UNCHANGED <<sndEsi, sndRequestId, rcvRequestId>>
        /\ UNCHANGED <<receivedSymbols, connFinished, isfinalReceived>>
    BY <1>1 DEF Establish, RcvFirstAck, LoseSegment, sndVars, dataVars
  <2> QED
    BY <2>1, LossStep
<1>2. ASSUME NEW p \in wire, Trim(p) PROVE [Tokens!Next]_(Tokens!vars)
  BY <1>2, TrimTokens, SameStep DEF Trim, dataVars
<1>3. ASSUME NEW c \in Conn, SendInitialWindow(c) PROVE [Tokens!Next]_(Tokens!vars)
  BY <1>3, StartTokens, SameStep DEF SendInitialWindow, dataVars
<1>4. ASSUME NEW r \in requestWire, RcvRequest(r) PROVE [Tokens!Next]_(Tokens!vars)
  BY <1>4, AnswerTokens, SameStep DEF RcvRequest, dataVars
<1>5. CASE RequestTimerFires \/ (\E r \in requestWire : LoseRequest(r)) \/ UNCHANGED vars
  <2>1. /\ UNCHANGED <<wire, sndEsi, sndRequestId, rcvRequestId>>
        /\ UNCHANGED <<receivedSymbols, connFinished, isfinalReceived>>
    BY <1>5 DEF RequestTimerFires, LoseRequest, vars, sndVars, dataVars
  <2> QED
    BY <2>1, QuietTokens, SameStep
<1> QED
  BY <1>1, <1>2, <1>3, <1>4, <1>5, HeaderStep, ExcessStep, SymbolStep, CloseStep
     DEF Next, Endpoints, RcvSegment

LEMMA InitTokenInv == Init => TokenInv
  BY InitWindow, InitDistinct, InitDelivery DEF TokenInv

LEMMA NextTokenInv == TokenInv /\ [Next]_vars => TokenInv'
  BY NextWindow, NextDistinct, NextDelivery DEF TokenInv, WindowInv

\* The protocol of symbols, headers, paced requests and group closes implements the
\* token transfer, whatever the network loses, trims and reorders: it never makes a
\* token, delivers one symbol at a time and tells the end once.
THEOREM TransferImplementsTokens == Spec => ImplementsTokens
<1>1. TokenInv /\ [Next]_vars => [Tokens!Next]_(Tokens!vars)
  BY NextTokens
<1> QED
  BY <1>1, InitTokens, InitTokenInv, NextTokenInv, PTL DEF Spec, ImplementsTokens, Tokens!Spec

----------------------------------------------------------------------------
(* Credit, on paths that keep the order.                                    *)

DataNumbered == \A p \in wire : p.kind # "ACK" => p.ssn >= 1

\* On one path: until the first ACK arrives it leads, and as long as a connection
\* follows the numbers every symbol in flight is ahead of it.
PathOf(c) ==
    /\ fsm[c] = "SYN_RCVD" => FirstAck(c) \in wire
    /\ ~connFinished[c] /\ numberReceivedSymbols[c] < Wanted[c] =>
          /\ rcvEsi[c] <= sndEsi[c]
          /\ \A p \in wire : p.conn = c /\ p.kind = "SYMBOL" => rcvEsi[c] < p.ssn

PathInOrder == DataNumbered /\ \A c \in Conn : PathOf(c)

CreditOf(c) ==
    \/ connFinished[c]
    \/ Outstanding(c) = IW
    \/ numberReceivedSymbols[c] + Outstanding(c) >= Wanted[c]

\* What EnoughCredit needs to be inductive.
CreditInv == TokenInv /\ PathInOrder /\ EnoughCredit

LEMMA OrderedIsNext == [OrderedNext]_vars => [Next]_vars
  BY DEF OrderedNext, Next

LEMMA InitCredit == Init => CreditInv
<1> SUFFICES ASSUME Init PROVE PathInOrder /\ EnoughCredit
  BY InitTokenInv DEF CreditInv
<1>1. DataNumbered
  BY DEF Init, DataNumbered, FirstAck
<1>2. ASSUME NEW c \in Conn PROVE PathOf(c)
  BY DEF Init, PathOf, FirstAck
<1>3. EnoughCredit
  BY DEF Init, EnoughCredit, Outstanding
<1> QED
  BY <1>1, <1>2, <1>3 DEF PathInOrder

LEMMA NextNumbered == TypeOK /\ DataNumbered /\ [Next]_vars => DataNumbered'
<1> SUFFICES ASSUME TypeOK, DataNumbered, [Next]_vars PROVE DataNumbered'
  OBVIOUS
<1>0. ASSUME NEW c \in Conn, NEW k \in Nat, wire' = wire \cup NewSymbols(c, k)
      PROVE  DataNumbered'
  <2>1. sndEsi[c] \in Nat
    BY DEF TypeOK
  <2>2. \A p \in NewSymbols(c, k) : p.ssn >= 1
    BY <2>1 DEF NewSymbols, Symbol
  <2> QED
    BY <1>0, <2>2 DEF DataNumbered
<1>1. ASSUME NEW c \in Conn, SendInitialWindow(c) PROVE DataNumbered'
  BY <1>0, <1>1, IWAssumption DEF SendInitialWindow
<1>2. ASSUME NEW r \in requestWire, RcvRequest(r) PROVE DataNumbered'
  <2>1. r.conn \in Conn /\ r.seq \in Nat
    BY DEF TypeOK, Requests
  <2>2. RequestsGap(r.seq, sndRequestId[r.conn]) \in Nat
    BY <2>1 DEF TypeOK, RequestsGap
  <2> QED
    BY <1>0, <1>2, <2>1, <2>2 DEF RcvRequest
<1>3. ASSUME NEW p \in wire, RcvSegment(p) \/ LoseSegment(p) PROVE DataNumbered'
  <2>1. wire' = wire \ {p}
    BY <1>3 DEF RcvSegment, Establish, RcvFirstAck, RcvHeader, RcvExcessSymbol, RcvSymbol,
                LoseSegment
  <2> QED
    BY <2>1 DEF DataNumbered
<1>4. ASSUME NEW p \in wire, Trim(p) PROVE DataNumbered'
  BY <1>4 DEF Trim, Header, DataNumbered
<1>5. CASE UNCHANGED wire
  BY <1>5 DEF DataNumbered
<1> QED
  BY <1>1, <1>2, <1>3, <1>4, <1>5
     DEF Next, Endpoints, RequestTimerFires, CloseGroup, LoseRequest, vars

\* The path of a connection that receives no symbol.
LEMMA SamePath ==
  ASSUME TypeOK, TypeOK', NEW c \in Conn, PathOf(c),
         UNCHANGED <<rcvEsi, numberReceivedSymbols>>,
         connFinished[c] => connFinished'[c],
         sndEsi[c] <= sndEsi'[c],
         fsm'[c] = "SYN_RCVD" => fsm[c] = "SYN_RCVD" /\ FirstAck(c) \in wire',
         \A p \in wire' : p.conn = c /\ p.kind = "SYMBOL" => p \in wire \/ p.ssn > sndEsi[c]
  PROVE  PathOf(c)'
<1>1. /\ rcvEsi[c] \in Nat /\ sndEsi[c] \in Nat /\ sndEsi'[c] \in Nat
      /\ \A p \in wire' : p.ssn \in Nat
  BY WireType DEF TypeOK, Segments
<1>2. CASE ~connFinished[c] /\ numberReceivedSymbols[c] < Wanted[c]
  BY <1>1, <1>2 DEF PathOf
<1>3. CASE ~(~connFinished[c] /\ numberReceivedSymbols[c] < Wanted[c])
  BY <1>3 DEF PathOf
<1> QED
  BY <1>2, <1>3

\* In the order of the path only the first ACK establishes a connection.
LEMMA OrderedEstablish ==
  ASSUME TypeOK, PathInOrder, NEW p \in wire, InOrder(p), Establish(p)
  PROVE  p.kind = "ACK"
<1>1. p.conn \in Conn /\ p.ssn \in Nat
  BY WireType
<1>2. FirstAck(p.conn) \in wire
  BY <1>1 DEF Establish, PathInOrder, PathOf
<1>3. /\ FirstAck(p.conn).conn = p.conn /\ FirstAck(p.conn).kind = "ACK"
      /\ FirstAck(p.conn).ssn = 0
  BY DEF FirstAck
<1>4. p.kind # "ACK" => p.ssn >= 1
  BY DEF PathInOrder, DataNumbered
<1>5. 0 < p.ssn => p.kind = "HEADER" /\ FirstAck(p.conn).kind # "ACK"
  BY <1>2, <1>3 DEF InOrder
<1> QED
  BY <1>1, <1>3, <1>4, <1>5

\* A symbol that arrives in the order of its path: the next one is further ahead.
LEMMA OrderedSymbolPath ==
  ASSUME TypeOK, TypeOK', SymbolsDistinct, PathInOrder, NEW p \in wire, InOrder(p), RcvSymbol(p)
  PROVE  /\ \A c \in Conn : PathOf(c)'
         /\ ~connFinished[p.conn] => p.ssn - (rcvEsi[p.conn] + 1) >= 0
<1> DEFINE c == p.conn
           n == numberReceivedSymbols[c] + 1
<1>1. /\ c \in Conn /\ p.ssn \in Nat /\ rcvEsi[c] \in Nat /\ sndEsi[c] \in Nat
      /\ numberReceivedSymbols[c] \in Nat /\ Wanted[c] \in Nat /\ connFinished[c] \in BOOLEAN
  BY WireType, WantedAssumption DEF TypeOK
<1>2. /\ p.kind = "SYMBOL" /\ n <= Wanted[c] /\ fsm[c] = "ESTABLISHED"
      /\ wire' = wire \ {p}
      /\ numberReceivedSymbols' = [numberReceivedSymbols EXCEPT ![c] = n]
      /\ rcvEsi' =
           [rcvEsi EXCEPT ![c] = NextEsi(rcvEsi[c], p.ssn, n, Wanted[c], connFinished[c])]
      /\ UNCHANGED <<connFinished, sndEsi, fsm>>
  BY DEF RcvSymbol, sndVars
<1>3. ~connFinished[c] => rcvEsi[c] < p.ssn
  BY <1>1, <1>2 DEF PathInOrder, PathOf
<1>4. ASSUME ~connFinished[c], n < Wanted[c]
      PROVE  /\ rcvEsi'[c] = p.ssn
             /\ p.ssn <= sndEsi[c]
             /\ \A q \in wire' : q.conn = c /\ q.kind = "SYMBOL" => p.ssn < q.ssn
  <2>1. rcvEsi'[c] = NextEsi(rcvEsi[c], p.ssn, n, Wanted[c], connFinished[c])
    BY <1>1, <1>2 DEF TypeOK
  <2>2. NextEsi(rcvEsi[c], p.ssn, n, Wanted[c], connFinished[c]) = p.ssn
    BY <1>1, <1>3, <1>4 DEF NextEsi
  <2>3. p.ssn <= sndEsi[c]
    BY <1>2 DEF SymbolsDistinct
  <2>4. ASSUME NEW q \in wire', q.conn = c, q.kind = "SYMBOL" PROVE p.ssn < q.ssn
    <3>1. q \in wire /\ q # p /\ q.ssn \in Nat
      BY <1>2, WireType
    <3>2. ~(q.ssn < p.ssn)
      BY <1>2, <2>4, <3>1 DEF InOrder
    <3>3. q.ssn # p.ssn
      BY <1>2, <2>4, <3>1 DEF SymbolsDistinct
    <3> QED
      BY <1>1, <3>1, <3>2, <3>3
  <2> QED
    BY <2>1, <2>2, <2>3, <2>4
<1>5. PathOf(c)'
  <2>1. numberReceivedSymbols'[c] = n /\ connFinished'[c] = connFinished[c]
        /\ sndEsi'[c] = sndEsi[c] /\ fsm'[c] # "SYN_RCVD"
    BY <1>1, <1>2 DEF TypeOK
  <2> HIDE DEF n
  <2>2. CASE ~connFinished[c] /\ n < Wanted[c]
    BY <1>4, <2>1, <2>2 DEF PathOf
  <2>3. CASE ~(~connFinished[c] /\ n < Wanted[c])
    BY <2>1, <2>3 DEF PathOf
  <2> QED
    BY <2>2, <2>3
<1>6. ASSUME NEW d \in Conn \ {c} PROVE PathOf(d)'
  <2>1. /\ rcvEsi'[d] = rcvEsi[d] /\ numberReceivedSymbols'[d] = numberReceivedSymbols[d]
        /\ connFinished'[d] = connFinished[d] /\ sndEsi'[d] = sndEsi[d] /\ fsm'[d] = fsm[d]
    BY <1>1, <1>2 DEF TypeOK
  <2>2. FirstAck(d) # p
    BY DEF FirstAck
  <2>3. PathOf(d)
    BY DEF PathInOrder
  <2> QED
    BY <1>2, <2>1, <2>2, <2>3 DEF PathOf
<1> QED
  BY <1>1, <1>3, <1>5, <1>6

LEMMA SentPath ==
  ASSUME TypeOK, TypeOK', PathInOrder, NEW c \in Conn, NEW k \in Nat,
         wire' = wire \cup NewSymbols(c, k),
         sndEsi' = [sndEsi EXCEPT ![c] = sndEsi[c] + k],
         UNCHANGED <<rcvEsi, numberReceivedSymbols, connFinished, fsm>>
  PROVE  \A d \in Conn : PathOf(d)'
<1>1. \A d \in Conn : sndEsi[d] \in Nat /\ sndEsi[d] <= sndEsi'[d]
  <2>1. sndEsi \in [Conn -> Nat]
    BY DEF TypeOK
  <2> QED
    BY <2>1
<1>2. \A p \in wire' : p.kind = "SYMBOL" => p \in wire \/ p.ssn > sndEsi[p.conn]
  BY <1>1 DEF NewSymbols, Symbol
<1> QED
  BY <1>1, <1>2, SamePath DEF PathInOrder, PathOf

LEMMA NextPath ==
  ASSUME TypeOK, TypeOK', SymbolsDistinct, PathInOrder, [OrderedNext]_vars
  PROVE  PathInOrder'
<1> SUFFICES \A c \in Conn : PathOf(c)'
  BY NextNumbered, OrderedIsNext DEF PathInOrder
<1> \A c \in Conn : PathOf(c)
  BY DEF PathInOrder
<1>0. ASSUME UNCHANGED <<wire, sndEsi, rcvEsi, numberReceivedSymbols, fsm>>,
             \A c \in Conn : connFinished[c] => connFinished'[c]
      PROVE  \A c \in Conn : PathOf(c)'
  BY <1>0 DEF PathOf
<1>1. ASSUME NEW c \in Conn, SendInitialWindow(c) PROVE \A d \in Conn : PathOf(d)'
  <2>1. sndEsi' = [sndEsi EXCEPT ![c] = sndEsi[c] + IW]
    BY <1>1, IWAssumption DEF SendInitialWindow
  <2> QED
    BY <1>1, <2>1, SentPath, IWAssumption DEF SendInitialWindow, dataVars
<1>2. ASSUME NEW r \in requestWire, RcvRequest(r) PROVE \A d \in Conn : PathOf(d)'
  <2>1. r.conn \in Conn /\ r.seq \in Nat
    BY DEF TypeOK, Requests
  <2>2. RequestsGap(r.seq, sndRequestId[r.conn]) \in Nat
    <3>1. sndRequestId \in [Conn -> Nat]
      BY DEF TypeOK
    <3> QED
      BY <2>1, <3>1 DEF RequestsGap
  <2> QED
    BY <1>2, <2>1, <2>2, SentPath DEF RcvRequest, dataVars
<1>3. CASE RequestTimerFires \/ UNCHANGED vars
  BY <1>0, <1>3 DEF RequestTimerFires, vars, sndVars, dataVars
<1>4. ASSUME NEW g \in Groups, CloseGroup(g) PROVE \A c \in Conn : PathOf(c)'
  BY <1>0, <1>4 DEF CloseGroup, sndVars, dataVars
<1>5. ASSUME NEW p \in wire, InOrder(p), Establish(p) PROVE \A c \in Conn : PathOf(c)'
  <2>1. p.conn \in Conn
    BY WireType
  <2>2. ASSUME NEW c \in Conn PROVE fsm'[c] = "SYN_RCVD" => fsm[c] = "SYN_RCVD" /\ c # p.conn
    BY <1>5, <2>1 DEF Establish, TypeOK
  <2>3. ASSUME NEW c \in Conn, c # p.conn, FirstAck(c) \in wire PROVE FirstAck(c) \in wire'
    BY <1>5, <2>3 DEF Establish, FirstAck
  <2>4. \A c \in Conn : sndEsi[c] <= sndEsi'[c]
    BY <1>5 DEF Establish, sndVars, TypeOK
  <2> QED
    BY <1>5, <2>2, <2>3, <2>4, SamePath DEF Establish, PathOf
<1>6. ASSUME NEW p \in wire, RcvFirstAck(p) \/ RcvHeader(p) PROVE \A c \in Conn : PathOf(c)'
  <2>1. /\ fsm[p.conn] = "ESTABLISHED" /\ wire' = wire \ {p}
        /\ UNCHANGED <<rcvEsi, numberReceivedSymbols, connFinished, fsm, sndEsi>>
    BY <1>6 DEF RcvFirstAck, RcvHeader, sndVars, dataVars
  <2>2. ASSUME NEW c \in Conn, fsm[c] = "SYN_RCVD", FirstAck(c) \in wire
        PROVE  FirstAck(c) \in wire'
    BY <2>1, <2>2 DEF FirstAck
  <2>3. \A c \in Conn : sndEsi[c] <= sndEsi'[c]
    BY <2>1 DEF TypeOK
  <2> QED
    BY <2>1, <2>2, <2>3, SamePath DEF PathOf
<1>7. ASSUME NEW p \in wire, RcvExcessSymbol(p) PROVE \A c \in Conn : PathOf(c)'
  <2>1. p.conn \in Conn
    BY WireType
  <2>2. /\ fsm[p.conn] = "ESTABLISHED" /\ wire' = wire \ {p}
        /\ \A c \in Conn \ {p.conn} :
              /\ rcvEsi'[c] = rcvEsi[c]
              /\ numberReceivedSymbols'[c] = numberReceivedSymbols[c]
              /\ connFinished'[c] = connFinished[c]
        /\ connFinished'[p.conn] = TRUE
        /\ UNCHANGED <<fsm, sndEsi>>
    BY <1>7, <2>1 DEF RcvExcessSymbol, sndVars, TypeOK
  <2>3. \A c \in Conn \ {p.conn} : FirstAck(c) # p
    BY DEF FirstAck
  <2> QED
    BY <2>2, <2>3 DEF PathOf
<1>8. ASSUME NEW p \in wire, InOrder(p), RcvSymbol(p) PROVE \A c \in Conn : PathOf(c)'
  BY <1>8, OrderedSymbolPath
<1>9. ASSUME NEW p \in wire, Trim(p) PROVE \A c \in Conn : PathOf(c)'
  <2>1. /\ p.kind = "SYMBOL" /\ wire' = (wire \ {p}) \cup {Header(p.conn, p.ssn)}
        /\ UNCHANGED <<rcvEsi, numberReceivedSymbols, connFinished, fsm, sndEsi>>
    BY <1>9 DEF Trim, sndVars, dataVars
  <2>2. \A c \in Conn : FirstAck(c) \in wire => FirstAck(c) \in wire'
    BY <2>1 DEF FirstAck
  <2>3. \A q \in wire' : q.kind = "SYMBOL" => q \in wire
    BY <2>1 DEF Header
  <2>4. \A c \in Conn : sndEsi[c] <= sndEsi'[c]
    BY <2>1 DEF TypeOK
  <2> QED
    BY <2>1, <2>2, <2>3, <2>4, SamePath DEF PathOf
<1> QED
  BY <1>1, <1>2, <1>3, <1>4, <1>5, <1>6, <1>7, <1>8, <1>9 DEF OrderedNext, Endpoints, RcvSegment

----------------------------------------------------------------------------
\* A step that keeps the tokens and receives no symbol keeps the credit.
LEMMA SameCredit ==
  ASSUME EnoughCredit, SameTokens, UNCHANGED numberReceivedSymbols,
         \A c \in Conn : connFinished[c] => connFinished'[c]
  PROVE  EnoughCredit'
  BY DEF EnoughCredit, SameTokens

\* A symbol that asks for another one is made up for; one that does not belongs to the
\* last window.
LEMMA SymbolCredit ==
  ASSUME CreditInv, TypeOK', NEW p \in wire, InOrder(p), RcvSymbol(p)
  PROVE  EnoughCredit'
<1> DEFINE c == p.conn
           n == numberReceivedSymbols[c] + 1
           gap == p.ssn - (rcvEsi[c] + 1)
           asks == Asks(n, gap, Wanted[c], connFinished[c])
<1>1. /\ TokenInv /\ TypeOK /\ SymbolsDistinct /\ PathInOrder /\ c \in Conn
      /\ Wanted[c] \in Nat /\ numberReceivedSymbols[c] \in Nat /\ p.ssn \in Nat
      /\ rcvEsi[c] \in Nat /\ IW \in Nat \ {0}
  BY WireType, WantedAssumption, IWAssumption DEF CreditInv, TokenInv, WindowInv, TypeOK
<1>2. /\ wire' = wire \ {p} /\ p.kind # "ACK" /\ n <= Wanted[c]
      /\ UNCHANGED <<sndEsi, sndRequestId>>
      /\ IF asks THEN AddRequestToPullsQueue(c) ELSE UNCHANGED <<rcvRequestId, pullQueue>>
      /\ numberReceivedSymbols' = [numberReceivedSymbols EXCEPT ![c] = n]
      /\ UNCHANGED connFinished
  BY DEF RcvSymbol, sndVars
<1>3. /\ numberReceivedSymbols'[c] = n
      /\ \A d \in Conn \ {c} : numberReceivedSymbols'[d] = numberReceivedSymbols[d]
  BY <1>1, <1>2 DEF TypeOK
<1>4. ~connFinished[c] => gap >= 0
  BY <1>1, OrderedSymbolPath
<1>5. CreditOf(c)
  BY <1>1 DEF CreditInv, EnoughCredit, CreditOf
<1>6. Outstanding(c) \in Int
  <2>1. Cardinality(DataOf(c)) \in Nat /\ rcvRequestId[c] \in Nat /\ sndRequestId[c] \in Nat
    BY <1>1, DataFinite DEF TokenInv, WindowInv, TypeOK
  <2> QED
    BY <1>1, <2>1 DEF Outstanding
<1>7. CASE asks
  <2>1. SameTokens
    BY <1>1, <1>2, <1>7, TradedTokens
  <2>2. CreditOf(c)'
    <3>1. Outstanding(c)' = Outstanding(c)
      BY <1>1, <2>1 DEF SameTokens
    <3> QED
      BY <1>1, <1>2, <1>3, <1>5, <1>6, <3>1 DEF CreditOf
  <2>3. ASSUME NEW d \in Conn \ {c} PROVE CreditOf(d)'
    BY <1>2, <1>3, <2>1 DEF CreditInv, EnoughCredit, CreditOf, SameTokens
  <2> QED
    BY <2>2, <2>3 DEF EnoughCredit, CreditOf
<1>8. CASE ~asks
  <2>1. /\ Outstanding(c)' = Outstanding(c) - 1
        /\ \A d \in Conn \ {c} : Outstanding(d)' = Outstanding(d)
    <3> HIDE DEF asks
    <3> QED
      BY <1>1, <1>2, <1>8, TakenTokens
  <2>2. connFinished[c] \/ n >= Wanted[c] \/ n > Wanted[c] - IW
    <3> HIDE DEF n, gap
    <3> QED
      BY <1>1, <1>4, <1>8 DEF Asks, n, gap
  <2>3. Outstanding(c) > 0
    <3> HIDE DEF asks
    <3> QED
      BY <1>1, <1>2, <1>8, TakenTokens
  <2>4. CreditOf(c)'
    <3>1. CASE connFinished[c]
      BY <1>2, <3>1 DEF CreditOf
    <3>2. CASE ~connFinished[c]
      <4>1. n + Outstanding(c) - 1 >= Wanted[c]
        BY <1>1, <1>5, <1>6, <2>2, <2>3, <3>2 DEF CreditOf
      <4>2. numberReceivedSymbols'[c] + Outstanding(c)' >= Wanted[c]
        BY <1>1, <1>3, <1>6, <2>1, <4>1
      <4> QED
        BY <4>2 DEF CreditOf
    <3> QED
      BY <3>1, <3>2
  <2>5. ASSUME NEW d \in Conn \ {c} PROVE CreditOf(d)'
    BY <1>2, <1>3, <2>1 DEF CreditInv, EnoughCredit, CreditOf
  <2> QED
    BY <2>4, <2>5 DEF EnoughCredit, CreditOf
<1> QED
  BY <1>7, <1>8

LEMMA NextCredit == CreditInv /\ [OrderedNext]_vars => CreditInv'
<1> SUFFICES ASSUME CreditInv, [OrderedNext]_vars PROVE CreditInv'
  OBVIOUS
<1>1. TokenInv /\ TypeOK /\ SymbolsDistinct /\ PathInOrder /\ EnoughCredit
  BY DEF CreditInv, TokenInv, WindowInv
<1>2. TokenInv' /\ TypeOK'
  BY <1>1, OrderedIsNext, NextTokenInv, NextType
<1>3. PathInOrder'
  BY <1>1, <1>2, NextPath
<1>4. ASSUME NEW c \in Conn, SendInitialWindow(c) PROVE EnoughCredit'
  BY <1>1, <1>4, StartTokens, SameCredit DEF SendInitialWindow, dataVars
<1>5. ASSUME NEW r \in requestWire, RcvRequest(r) PROVE EnoughCredit'
  BY <1>1, <1>5, AnswerTokens, SameCredit DEF RcvRequest, dataVars
<1>6. ASSUME RequestTimerFires \/ UNCHANGED vars PROVE EnoughCredit'
  <2>1. UNCHANGED <<wire, sndEsi, sndRequestId, rcvRequestId, numberReceivedSymbols,
                    connFinished>>
    BY <1>6 DEF RequestTimerFires, vars, sndVars, dataVars
  <2>2. SameTokens
    BY <2>1, QuietTokens
  <2> QED
    BY <1>1, <2>1, <2>2, SameCredit
<1>7. ASSUME NEW g \in Groups, CloseGroup(g) PROVE EnoughCredit'
  <2>1. /\ UNCHANGED <<wire, sndEsi, sndRequestId, rcvRequestId, numberReceivedSymbols>>
        /\ \A c \in Conn : connFinished[c] => connFinished'[c]
    BY <1>7 DEF CloseGroup, sndVars, dataVars
  <2> QED
    BY <1>1, <2>1, QuietTokens, SameCredit
<1>8. ASSUME NEW p \in wire, InOrder(p), Establish(p) PROVE EnoughCredit'
  <2>1. p.kind = "ACK"
    BY <1>1, <1>8, OrderedEstablish
  <2>2. /\ wire' = wire \ {p}
        /\ UNCHANGED <<sndEsi, sndRequestId, rcvRequestId, numberReceivedSymbols, connFinished>>
    BY <1>8 DEF Establish, sndVars
  <2> QED
    BY <1>1, <2>1, <2>2, TakenTokens, SameCredit
<1>9. ASSUME NEW p \in wire, RcvFirstAck(p) PROVE EnoughCredit'
  <2>1. /\ wire' = wire \ {p} /\ p.kind = "ACK"
        /\ UNCHANGED <<sndEsi, sndRequestId, rcvRequestId, numberReceivedSymbols, connFinished>>
    BY <1>9 DEF RcvFirstAck, sndVars, dataVars
  <2> QED
    BY <1>1, <2>1, TakenTokens, SameCredit
<1>10. ASSUME NEW p \in wire, RcvHeader(p) PROVE EnoughCredit'
  <2>1. /\ wire' = wire \ {p} /\ p.kind # "ACK" /\ AddRequestToPullsQueue(p.conn)
        /\ UNCHANGED <<sndEsi, sndRequestId, numberReceivedSymbols, connFinished>>
    BY <1>10 DEF RcvHeader, sndVars
  <2> QED
    BY <1>1, <2>1, TradedTokens, SameCredit
<1>11. ASSUME NEW p \in wire, RcvExcessSymbol(p) PROVE EnoughCredit'
  <2>1. p.conn \in Conn
    BY <1>1, WireType
  <2>2. /\ wire' = wire \ {p} /\ p.kind # "ACK"
        /\ UNCHANGED <<sndEsi, sndRequestId, rcvRequestId>>
    BY <1>11 DEF RcvExcessSymbol, sndVars
  <2>3. /\ connFinished'[p.conn] = TRUE
        /\ \A d \in Conn \ {p.conn} :
              /\ connFinished'[d] = connFinished[d]
              /\ numberReceivedSymbols'[d] = numberReceivedSymbols[d]
    BY <1>1, <1>11, <2>1 DEF RcvExcessSymbol, TypeOK
  <2>4. \A d \in Conn \ {p.conn} : Outstanding(d)' = Outstanding(d)
    BY <1>1, <2>2, TakenTokens
  <2> QED
    BY <1>1, <2>3, <2>4 DEF EnoughCredit
<1>12. ASSUME NEW p \in wire, InOrder(p), RcvSymbol(p) PROVE EnoughCredit'
  BY <1>2, <1>12, SymbolCredit
<1>13. ASSUME NEW p \in wire, Trim(p) PROVE EnoughCredit'
  BY <1>1, <1>13, TrimTokens, SameCredit DEF Trim, dataVars
<1>14. ASSUME Endpoints PROVE EnoughCredit'
  BY <1>4, <1>5, <1>6, <1>7, <1>14 DEF Endpoints
<1>15. ASSUME NEW p \in wire, InOrder(p), RcvSegment(p) PROVE EnoughCredit'
  BY <1>8, <1>9, <1>10, <1>11, <1>12, <1>15 DEF RcvSegment
<1>16. EnoughCredit'
  BY <1>6, <1>13, <1>14, <1>15 DEF OrderedNext
<1> QED
  BY <1>1, <1>2, <1>3, <1>16 DEF CreditInv

\* While the network only trims and keeps the order of a path, for every window and
\* transfer size: what is outstanding always suffices to finish, although the last
\* window asks for nothing.
THEOREM CreditHolds == OrderedSpec => []EnoughCredit
<1>1. CreditInv => EnoughCredit
  BY DEF CreditInv
<1> QED
  BY <1>1, InitCredit, NextCredit, PTL DEF OrderedSpec

=============================================================================
