------------------------ MODULE PacerFairness_proofs ------------------------
(***************************************************************************)
(* The pacer's round robin overtakes nobody twice, although connections    *)
(* join the map at any time.                                               *)
(***************************************************************************)
EXTENDS PacerFairness, PullTransfer_proofs

\* Positions of requestCONNMap, and the turn of each: 1 is the pacer's next one.
Positions == 1 .. Len(requestCONNMap)

Turn(i) == IF i > counter THEN i - counter ELSE i - counter + Len(requestCONNMap)

\* A connection joins the map once.
JoinedOnce ==
    \A i, j \in Positions : requestCONNMap[i] = requestCONNMap[j] => i = j

\* A connection that is not on the map has asked for nothing, unless it wants nothing.
JoinsInTime ==
    \A c \in Conn : ~Registered(c) =>
        /\ numberReceivedSymbols[c] > 0 => Wanted[c] = 0
        /\ pullQueue[c] # <<>> => numberReceivedSymbols[c] > 0

\* Only a connection on the map overtakes, and only one that waits is overtaken.
OvertakenWaits ==
    \A c, d \in Conn : overtaken[c][d] > 0 => pullQueue[c] # <<>> /\ Registered(d)

\* Whoever has been overtaken has its turn before the one that overtook.
TurnComes ==
    \A i, j \in Positions :
        overtaken[requestCONNMap[i]][requestCONNMap[j]] > 0 => Turn(i) < Turn(j)

FairInv ==
    /\ TypeOK
    /\ overtaken \in [Conn -> [Conn -> Nat]]
    /\ JoinedOnce
    /\ JoinsInTime
    /\ OvertakenWaits
    /\ TurnComes
    /\ BoundedOvertaking

----------------------------------------------------------------------------
(* What a step does to the map and the queues.                              *)

\* No request is released.
QueuesKept == \A d \in Conn : ~Releases(d) /\ (pullQueue[d] # <<>> => pullQueue'[d] # <<>>)

Stays == QueuesKept /\ counter' = counter /\ requestCONNMap' = requestCONNMap

Joins ==
    /\ QueuesKept
    /\ counter' = counter
    /\ \E c \in Conn :
        /\ ~Registered(c)
        /\ pullQueue[c] = <<>>
        /\ requestCONNMap' = Append(requestCONNMap, c)

Ticks == ReleaseRequest /\ requestCONNMap' = requestCONNMap

LEMMA SameQueues == ASSUME TypeOK, pullQueue' = pullQueue PROVE QueuesKept
<1> SUFFICES ASSUME NEW d \in Conn PROVE ~Releases(d)
  BY DEF QueuesKept
<1>1. Len(pullQueue[d]) \in Nat
  BY LenProperties DEF TypeOK
<1> QED
  BY <1>1 DEF Releases

LEMMA AddedQueues ==
  ASSUME TypeOK, NEW c \in Conn, AddRequestToPullsQueue(c)
  PROVE  QueuesKept
<1> SUFFICES ASSUME NEW d \in Conn
             PROVE  ~Releases(d) /\ (pullQueue[d] # <<>> => pullQueue'[d] # <<>>)
  BY DEF QueuesKept
<1>1. pullQueue[d] \in Seq(Nat) /\ rcvRequestId[c] + 1 \in Nat
  BY SMTT(30) DEF TypeOK
<1>2. Len(pullQueue[d]) \in Nat
  BY <1>1, LenProperties
<1>3. CASE d = c
  <2>1. pullQueue'[d] = Append(pullQueue[d], rcvRequestId[c] + 1)
    BY <1>3 DEF AddRequestToPullsQueue, TypeOK
  <2>2. Len(pullQueue'[d]) = Len(pullQueue[d]) + 1
    BY <1>1, <2>1, AppendProperties
  <2>3. pullQueue'[d] # <<>>
    BY <1>2, <2>2
  <2> QED
    BY <1>2, <2>2, <2>3 DEF Releases
<1>4. CASE d # c
  <2>1. pullQueue'[d] = pullQueue[d]
    BY <1>4 DEF AddRequestToPullsQueue, TypeOK
  <2> QED
    BY <1>2, <2>1 DEF Releases
<1> QED
  BY <1>3, <1>4

\* A request is queued, and the connection joins the map with its first segment.
LEMMA JoiningMap ==
  ASSUME TypeOK, JoinsInTime, QueuesKept, counter' = counter, NEW c \in Conn,
         NEW registers \in BOOLEAN,
         registers => ~Registered(c) /\ numberReceivedSymbols[c] = 0,
         requestCONNMap' = IF registers THEN Append(requestCONNMap, c) ELSE requestCONNMap
  PROVE  /\ Stays \/ Joins
         /\ registers => Registered(c)'
         /\ \A d \in Conn : Registered(d) => Registered(d)'
<1>1. CASE ~registers
  BY <1>1 DEF Stays, Registered
<1>2. CASE registers
  <2>1. pullQueue[c] = <<>>
    BY <1>2 DEF JoinsInTime
  <2>2. requestCONNMap' = Append(requestCONNMap, c)
    BY <1>2
  <2>3. /\ Len(requestCONNMap') = Len(requestCONNMap) + 1
        /\ \A i \in 1 .. Len(requestCONNMap) : requestCONNMap'[i] = requestCONNMap[i]
        /\ requestCONNMap'[Len(requestCONNMap) + 1] = c
    BY <2>2, AppendProperties DEF TypeOK
  <2>4. Len(requestCONNMap) \in Nat
    BY LenProperties DEF TypeOK
  <2>5. Registered(c)'
    BY <2>3, <2>4 DEF Registered
  <2>6. \A d \in Conn : Registered(d) => Registered(d)'
    BY <2>3, <2>4 DEF Registered
  <2> QED
    BY <1>2, <2>1, <2>2, <2>5, <2>6 DEF Joins
<1> QED
  BY <1>1, <1>2

LEMMA QuietStep ==
  ASSUME TypeOK, JoinsInTime, UNCHANGED <<pullQueue, numberReceivedSymbols, requestCONNMap, counter>>
  PROVE  JoinsInTime' /\ Stays
  BY SameQueues DEF JoinsInTime, Registered, Stays

LEMMA HeaderJoins ==
  ASSUME TypeOK, JoinsInTime, NEW p \in wire, RcvHeader(p)
  PROVE  JoinsInTime' /\ (Stays \/ Joins)
<1> DEFINE c == p.conn
           registers == numberReceivedSymbols[c] = 0 /\ ~Registered(c)
<1>1. c \in Conn
  BY WireType
<1>2. QueuesKept
  BY <1>1, AddedQueues DEF RcvHeader
<1>3. /\ requestCONNMap' = IF registers THEN Append(requestCONNMap, c) ELSE requestCONNMap
      /\ counter' = counter
      /\ numberReceivedSymbols' = numberReceivedSymbols
      /\ AddRequestToPullsQueue(c)
  BY DEF RcvHeader
<1>4. /\ Stays \/ Joins
      /\ registers => Registered(c)'
      /\ \A d \in Conn : Registered(d) => Registered(d)'
  BY <1>1, <1>2, <1>3, JoiningMap
<1>5. ASSUME NEW d \in Conn, ~Registered(d)'
      PROVE  /\ numberReceivedSymbols'[d] > 0 => Wanted[d] = 0
             /\ pullQueue'[d] # <<>> => numberReceivedSymbols'[d] > 0
  <2>1. ~Registered(d)
    BY <1>4, <1>5
  <2>2. numberReceivedSymbols[d] \in Nat
    BY DEF TypeOK
  <2>3. d = c => numberReceivedSymbols[d] > 0
    BY <1>4, <1>5, <2>1, <2>2
  <2>4. d # c => pullQueue'[d] = pullQueue[d]
    BY <1>1, <1>3 DEF AddRequestToPullsQueue, TypeOK
  <2> QED
    BY <1>3, <2>1, <2>3, <2>4 DEF JoinsInTime
<1> QED
  BY <1>4, <1>5 DEF JoinsInTime

LEMMA SymbolJoins ==
  ASSUME TypeOK, JoinsInTime, NEW p \in wire, RcvSymbol(p)
  PROVE  JoinsInTime' /\ (Stays \/ Joins)
<1> DEFINE c == p.conn
           n == numberReceivedSymbols[c] + 1
           asks == Asks(n, p.ssn - (rcvEsi[c] + 1), Wanted[c], connFinished[c])
           registers == n = 1 /\ ~Registered(c)
<1>1. c \in Conn /\ numberReceivedSymbols[c] \in Nat /\ Wanted[c] \in Nat
  BY WireType, WantedAssumption DEF TypeOK
<1>2. /\ requestCONNMap' = IF registers THEN Append(requestCONNMap, c) ELSE requestCONNMap
      /\ counter' = counter
      /\ numberReceivedSymbols' = [numberReceivedSymbols EXCEPT ![c] = n]
      /\ n <= Wanted[c]
      /\ IF asks THEN AddRequestToPullsQueue(c) ELSE UNCHANGED <<rcvRequestId, pullQueue>>
  BY DEF RcvSymbol
<1>3. QueuesKept /\ \A d \in Conn : d # c => pullQueue'[d] = pullQueue[d]
  <2>1. CASE asks
    BY <1>1, <1>2, <2>1, AddedQueues DEF AddRequestToPullsQueue, TypeOK
  <2>2. CASE ~asks
    BY <1>2, <2>2, SameQueues
  <2> QED
    BY <2>1, <2>2
<1> HIDE DEF asks
<1>4. registers => ~Registered(c) /\ numberReceivedSymbols[c] = 0
  BY <1>1
<1>5. /\ Stays \/ Joins
      /\ registers => Registered(c)'
      /\ \A d \in Conn : Registered(d) => Registered(d)'
  <2> HIDE DEF registers
  <2>1. registers \in BOOLEAN
    BY DEF registers
  <2> QED
    BY <1>1, <1>2, <1>3, <1>4, <2>1, JoiningMap
<1>6. ASSUME NEW d \in Conn, ~Registered(d)'
      PROVE  /\ numberReceivedSymbols'[d] > 0 => Wanted[d] = 0
             /\ pullQueue'[d] # <<>> => numberReceivedSymbols'[d] > 0
  <2>1. ~Registered(d)
    BY <1>5, <1>6
  <2>2. d # c
    <3>1. SUFFICES ASSUME d = c PROVE FALSE
      OBVIOUS
    <3>2. numberReceivedSymbols[c] > 0
      BY <1>1, <1>5, <1>6, <2>1, <3>1
    <3>3. Wanted[c] = 0
      BY <2>1, <3>1, <3>2 DEF JoinsInTime
    <3> QED
      BY <1>1, <1>2, <3>3
  <2>3. numberReceivedSymbols'[d] = numberReceivedSymbols[d] /\ pullQueue'[d] = pullQueue[d]
    BY <1>1, <1>2, <1>3, <2>2 DEF TypeOK
  <2> QED
    BY <2>1, <2>3 DEF JoinsInTime
<1> QED
  BY <1>5, <1>6 DEF JoinsInTime

LEMMA ExcessJoins ==
  ASSUME TypeOK, JoinsInTime, NEW p \in wire, RcvExcessSymbol(p)
  PROVE  JoinsInTime' /\ Stays
<1> DEFINE c == p.conn
<1>1. c \in Conn /\ numberReceivedSymbols[c] \in Nat /\ Wanted[c] \in Nat
  BY WireType, WantedAssumption DEF TypeOK
<1>2. /\ numberReceivedSymbols' = [numberReceivedSymbols EXCEPT ![c] = numberReceivedSymbols[c] + 1]
      /\ numberReceivedSymbols[c] + 1 > Wanted[c]
      /\ UNCHANGED <<pullQueue, requestCONNMap, counter>>
  BY DEF RcvExcessSymbol
<1>3. Stays
  BY <1>2, SameQueues DEF Stays
<1>4. ASSUME NEW d \in Conn, ~Registered(d)'
      PROVE  /\ numberReceivedSymbols'[d] > 0 => Wanted[d] = 0
             /\ pullQueue'[d] # <<>> => numberReceivedSymbols'[d] > 0
  <2>1. ~Registered(d)
    BY <1>2, <1>4 DEF Registered
  <2>2. CASE d = c
    <3>1. Wanted[c] = 0
      <4>1. CASE numberReceivedSymbols[c] > 0
        BY <2>1, <2>2, <4>1 DEF JoinsInTime
      <4>2. CASE numberReceivedSymbols[c] = 0
        BY <1>1, <1>2, <4>2
      <4> QED
        BY <1>1, <4>1, <4>2
    <3>2. numberReceivedSymbols'[d] > 0
      BY <1>1, <1>2, <2>2 DEF TypeOK
    <3> QED
      BY <2>2, <3>1, <3>2
  <2>3. CASE d # c
    <3>1. numberReceivedSymbols'[d] = numberReceivedSymbols[d] /\ pullQueue'[d] = pullQueue[d]
      BY <1>1, <1>2, <2>3 DEF TypeOK
    <3> QED
      BY <2>1, <3>1 DEF JoinsInTime
  <2> QED
    BY <2>2, <2>3
<1> QED
  BY <1>3, <1>4 DEF JoinsInTime

LEMMA TickJoins ==
  ASSUME TypeOK, JoinsInTime, RequestTimerFires
  PROVE  JoinsInTime' /\ (Stays \/ Ticks)
<1>1. requestCONNMap' = requestCONNMap /\ numberReceivedSymbols' = numberReceivedSymbols
  BY DEF RequestTimerFires
<1>2. CASE UNCHANGED <<counter, pullQueue>>
  BY <1>1, <1>2, QuietStep
<1>3. CASE ReleaseRequest
  <2>1. PICK c \in Conn :
           pullQueue[c] # <<>> /\ pullQueue' = [pullQueue EXCEPT ![c] = Tail(@)]
    BY <1>3, ReleasedRequest
  <2>2. \A d \in Conn : pullQueue'[d] # <<>> => pullQueue[d] # <<>>
    BY <2>1 DEF TypeOK
  <2> QED
    BY <1>1, <1>3, <2>2 DEF JoinsInTime, Registered, Ticks
<1> QED
  BY <1>2, <1>3 DEF RequestTimerFires

LEMMA StepKinds ==
  ASSUME TypeOK, JoinsInTime, [OrderedNext]_vars
  PROVE  JoinsInTime' /\ (Stays \/ Joins \/ Ticks)
<1>1. ASSUME NEW c \in Conn, SendInitialWindow(c) PROVE JoinsInTime' /\ Stays
  BY <1>1, QuietStep DEF SendInitialWindow, dataVars, hostVars
<1>2. ASSUME NEW r \in requestWire, RcvRequest(r) PROVE JoinsInTime' /\ Stays
  BY <1>2, QuietStep DEF RcvRequest, dataVars, hostVars
<1>3. ASSUME NEW p \in wire, Establish(p) \/ RcvFirstAck(p) \/ Trim(p)
      PROVE  JoinsInTime' /\ Stays
  BY <1>3, QuietStep DEF Establish, RcvFirstAck, Trim, dataVars, hostVars
<1>4. ASSUME NEW g \in Groups, CloseGroup(g) PROVE JoinsInTime' /\ Stays
  BY <1>4, QuietStep DEF CloseGroup, dataVars
<1>5. CASE UNCHANGED vars
  BY <1>5, QuietStep DEF vars, dataVars, hostVars
<1> QED
  BY <1>1, <1>2, <1>3, <1>4, <1>5, HeaderJoins, SymbolJoins, ExcessJoins, TickJoins
  DEF OrderedNext, Endpoints, RcvSegment

----------------------------------------------------------------------------
(* The history variable.                                                    *)

Counts == overtaken' = [c \in Conn |-> [d \in Conn |-> Overtaken(c, d)]]

LEMMA CountsType ==
  ASSUME overtaken \in [Conn -> [Conn -> Nat]], Counts
  PROVE  overtaken' \in [Conn -> [Conn -> Nat]]
<1>1. \A c, d \in Conn : Overtaken(c, d) \in Nat
  BY DEF Overtaken
<1> QED
  BY <1>1 DEF Counts

\* Without a release nobody is overtaken.
LEMMA KeptCounts ==
  ASSUME FairInv, QueuesKept, Counts
  PROVE  overtaken' = overtaken
<1>1. ASSUME NEW c \in Conn, NEW d \in Conn PROVE Overtaken(c, d) = overtaken[c][d]
  <2>1. ~Releases(c) /\ ~Releases(d)
    BY DEF QueuesKept
  <2>2. overtaken[c][d] \in Nat
    BY DEF FairInv
  <2>3. pullQueue[c] = <<>> => overtaken[c][d] = 0
    BY <2>2 DEF FairInv, OvertakenWaits
  <2> QED
    BY <2>1, <2>3 DEF Overtaken
<1>2. overtaken' = [c \in Conn |-> [d \in Conn |-> overtaken[c][d]]]
  BY <1>1 DEF Counts
<1>3. overtaken = [c \in Conn |-> [d \in Conn |-> overtaken[c][d]]]
  BY DEF FairInv
<1> QED
  BY <1>2, <1>3

LEMMA StaysFair ==
  ASSUME FairInv, Stays, Counts, TypeOK', JoinsInTime'
  PROVE  FairInv'
<1>1. overtaken' = overtaken
  BY KeptCounts DEF Stays
<1>2. JoinedOnce' /\ TurnComes'
  BY <1>1 DEF Stays, FairInv, JoinedOnce, TurnComes, Turn, Positions
<1>3. OvertakenWaits'
  BY <1>1 DEF Stays, QueuesKept, FairInv, OvertakenWaits, Registered
<1> QED
  BY <1>1, <1>2, <1>3 DEF FairInv, BoundedOvertaking

LEMMA JoinsFair ==
  ASSUME FairInv, Joins, Counts, TypeOK', JoinsInTime'
  PROVE  FairInv'
<1>1. overtaken' = overtaken
  BY KeptCounts DEF Joins
<1>2. PICK c \in Conn :
         /\ ~Registered(c)
         /\ pullQueue[c] = <<>>
         /\ requestCONNMap' = Append(requestCONNMap, c)
  BY DEF Joins
<1> DEFINE N == Len(requestCONNMap)
<1>3. N \in Nat /\ counter \in 0 .. N /\ counter' = counter
  BY LenProperties DEF FairInv, TypeOK, Joins
<1>4. /\ Len(requestCONNMap') = N + 1
      /\ \A i \in 1 .. N : requestCONNMap'[i] = requestCONNMap[i]
      /\ requestCONNMap'[N + 1] = c
  BY <1>2, AppendProperties DEF FairInv, TypeOK
<1>5. \A i \in 1 .. N : requestCONNMap[i] # c /\ requestCONNMap[i] \in Conn
  BY <1>2, ElementOfSeq DEF Registered, FairInv, TypeOK
<1>6. Positions' = 1 .. N + 1 /\ Positions = 1 .. N
  BY <1>4 DEF Positions
<1> HIDE DEF N
<1>7. JoinedOnce'
  <2> SUFFICES ASSUME NEW i \in 1 .. N + 1, NEW j \in 1 .. N + 1,
                      requestCONNMap'[i] = requestCONNMap'[j]
               PROVE  i = j
    BY <1>6 DEF JoinedOnce
  <2>1. CASE i \in 1 .. N /\ j \in 1 .. N
    BY <1>4, <1>6, <2>1 DEF FairInv, JoinedOnce
  <2>2. CASE i = N + 1 \/ j = N + 1
    BY <1>3, <1>4, <1>5, <2>2
  <2> QED
    BY <1>3, <2>1, <2>2
<1>8. \A d \in Conn : overtaken[c][d] = 0 /\ overtaken[d][c] = 0
  BY <1>2 DEF FairInv, OvertakenWaits
<1>9. TurnComes'
  <2> SUFFICES ASSUME NEW i \in 1 .. N + 1, NEW j \in 1 .. N + 1,
                      overtaken[requestCONNMap'[i]][requestCONNMap'[j]] > 0
               PROVE  Turn(i)' < Turn(j)'
    BY <1>1, <1>6 DEF TurnComes
  <2>1. i # N + 1 /\ j # N + 1
    <3>1. requestCONNMap'[i] \in Conn /\ requestCONNMap'[j] \in Conn
      BY <1>3, <1>4, <1>5
    <3> QED
      BY <1>4, <1>8, <3>1
  <2>2. i \in 1 .. N /\ j \in 1 .. N
    BY <1>3, <2>1
  <2>3. Turn(i) < Turn(j)
    BY <1>4, <1>6, <2>2 DEF FairInv, TurnComes
  <2> QED
    BY <1>3, <1>4, <2>2, <2>3 DEF Turn, N
<1>10. OvertakenWaits'
  <2>1. \A d \in Conn : Registered(d) => Registered(d)'
    BY <1>3, <1>4 DEF Registered, N
  <2> QED
    BY <1>1, <2>1 DEF Joins, QueuesKept, FairInv, OvertakenWaits
<1> QED
  BY <1>1, <1>7, <1>9, <1>10 DEF FairInv, BoundedOvertaking

----------------------------------------------------------------------------
(* A release.                                                               *)

\* The pacer serves the first position in turn that has a request, and moves behind it.
LEMMA Released ==
  ASSUME TypeOK, JoinedOnce, Ticks
  PROVE  \E s \in Positions :
           /\ pullQueue[requestCONNMap[s]] # <<>>
           /\ pullQueue' = [pullQueue EXCEPT ![requestCONNMap[s]] = Tail(@)]
           /\ counter' = s
           /\ \A i \in Positions : Turn(i) < Turn(s) => pullQueue[requestCONNMap[i]] = <<>>
<1> DEFINE N == Len(requestCONNMap)
<1>1. N \in Nat /\ counter \in 0 .. N
  BY LenProperties DEF TypeOK
<1>2. PICK k \in 0 .. N - 1 :
         /\ pullQueue[requestCONNMap[Slot(k) + 1]] # <<>>
         /\ \A j \in 0 .. k - 1 : QueueAt(j) = <<>>
         /\ pullQueue' = [pullQueue EXCEPT ![requestCONNMap[Slot(k) + 1]] = Tail(@)]
         /\ counter' = Slot(k) + 1
  BY DEF Ticks, ReleaseRequest
<1> DEFINE s == Slot(k) + 1
<1>3. s \in 1 .. N /\ Turn(s) = k + 1
  BY <1>1 DEF Slot, Turn
<1>4. ASSUME NEW i \in 1 .. N, Turn(i) < Turn(s) PROVE pullQueue[requestCONNMap[i]] = <<>>
  <2> DEFINE j == Turn(i) - 1
  <2>1. j \in 0 .. k - 1 /\ Slot(j) + 1 = i
    BY <1>1, <1>3, <1>4 DEF Slot, Turn
  <2>2. QueueAt(j) = <<>>
    BY <1>2, <2>1
  <2> QED
    BY <2>1, <2>2 DEF QueueAt
<1> QED
  BY <1>2, <1>3, <1>4 DEF Positions

\* The queue of the served connection shrinks, and no other.
LEMMA ServedQueue ==
  ASSUME TypeOK, NEW c \in Conn, pullQueue[c] # <<>>,
         pullQueue' = [pullQueue EXCEPT ![c] = Tail(@)]
  PROVE  /\ Releases(c)
         /\ \A d \in Conn : d # c => ~Releases(d) /\ pullQueue'[d] = pullQueue[d]
<1>1. pullQueue[c] \in Seq(Nat)
  BY DEF TypeOK
<1>2. Len(Tail(pullQueue[c])) = Len(pullQueue[c]) - 1 /\ Len(pullQueue[c]) \in Nat
  BY <1>1, HeadTailProperties, LenProperties
<1>3. pullQueue'[c] = Tail(pullQueue[c])
  BY DEF TypeOK
<1>4. Releases(c)
  <2>1. Len(pullQueue'[c]) < Len(pullQueue[c])
    BY ONLY <1>2, <1>3
  <2> QED
    BY ONLY <2>1 DEF Releases
<1>5. ASSUME NEW d \in Conn, d # c PROVE ~Releases(d) /\ pullQueue'[d] = pullQueue[d]
  <2>1. pullQueue'[d] = pullQueue[d]
    BY <1>5 DEF TypeOK
  <2>2. Len(pullQueue[d]) \in Nat
    BY LenProperties DEF TypeOK
  <2>3. ~(Len(pullQueue'[d]) < Len(pullQueue[d]))
    BY ONLY <2>1, <2>2
  <2>4. ~Releases(d)
    BY ONLY <2>3 DEF Releases
  <2> QED
    BY <2>1, <2>4
<1> QED
  BY <1>4, <1>5

\* After a release the served position is the last in turn; the others keep their order.
LEMMA TurnAfter ==
  ASSUME TypeOK, requestCONNMap' = requestCONNMap, NEW s \in Positions, counter' = s,
         NEW i \in Positions, NEW j \in Positions, Turn(s) < Turn(i), i # j,
         j = s \/ (Turn(i) < Turn(j) /\ Turn(s) < Turn(j))
  PROVE  Turn(i)' < Turn(j)'
<1>1. Len(requestCONNMap) \in Nat /\ counter \in 0 .. Len(requestCONNMap)
  BY LenProperties DEF TypeOK
<1> QED
  BY <1>1 DEF Turn, Positions

\* Two positions have different turns.
LEMMA TurnsDiffer ==
  ASSUME TypeOK, NEW i \in Positions, NEW j \in Positions, i # j
  PROVE  Turn(i) < Turn(j) \/ Turn(j) < Turn(i)
<1>1. Len(requestCONNMap) \in Nat /\ counter \in 0 .. Len(requestCONNMap)
  BY LenProperties DEF TypeOK
<1> QED
  BY <1>1 DEF Turn, Positions

LEMMA TicksFair ==
  ASSUME FairInv, Ticks, Counts, TypeOK', JoinsInTime'
  PROVE  FairInv'
<1>1. PICK s \in Positions :
         /\ pullQueue[requestCONNMap[s]] # <<>>
         /\ pullQueue' = [pullQueue EXCEPT ![requestCONNMap[s]] = Tail(@)]
         /\ counter' = s
         /\ \A i \in Positions : Turn(i) < Turn(s) => pullQueue[requestCONNMap[i]] = <<>>
  BY Released DEF FairInv
<1> DEFINE e == requestCONNMap[s]
<1>2. \A i \in Positions : requestCONNMap[i] \in Conn
  BY ElementOfSeq DEF FairInv, TypeOK, Positions
<1>3. requestCONNMap' = requestCONNMap /\ Positions' = Positions
  BY DEF Ticks, Positions
<1>4. Releases(e) /\ \A d \in Conn : d # e => ~Releases(d) /\ pullQueue'[d] = pullQueue[d]
  BY <1>1, <1>2, ServedQueue DEF FairInv
<1>5. overtaken' \in [Conn -> [Conn -> Nat]]
  BY CountsType DEF FairInv
\* Who is overtaken after the release.
<1>6. ASSUME NEW c \in Conn, NEW d \in Conn, overtaken'[c][d] > 0
      PROVE  /\ pullQueue[c] # <<>>
             /\ c # e
             /\ d = e => overtaken'[c][d] = overtaken[c][d] + 1
             /\ d # e => overtaken'[c][d] = overtaken[c][d]
  <2>1. overtaken'[c][d] = Overtaken(c, d)
    BY DEF Counts
  <2> QED
    BY <1>4, <1>6, <2>1 DEF Overtaken
\* A waiting connection on the map other than the served one comes later in turn.
<1>7. ASSUME NEW i \in Positions, pullQueue[requestCONNMap[i]] # <<>>, requestCONNMap[i] # e
      PROVE  Turn(s) < Turn(i)
  BY <1>1, <1>7, TurnsDiffer DEF FairInv
\* It had not been overtaken by the served one.
<1>8. ASSUME NEW i \in Positions, pullQueue[requestCONNMap[i]] # <<>>, requestCONNMap[i] # e
      PROVE  overtaken[requestCONNMap[i]][e] = 0
  <2>1. Turn(s) < Turn(i)
    BY <1>7, <1>8
  <2>2. ~(Turn(i) < Turn(s))
    <3>1. Turn(i) \in Int /\ Turn(s) \in Int
      BY LenProperties DEF Turn, Positions, FairInv, TypeOK
    <3> QED
      BY <2>1, <3>1
  <2>3. ~(overtaken[requestCONNMap[i]][e] > 0)
    BY <2>2 DEF FairInv, TurnComes
  <2> QED
    BY <1>2, <2>3 DEF FairInv
<1>9. OvertakenWaits'
  <2> SUFFICES ASSUME NEW c \in Conn, NEW d \in Conn, overtaken'[c][d] > 0
               PROVE  pullQueue'[c] # <<>> /\ Registered(d)'
    BY DEF OvertakenWaits
  <2>1. pullQueue'[c] # <<>>
    BY <1>4, <1>6
  <2>2. Registered(d)
    <3>1. CASE d = e
      BY <3>1 DEF Registered, Positions
    <3>2. CASE d # e
      <4>1. overtaken[c][d] > 0
        BY <1>6, <3>2
      <4> QED
        BY <4>1 DEF FairInv, OvertakenWaits
    <3> QED
      BY <3>1, <3>2
  <2>3. Registered(d)'
    BY <1>3, <2>2 DEF Registered
  <2> QED
    BY <2>1, <2>3
<1>10. TurnComes'
  <2> SUFFICES ASSUME NEW i \in Positions, NEW j \in Positions,
                      overtaken'[requestCONNMap[i]][requestCONNMap[j]] > 0
               PROVE  Turn(i)' < Turn(j)'
    BY <1>3 DEF TurnComes
  <2> DEFINE c == requestCONNMap[i]
             d == requestCONNMap[j]
  <2>1. c \in Conn /\ d \in Conn
    BY <1>2
  <2>2. pullQueue[c] # <<>> /\ c # e
    BY <1>6, <2>1
  <2>3. Turn(s) < Turn(i)
    BY <1>7, <2>2
  <2>4. CASE d = e
    <3>1. j = s
      BY <2>4 DEF FairInv, JoinedOnce
    <3> QED
      BY <1>1, <1>3, <2>2, <2>3, <3>1, TurnAfter DEF FairInv
  <2>5. CASE d # e
    <3>1. overtaken[c][d] > 0
      BY <1>6, <2>1, <2>5
    <3>2. Turn(i) < Turn(j)
      BY <3>1 DEF FairInv, TurnComes
    <3>3. Turn(i) \in Int /\ Turn(j) \in Int /\ Turn(s) \in Int
      BY LenProperties DEF Turn, Positions, FairInv, TypeOK
    <3>4. i # j /\ Turn(s) < Turn(j)
      BY <2>3, <3>2, <3>3
    <3> QED
      BY <1>1, <1>3, <2>3, <3>2, <3>4, TurnAfter DEF FairInv
  <2> QED
    BY <2>4, <2>5
<1>11. BoundedOvertaking'
  <2> SUFFICES ASSUME NEW c \in Conn, NEW d \in Conn, Wanted[c] > 0, overtaken'[c][d] > 0
               PROVE  overtaken'[c][d] <= 1
    BY <1>5 DEF BoundedOvertaking
  <2>1. pullQueue[c] # <<>> /\ c # e
    BY <1>6
  <2>2. Registered(c)
    <3>1. Wanted[c] # 0
      BY WantedAssumption
    <3>2. SUFFICES ASSUME ~Registered(c) PROVE FALSE
      OBVIOUS
    <3> QED
      BY <2>1, <3>1, <3>2 DEF FairInv, JoinsInTime
  <2>3. PICK i \in Positions : requestCONNMap[i] = c
    BY <2>2 DEF Registered, Positions
  <2>4. CASE d = e
    BY <1>6, <1>8, <2>1, <2>3, <2>4
  <2>5. CASE d # e
    BY <1>6, <2>5 DEF FairInv, BoundedOvertaking
  <2> QED
    BY <2>4, <2>5
<1>12. JoinedOnce'
  BY <1>3 DEF FairInv, JoinedOnce
<1> QED
  BY <1>5, <1>9, <1>10, <1>11, <1>12 DEF FairInv

----------------------------------------------------------------------------
LEMMA InitFair == FairInit => FairInv
<1> SUFFICES ASSUME FairInit PROVE FairInv
  OBVIOUS
<1>1. TypeOK /\ Positions = {}
  BY InitType DEF FairInit, Init, Positions
<1>2. JoinsInTime
  BY DEF FairInit, Init, JoinsInTime
<1>3. /\ overtaken \in [Conn -> [Conn -> Nat]]
      /\ \A c, d \in Conn : overtaken[c][d] = 0
  BY DEF FairInit
<1>4. OvertakenWaits /\ BoundedOvertaking
  BY <1>3 DEF OvertakenWaits, BoundedOvertaking
<1> QED
  BY <1>1, <1>2, <1>3, <1>4 DEF FairInv, JoinedOnce, TurnComes

LEMMA NextFair == FairInv /\ [FairNext]_fairVars => FairInv'
<1> SUFFICES ASSUME FairInv, [FairNext]_fairVars PROVE FairInv'
  OBVIOUS
<1>1. CASE FairNext
  <2>1. TypeOK'
    BY <1>1, NextType DEF FairInv, FairNext, OrderedNext, Next
  <2>2. JoinsInTime' /\ (Stays \/ Joins \/ Ticks)
    BY <1>1, StepKinds DEF FairInv, FairNext
  <2>3. Counts
    BY <1>1 DEF FairNext, Counts
  <2> QED
    BY <2>1, <2>2, <2>3, StaysFair, JoinsFair, TicksFair
<1>2. CASE UNCHANGED fairVars
  <2>1. UNCHANGED vars /\ overtaken' = overtaken
    BY <1>2 DEF fairVars
  <2>2. TypeOK'
    BY <2>1, NextType DEF FairInv
  <2> QED
    BY <2>1, <2>2 DEF FairInv, JoinedOnce, JoinsInTime, OvertakenWaits, TurnComes, Turn,
       Positions, Registered, BoundedOvertaking, vars, dataVars, hostVars
<1> QED
  BY <1>1, <1>2

\* Round robin: while a connection that wants anything has a queued request, no other
\* connection has two of its requests released first, however many connections share the
\* pacer and whenever they join its map.
THEOREM OvertakingHolds == FairSpec => []BoundedOvertaking
<1>1. FairInv => BoundedOvertaking
  BY DEF FairInv
<1> QED
  BY <1>1, InitFair, NextFair, PTL DEF FairSpec

=============================================================================
