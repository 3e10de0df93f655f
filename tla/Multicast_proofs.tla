--------------------------- MODULE Multicast_proofs ---------------------------
(***************************************************************************)
(* Proofs about MulticastTransfer: for every group of receivers, initial   *)
(* window, transfer size and amount of trimming, the types, the bound on   *)
(* how far a slow receiver is overrun, and the credit every receiver is    *)
(* left with.                                                              *)
(*                                                                         *)
(* The inductive invariant says, of each receiver, how its state and the   *)
(* sender's determine what leads its path, that its pacer lets requests go *)
(* in the order of their numbers, that it never asks for more than one     *)
(* symbol per segment it has taken, and that its symbols arrive in order.  *)
(***************************************************************************)
EXTENDS MulticastTransfer, FiniteSetTheorems, SequenceTheorems, TLAPS

\* The segments of a path, the unique numbers and the finite path.
Data == [kind : {"SYMBOL", "HEADER"}, ssn : 1 .. sndEsi]

PathType(r) ==
    /\ IsFiniteSet(path[r])
    /\ path[r] \subseteq {Syn, FirstAck} \cup Data
    /\ \A p, q \in path[r] : p.ssn = q.ssn => p = q

\* What leads the path: the SYN until the receiver has heard of the sender, then the
\* first ACK, which is sent when the sender is established.
Handshake(r) ==
    /\ Syn \in path[r] <=> rcv[r].fsm = "LISTEN"
    /\ FirstAck \in path[r] <=> sndFsm = "ESTABLISHED" /\ rcv[r].fsm # "ESTABLISHED"
    /\ rcv[r].fsm = "ESTABLISHED" => sndFsm = "ESTABLISHED"

ReceiverType ==
    [fsm : {"LISTEN", "SYN_RCVD", "ESTABLISHED"},
     esi : Nat, requestId : Nat, received : Nat, delivered : 0 .. Wanted,
     finished : BOOLEAN, final : BOOLEAN, pullQueue : Seq(Nat),
     registered : BOOLEAN, nap : BOOLEAN, requestTimer : BOOLEAN]

\* One receiver: it delivers what it receives, and its queue holds its latest requests.
ReceiverOK(h) ==
    /\ h \in ReceiverType
    /\ h.delivered <= h.received
    /\ Len(h.pullQueue) <= h.requestId
    /\ \A i \in 1 .. Len(h.pullQueue) : h.pullQueue[i] = h.requestId - Len(h.pullQueue) + i

\* Nothing is sent before the sender is established; then the initial window and what
\* has been answered.
SenderOK ==
    /\ sndFsm \in {"SYN_SENT", "ESTABLISHED"}
    /\ sndEsi \in Nat
    /\ sndRequestId \in Nat
    /\ \/ sndEsi = 0 /\ sndRequestId = 0
       \/ sndFsm = "ESTABLISHED" /\ sndEsi = IW + sndRequestId

BackwardOK ==
    /\ backward \subseteq [kind : {"SYNACK", "REQUEST"}, from : Receivers, seq : Nat]
    /\ \A q \in backward : q.kind = "REQUEST" => q.seq <= Released(q.from)

Clocked == sndRequestId = 0 \/ \E r \in Receivers : sndRequestId <= Released(r)

\* One request per segment taken, of IW and those answered.
AsksOnce(r) ==
    IF sndEsi = 0 THEN rcv[r].requestId = 0
    ELSE Cardinality(DataOf(r)) + rcv[r].requestId <= IW + sndRequestId

\* While a receiver wants symbols, those on its path are ahead of those it has received.
Ahead(r) ==
    ~rcv[r].finished /\ rcv[r].received < Wanted =>
        /\ rcv[r].esi <= sndEsi
        /\ \A p \in path[r] : p.kind = "SYMBOL" => rcv[r].esi < p.ssn

Receiver(r) ==
    /\ PathType(r)
    /\ ReceiverOK(rcv[r])
    /\ Handshake(r)
    /\ AsksOnce(r)
    /\ Ahead(r)

GroupInv ==
    /\ SenderOK
    /\ DOMAIN path = Receivers
    /\ rcv \in [Receivers -> ReceiverType]
    /\ BackwardOK
    /\ Clocked
    /\ \A r \in Receivers : Receiver(r)

----------------------------------------------------------------------------
(* A receiver, as a record. *)

\* The last request that the pacer of h has let go.
Last(h) == h.requestId - Len(h.pullQueue)

\* What a step of h leaves alone: it asks for k more symbols and lets no request go.
AsksFor(h, g, k) ==
    /\ g.requestId = h.requestId + k
    /\ Last(g) = Last(h)
    /\ g.fsm = h.fsm
    /\ h.finished => g.finished

LEMMA Asking ==
  ASSUME NEW h, ReceiverOK(h)
  PROVE  LET g == AddRequestToPullsQueue(h)
         IN  /\ ReceiverOK(g)
             /\ AsksFor(h, g, 1)
             /\ g.esi = h.esi /\ g.received = h.received /\ g.delivered = h.delivered
             /\ g.finished = h.finished
             /\ g.registered = h.registered
<1> DEFINE g == AddRequestToPullsQueue(h)
           q == h.pullQueue
           n == h.requestId
           m == n + 1
           s == Append(q, m)
           t == h.requestTimer \/ h.nap
<1>1. h \in ReceiverType /\ q \in Seq(Nat) /\ n \in Nat /\ Len(q) \in Nat /\ Len(q) <= n
  BY LenProperties DEF ReceiverOK, ReceiverType
<1>2. t \in BOOLEAN
  OBVIOUS
<1>3. s \in Seq(Nat) /\ m \in Nat
  BY <1>1, AppendProperties
<1>4. g = [h EXCEPT !.requestId = m, !.pullQueue = s, !.requestTimer = t]
  BY DEF AddRequestToPullsQueue
<1> HIDE DEF g, m, s, t
<1>5. /\ g \in ReceiverType
      /\ g.requestId = m /\ g.pullQueue = s /\ g.fsm = h.fsm
      /\ g.esi = h.esi /\ g.received = h.received /\ g.delivered = h.delivered
      /\ g.finished = h.finished /\ g.registered = h.registered
  BY <1>1, <1>2, <1>3, <1>4 DEF ReceiverType
<1>6. /\ Len(s) = Len(q) + 1
      /\ \A i \in 1 .. Len(q) : s[i] = q[i]
      /\ s[Len(q) + 1] = m
  BY <1>1, <1>3, AppendProperties DEF s
<1>7. m = n + 1
  BY DEF m
<1>8. ASSUME NEW i \in 1 .. Len(s) PROVE s[i] = m - Len(s) + i
  <2>1. i = Len(q) + 1 \/ i \in 1 .. Len(q)
    BY <1>1, <1>6
  <2>2. CASE i = Len(q) + 1
    BY <1>1, <1>6, <1>7, <2>2
  <2>3. CASE i \in 1 .. Len(q)
    <3>1. q[i] = n - Len(q) + i
      BY <2>3 DEF ReceiverOK
    <3> QED
      BY <1>1, <1>6, <1>7, <2>3, <3>1
  <2> QED
    BY <2>1, <2>2, <2>3
<1>9. Last(g) = Last(h) /\ Len(s) <= m
  BY <1>1, <1>5, <1>6, <1>7 DEF Last
<1>10. ReceiverOK(g)
  BY <1>5, <1>8, <1>9 DEF ReceiverOK
<1>11. AsksFor(h, g, 1)
  BY <1>5, <1>7, <1>9 DEF AsksFor
<1> QED
  BY <1>5, <1>10, <1>11 DEF g

\* Joining the pacer's connections changes no number.
LEMMA Registering ==
  ASSUME NEW h, ReceiverOK(h)
  PROVE  LET g == Registered(h)
         IN  /\ ReceiverOK(g)
             /\ g.requestId = h.requestId /\ g.pullQueue = h.pullQueue /\ g.fsm = h.fsm
             /\ g.esi = h.esi /\ g.received = h.received /\ g.delivered = h.delivered
             /\ g.finished = h.finished
<1> DEFINE g == Registered(h)
<1>1. /\ g \in ReceiverType
      /\ g.requestId = h.requestId /\ g.pullQueue = h.pullQueue /\ g.fsm = h.fsm
      /\ g.esi = h.esi /\ g.received = h.received /\ g.delivered = h.delivered
      /\ g.finished = h.finished
  BY DEF ReceiverOK, ReceiverType, Registered
<1> HIDE DEF g
<1>2. ReceiverOK(g)
  BY <1>1 DEF ReceiverOK
<1> QED
  BY <1>1, <1>2 DEF g

LEMMA Heading ==
  ASSUME NEW h, ReceiverOK(h)
  PROVE  LET g == AfterHeader(h)
         IN  /\ ReceiverOK(g)
             /\ AsksFor(h, g, 1)
             /\ g.esi = h.esi /\ g.received = h.received /\ g.finished = h.finished
<1> DEFINE a == AddRequestToPullsQueue(h)
           b == Registered(a)
<1>1. /\ ReceiverOK(a) /\ AsksFor(h, a, 1)
      /\ a.esi = h.esi /\ a.received = h.received /\ a.finished = h.finished
  BY Asking
<1> HIDE DEF a
<1>2. /\ ReceiverOK(b)
      /\ b.requestId = a.requestId /\ b.pullQueue = a.pullQueue /\ b.fsm = a.fsm
      /\ b.esi = a.esi /\ b.received = a.received /\ b.finished = a.finished
  BY <1>1, Registering
<1>3. AfterHeader(h) = a \/ AfterHeader(h) = b
  BY DEF AfterHeader, a
<1> HIDE DEF b
<1>4. AsksFor(h, b, 1)
  BY <1>1, <1>2 DEF AsksFor, Last
<1> QED
  BY <1>1, <1>2, <1>3, <1>4

LEMMA ExcessTaking ==
  ASSUME NEW h, ReceiverOK(h)
  PROVE  LET g == AfterExcessSymbol(h)
         IN  ReceiverOK(g) /\ AsksFor(h, g, 0) /\ g.finished
<1> DEFINE g == AfterExcessSymbol(h)
           e == h.esi + 1
           n == h.received + 1
<1>1. /\ h \in ReceiverType /\ h.esi \in Nat /\ h.received \in Nat /\ h.requestId \in Nat
      /\ h.delivered \in Nat /\ Len(h.pullQueue) \in Nat
  BY LenProperties DEF ReceiverOK, ReceiverType
<1>2. g = [h EXCEPT !.esi = e, !.received = n, !.finished = TRUE, !.requestTimer = FALSE]
  BY DEF AfterExcessSymbol
<1>3. e \in Nat /\ n \in Nat /\ n = h.received + 1
  BY <1>1
<1> HIDE DEF g, e, n
<1>4. /\ g \in ReceiverType
      /\ g.requestId = h.requestId /\ g.pullQueue = h.pullQueue /\ g.fsm = h.fsm
      /\ g.received = n /\ g.delivered = h.delivered /\ g.finished = TRUE
  BY <1>1, <1>2, <1>3 DEF ReceiverType
<1>5. ReceiverOK(g)
  BY <1>1, <1>3, <1>4 DEF ReceiverOK
<1>6. AsksFor(h, g, 0)
  BY <1>1, <1>4 DEF AsksFor, Last
<1> QED
  BY <1>4, <1>5, <1>6 DEF g

LEMMA WantedTaking ==
  ASSUME NEW h, ReceiverOK(h), NEW ssn \in Nat, h.received + 1 <= Wanted
  PROVE  LET g == AfterWantedSymbol(h, ssn)
             n == h.received + 1
             asks == Asks(n, ssn - (h.esi + 1), Wanted, h.finished)
         IN  /\ ReceiverOK(g)
             /\ AsksFor(h, g, IF asks THEN 1 ELSE 0)
             /\ g.esi = NextEsi(h.esi, ssn, n, Wanted, h.finished)
             /\ g.received = n /\ g.finished = h.finished
<1> DEFINE n == h.received + 1
           asks == Asks(n, ssn - (h.esi + 1), Wanted, h.finished)
           a == IF asks THEN AddRequestToPullsQueue(h) ELSE h
           b == IF n = 1 /\ ~a.registered THEN Registered(a) ELSE a
           e == NextEsi(h.esi, ssn, n, Wanted, h.finished)
           d == IF h.finished THEN h.delivered ELSE h.delivered + 1
           f == b.final \/ IsFinal(n, Wanted, h.finished)
           g == [b EXCEPT !.esi = e, !.received = n, !.delivered = d, !.final = f]
<1>1. /\ h \in ReceiverType /\ h.esi \in Nat /\ h.received \in Nat /\ h.delivered \in Nat
      /\ h.delivered <= h.received /\ n \in Nat /\ Wanted \in Nat
      /\ h.requestId \in Nat /\ Len(h.pullQueue) \in Nat
  BY LenProperties, MulticastAssumption DEF ReceiverOK, ReceiverType
<1>2. e \in Nat
  BY <1>1 DEF NextEsi
<1>3. d \in 0 .. Wanted /\ d <= n
  BY <1>1
<1>4. f \in BOOLEAN
  OBVIOUS
<1>5. /\ ReceiverOK(a) /\ AsksFor(h, a, IF asks THEN 1 ELSE 0)
      /\ a.esi = h.esi /\ a.received = h.received /\ a.delivered = h.delivered
      /\ a.finished = h.finished /\ a.registered = h.registered
  <2>1. CASE asks
    <3>1. a = AddRequestToPullsQueue(h)
      BY <2>1
    <3> HIDE DEF a, asks
    <3> QED
      BY <2>1, <3>1, Asking
  <2>2. CASE ~asks
    <3>1. a = h
      BY <2>2
    <3> HIDE DEF a, asks
    <3> QED
      BY <1>1, <2>2, <3>1 DEF AsksFor, Last
  <2> QED
    BY <2>1, <2>2
<1> HIDE DEF asks, a
<1>6. /\ ReceiverOK(b) /\ AsksFor(h, b, IF asks THEN 1 ELSE 0)
      /\ b.esi = h.esi /\ b.delivered = h.delivered /\ b.finished = h.finished
  BY <1>5, Registering DEF AsksFor, Last
<1>7. AfterWantedSymbol(h, ssn) = g
  <2>1. /\ b.esi = h.esi /\ b.delivered = h.delivered
    BY <1>6
  <2>2. AfterWantedSymbol(h, ssn) =
          [b EXCEPT !.esi = NextEsi(@, ssn, n, Wanted, h.finished),
                    !.received = n,
                    !.delivered = IF h.finished THEN @ ELSE @ + 1,
                    !.final = @ \/ IsFinal(n, Wanted, h.finished)]
    <3>1. a.registered = h.registered
      BY <1>5
    <3> QED
      BY <3>1 DEF AfterWantedSymbol, b, a, asks
  <2> HIDE DEF b, n
  <2> QED
    BY <2>1, <2>2
<1> HIDE DEF b, e, d, f, n
<1>8. /\ g \in ReceiverType
      /\ g.requestId = b.requestId /\ g.pullQueue = b.pullQueue /\ g.fsm = b.fsm
      /\ g.esi = e /\ g.received = n /\ g.delivered = d /\ g.finished = b.finished
  BY <1>1, <1>2, <1>3, <1>4, <1>6 DEF ReceiverOK, ReceiverType
<1> HIDE DEF g
<1>9. ReceiverOK(g)
  BY <1>3, <1>6, <1>8 DEF ReceiverOK
<1>10. AsksFor(h, g, IF asks THEN 1 ELSE 0)
  BY <1>6, <1>8 DEF AsksFor, Last
<1> QED
  BY <1>6, <1>7, <1>8, <1>9, <1>10 DEF n, e, asks

----------------------------------------------------------------------------
(* A path. *)

LEMMA DataCount ==
  ASSUME NEW r \in Receivers, IsFiniteSet(path[r])
  PROVE  IsFiniteSet(DataOf(r)) /\ Cardinality(DataOf(r)) \in Nat
<1>1. DataOf(r) \in SUBSET path[r]
  BY DEF DataOf
<1> QED
  BY <1>1, FS_Subset, FS_CardinalityType

LEMMA IntervalCount ==
  ASSUME NEW a \in Nat, NEW k \in Nat
  PROVE  IsFiniteSet(a + 1 .. a + k) /\ Cardinality(a + 1 .. a + k) = k
<1> DEFINE first == a + 1
           last == a + k
<1>1. first \in Int /\ last \in Int
  OBVIOUS
<1>2. first > last => k = 0
  OBVIOUS
<1>3. last - first + 1 = k
  OBVIOUS
<1> HIDE DEF first, last
<1>4. /\ IsFiniteSet(first .. last)
      /\ Cardinality(first .. last) = IF first > last THEN 0 ELSE last - first + 1
  BY <1>1, FS_Interval
<1>5. IsFiniteSet(first .. last) /\ Cardinality(first .. last) = k
  BY <1>2, <1>3, <1>4
<1> QED
  BY <1>5 DEF first, last

\* k new symbols are as many segments.
LEMMA NewSymbolsCount ==
  ASSUME sndEsi \in Nat, NEW k \in Nat
  PROVE  IsFiniteSet(NewSymbols(k)) /\ Cardinality(NewSymbols(k)) = k
<1> DEFINE I == sndEsi + 1 .. sndEsi + k
           f == [i \in I |-> Symbol(i)]
<1>1. IsFiniteSet(I) /\ Cardinality(I) = k
  BY IntervalCount
<1>2. f \in Bijection(I, NewSymbols(k))
  <2>1. f \in Surjection(I, NewSymbols(k))
    BY DEF NewSymbols, Surjection
  <2>2. \A i, j \in I : f[i] = f[j] => i = j
    BY DEF Symbol
  <2> QED
    BY <2>1, <2>2 DEF Bijection, Injection, IsInjective, Surjection
<1>3. IsFiniteSet(NewSymbols(k)) /\ Cardinality(NewSymbols(k)) = Cardinality(I)
  <2>1. ExistsBijection(I, NewSymbols(k))
    BY <1>2 DEF ExistsBijection
  <2> HIDE DEF I, f
  <2> QED
    BY <1>1, <2>1, FS_Bijection
<1> QED
  BY <1>1, <1>3

\* The next k symbols go to every receiver.
LEMMA SentPaths ==
  ASSUME GroupInv, NEW k \in Nat, sndFsm = "ESTABLISHED",
         Multicast(NewSymbols(k)), sndEsi' = sndEsi + k,
         UNCHANGED <<sndFsm, rcv>>,
         NEW r \in Receivers
  PROVE  /\ PathType(r)'
         /\ Cardinality(DataOf(r)') = Cardinality(DataOf(r)) + k
         /\ Handshake(r)'
         /\ Ahead(r)'
<1> DEFINE S == NewSymbols(k)
<1>1. /\ Receiver(r) /\ sndEsi \in Nat /\ sndEsi' \in Nat
      /\ path'[r] = path[r] \cup S
  BY DEF GroupInv, SenderOK, Multicast
<1>2. \A p \in S : /\ p.kind = "SYMBOL" /\ p.ssn \in sndEsi + 1 .. sndEsi'
                   /\ p = Symbol(p.ssn)
  BY <1>1 DEF NewSymbols, Symbol
<1>3. /\ IsFiniteSet(path[r]) /\ path[r] \subseteq {Syn, FirstAck} \cup Data
      /\ \A p, q \in path[r] : p.ssn = q.ssn => p = q
  BY <1>1 DEF Receiver, PathType
<1>4. \A p \in path[r] : p.ssn \in -1 .. sndEsi
  BY <1>1, <1>3 DEF Data, Syn, FirstAck
<1>5. IsFiniteSet(S) /\ Cardinality(S) = k
  BY <1>1, NewSymbolsCount
<1>6. PathType(r)'
  <2>1. IsFiniteSet(path'[r])
    <3>1. IsFiniteSet(path[r] \cup S)
      BY <1>3, <1>5, FS_Union
    <3> QED
      BY <1>1, <3>1
  <2>2. path'[r] \subseteq {Syn, FirstAck} \cup Data'
    <3>1. Data \subseteq Data'
      BY <1>1 DEF Data
    <3>2. S \subseteq Data'
      BY <1>1 DEF Data, NewSymbols, Symbol
    <3> QED
      BY <1>1, <1>3, <3>1, <3>2
  <2>3. \A p, q \in path'[r] : p.ssn = q.ssn => p = q
    BY <1>1, <1>2, <1>3, <1>4
  <2> QED
    BY <2>1, <2>2, <2>3 DEF PathType, Syn, FirstAck
<1>7. Cardinality(DataOf(r)') = Cardinality(DataOf(r)) + k
  <2>1. DataOf(r)' = DataOf(r) \cup S
    BY <1>1, <1>2 DEF DataOf
  <2>2. DataOf(r) \cap S = {}
    BY <1>1, <1>2, <1>4 DEF DataOf
  <2>3. IsFiniteSet(DataOf(r)) /\ Cardinality(DataOf(r)) \in Nat
    BY <1>3, DataCount
  <2>4. Cardinality(DataOf(r) \cup S)
          = Cardinality(DataOf(r)) + Cardinality(S) - Cardinality(DataOf(r) \cap S)
    BY <1>5, <2>3, FS_Union
  <2>5. Cardinality(DataOf(r) \cap S) = 0
    BY <2>2, FS_EmptySet
  <2> HIDE DEF S
  <2> QED
    BY <1>5, <2>1, <2>3, <2>4, <2>5
<1>8. Handshake(r)'
  <2>1. Syn \notin S /\ FirstAck \notin S
    BY <1>2 DEF Syn, FirstAck
  <2>2. /\ Syn \in path'[r] <=> Syn \in path[r]
        /\ FirstAck \in path'[r] <=> FirstAck \in path[r]
    BY <1>1, <2>1
  <2> QED
    BY <1>1, <2>2 DEF Receiver, Handshake, Syn, FirstAck
<1>9. Ahead(r)'
  BY <1>1, <1>2 DEF Receiver, Ahead, ReceiverOK, ReceiverType
<1> QED
  BY <1>6, <1>7, <1>8, <1>9

\* A segment is taken from the path.
LEMMA TakenPath ==
  ASSUME GroupInv, NEW r \in Receivers, NEW p \in path[r], path' = [path EXCEPT ![r] = @ \ {p}],
         sndEsi' = sndEsi
  PROVE  /\ path'[r] = path[r] \ {p}
         /\ PathType(r)'
         /\ DataOf(r)' = DataOf(r) \ {p}
         /\ Cardinality(DataOf(r)') =
                Cardinality(DataOf(r)) - (IF p \in DataOf(r) THEN 1 ELSE 0)
<1>1. path'[r] = path[r] \ {p} /\ PathType(r)
  BY DEF GroupInv, Receiver
<1>2. IsFiniteSet(path'[r])
  BY <1>1, FS_RemoveElement DEF PathType
<1>3. PathType(r)'
  BY <1>1, <1>2 DEF PathType, Data, Syn, FirstAck
<1>4. DataOf(r)' = DataOf(r) \ {p}
  BY <1>1 DEF DataOf
<1>5. IsFiniteSet(DataOf(r)) /\ Cardinality(DataOf(r)) \in Nat
  BY <1>1, DataCount DEF PathType
<1>6. Cardinality(DataOf(r) \ {p})
        = IF p \in DataOf(r) THEN Cardinality(DataOf(r)) - 1 ELSE Cardinality(DataOf(r))
  BY <1>5, FS_RemoveElement
<1> QED
  BY <1>1, <1>3, <1>4, <1>5, <1>6

\* A trimmed symbol keeps its place on the path.
LEMMA TrimmedPath ==
  ASSUME GroupInv, NEW r \in Receivers, NEW p \in path[r], Trim(r, p)
  PROVE  Receiver(r)' /\ Cardinality(DataOf(r)') = Cardinality(DataOf(r))
<1> DEFINE h == Header(p.ssn)
<1>1. /\ Receiver(r) /\ p.kind = "SYMBOL" /\ path'[r] = (path[r] \ {p}) \cup {h}
      /\ UNCHANGED <<sndFsm, sndEsi, sndRequestId, rcv>>
  BY DEF GroupInv, Trim
<1>2. p \in Data /\ h \in Data /\ h.kind = "HEADER" /\ h.ssn = p.ssn
  BY <1>1 DEF Receiver, PathType, Data, Header, Syn, FirstAck
<1>3. /\ IsFiniteSet(path[r])
      /\ path[r] \subseteq {Syn, FirstAck} \cup Data
      /\ \A q1, q2 \in path[r] : q1.ssn = q2.ssn => q1 = q2
  BY <1>1 DEF Receiver, PathType
<1>4. h \notin path[r]
  BY <1>1, <1>2, <1>3
<1>5. PathType(r)'
  <2>1. IsFiniteSet(path'[r])
    <3>1. IsFiniteSet(path[r] \ {p})
      BY <1>3, FS_RemoveElement
    <3>2. IsFiniteSet((path[r] \ {p}) \cup {h})
      BY <3>1, FS_AddElement
    <3> QED
      BY <1>1, <3>2
  <2>2. \A q1, q2 \in path'[r] : q1.ssn = q2.ssn => q1 = q2
    BY <1>1, <1>2, <1>3
  <2> QED
    BY <1>1, <1>2, <1>3, <2>1, <2>2 DEF PathType, Data, Syn, FirstAck
<1>6. Handshake(r)'
  <2>1. /\ Syn \in path'[r] <=> Syn \in path[r]
        /\ FirstAck \in path'[r] <=> FirstAck \in path[r]
    BY <1>1, <1>2 DEF Syn, FirstAck
  <2> QED
    BY <1>1, <2>1 DEF Receiver, Handshake, Syn, FirstAck
<1>7. Cardinality(DataOf(r)') = Cardinality(DataOf(r))
  <2>1. DataOf(r)' = (DataOf(r) \ {p}) \cup {h} /\ p \in DataOf(r) /\ h \notin DataOf(r)
    BY <1>1, <1>2, <1>4 DEF DataOf
  <2>2. IsFiniteSet(DataOf(r)) /\ Cardinality(DataOf(r)) \in Nat
    BY <1>3, DataCount
  <2>3. IsFiniteSet(DataOf(r) \ {p}) /\ Cardinality(DataOf(r) \ {p}) = Cardinality(DataOf(r)) - 1
    BY <2>1, <2>2, FS_RemoveElement
  <2> DEFINE D == DataOf(r) \ {p}
  <2>4. h \notin D
    BY <2>1
  <2>5. Cardinality(D \cup {h}) = Cardinality(D) + 1
    <3> HIDE DEF D, h
    <3> QED
      BY <2>3, <2>4, FS_AddElement DEF D
  <2> HIDE DEF h
  <2> QED
    BY <2>1, <2>2, <2>3, <2>5
<1>8. AsksOnce(r)'
  BY <1>1, <1>7 DEF Receiver, AsksOnce
<1>9. Ahead(r)'
  <2>1. \A q \in path'[r] : q.kind = "SYMBOL" => q \in path[r]
    BY <1>1, <1>2
  <2> QED
    BY <1>1, <2>1 DEF Receiver, Ahead
<1> QED
  BY <1>1, <1>5, <1>6, <1>7, <1>8, <1>9 DEF Receiver

\* A receiver that takes no part in a step.
LEMMA SameReceiver ==
  ASSUME NEW r \in Receivers, Receiver(r), path'[r] = path[r], rcv'[r] = rcv[r],
         UNCHANGED <<sndFsm, sndEsi, sndRequestId>>
  PROVE  Receiver(r)' /\ DataOf(r)' = DataOf(r) /\ Released(r)' = Released(r)
<1>1. DataOf(r)' = DataOf(r)
  BY DEF DataOf
<1>2. PathType(r)' /\ Handshake(r)' /\ AsksOnce(r)' /\ Ahead(r)'
  BY <1>1 DEF Receiver, PathType, Handshake, AsksOnce, Ahead, Data, Syn, FirstAck
<1> QED
  BY <1>1, <1>2 DEF Receiver, Released

----------------------------------------------------------------------------
(* A segment arrives. *)

\* In the order of a path the handshake comes first.
LEMMA FirstOnPath ==
  ASSUME GroupInv, NEW r \in Receivers, NEW p \in path[r], InOrder(r, p)
  PROVE  /\ rcv[r].fsm = "LISTEN" => p = Syn
         /\ rcv[r].fsm = "SYN_RCVD" => p = FirstAck
         /\ rcv[r].fsm = "ESTABLISHED" => p \in Data /\ sndFsm = "ESTABLISHED"
<1>1. /\ Handshake(r) /\ SenderOK
      /\ path[r] \subseteq {Syn, FirstAck} \cup Data
  BY DEF GroupInv, Receiver, PathType
<1>2. CASE rcv[r].fsm = "LISTEN"
  <2>1. Syn \in path[r]
    BY <1>1, <1>2 DEF Handshake
  <2>2. p # Syn => -1 < p.ssn
    BY <1>1 DEF Data, FirstAck
  <2> QED
    BY <1>2, <2>1, <2>2 DEF InOrder, Syn
<1>3. CASE rcv[r].fsm = "SYN_RCVD"
  <2>1. Syn \notin path[r]
    BY <1>1, <1>3 DEF Handshake
  <2>2. CASE sndFsm = "SYN_SENT"
    <3>1. sndEsi = 0 /\ FirstAck \notin path[r]
      BY <1>1, <2>2 DEF SenderOK, Handshake
    <3>2. Data = {}
      BY <3>1 DEF Data
    <3> QED
      BY <1>1, <2>1, <3>1, <3>2
  <2>3. CASE sndFsm = "ESTABLISHED"
    <3>1. FirstAck \in path[r]
      BY <1>1, <1>3, <2>3 DEF Handshake
    <3>2. p # FirstAck => 0 < p.ssn
      BY <1>1, <2>1 DEF Data
    <3> QED
      BY <1>3, <3>1, <3>2 DEF InOrder, FirstAck
  <2> QED
    BY <1>1, <2>2, <2>3 DEF SenderOK
<1>4. CASE rcv[r].fsm = "ESTABLISHED"
  BY <1>1, <1>4 DEF Handshake
<1>5. rcv[r].fsm \in {"LISTEN", "SYN_RCVD", "ESTABLISHED"}
  BY DEF GroupInv, ReceiverType
<1> QED
  BY <1>2, <1>3, <1>4, <1>5

\* A segment of the handshake changes the state alone.
LEMMA HandshakeStep ==
  ASSUME GroupInv, NEW r \in Receivers, NEW p \in path[r], RcvSegment(r, p),
         rcv[r].fsm # "ESTABLISHED"
  PROVE  /\ Receiver(r)'
         /\ Released(r)' = Released(r)
         /\ DataOf(r)' = DataOf(r)
         /\ \A f \in {"received", "requestId", "finished"} : rcv'[r][f] = rcv[r][f]
<1> DEFINE h == rcv[r]
           next == IF h.fsm = "LISTEN" THEN "SYN_RCVD" ELSE "ESTABLISHED"
           g == [h EXCEPT !.fsm = next]
<1>1. /\ Receiver(r) /\ SenderOK /\ rcv \in [Receivers -> ReceiverType]
      /\ h.fsm \in {"LISTEN", "SYN_RCVD"}
  BY DEF GroupInv, ReceiverType
<1>2. rcv'[r] = g
  BY <1>1 DEF RcvSegment, AfterSegment
<1>3. /\ path' = [path EXCEPT ![r] = @ \ {p}]
      /\ UNCHANGED <<sndFsm, sndEsi, sndRequestId>>
      /\ h.fsm = "LISTEN" => p = Syn
      /\ h.fsm = "SYN_RCVD" => p = FirstAck
  BY FirstOnPath DEF RcvSegment
<1>4. path'[r] = path[r] \ {p} /\ PathType(r)' /\ DataOf(r)' = DataOf(r) \ {p}
  BY <1>3, TakenPath
<1>5. DataOf(r)' = DataOf(r)
  BY <1>1, <1>3, <1>4 DEF DataOf, Syn, FirstAck
<1>6. /\ g \in ReceiverType /\ g.fsm = next
      /\ g.esi = h.esi /\ g.requestId = h.requestId /\ g.received = h.received
      /\ g.delivered = h.delivered /\ g.finished = h.finished /\ g.pullQueue = h.pullQueue
  BY <1>1 DEF ReceiverType
<1>7. ReceiverOK(g)
  <2> HIDE DEF g
  <2> QED
    BY <1>1, <1>6 DEF Receiver, ReceiverOK
<1>8. Handshake(r)'
  <2>1. CASE h.fsm = "LISTEN"
    <3>1. p = Syn /\ g.fsm = "SYN_RCVD"
      BY <1>3, <1>6, <2>1
    <3>2. FirstAck \in path'[r] <=> FirstAck \in path[r]
      BY <1>4, <3>1 DEF FirstAck, Syn
    <3>3. Syn \notin path'[r]
      BY <1>4, <3>1
    <3> HIDE DEF g
    <3> QED
      BY <1>1, <1>2, <1>3, <2>1, <3>1, <3>2, <3>3 DEF Receiver, Handshake, Syn, FirstAck
  <2>2. CASE h.fsm = "SYN_RCVD"
    <3>1. p = FirstAck /\ g.fsm = "ESTABLISHED"
      BY <1>3, <1>6, <2>2
    <3>2. FirstAck \notin path'[r] /\ Syn \notin path'[r]
      BY <1>1, <1>4, <2>2, <3>1 DEF Receiver, Handshake
    <3>3. sndFsm = "ESTABLISHED"
      BY <1>1, <2>2, <3>1 DEF Receiver, Handshake
    <3> HIDE DEF g
    <3> QED
      BY <1>2, <1>3, <3>1, <3>2, <3>3 DEF Handshake, Syn, FirstAck
  <2> QED
    BY <1>1, <2>1, <2>2
<1> HIDE DEF g
<1>9. AsksOnce(r)'
  BY <1>1, <1>2, <1>3, <1>5, <1>6 DEF Receiver, AsksOnce
<1>10. Ahead(r)'
  BY <1>1, <1>2, <1>3, <1>4, <1>6 DEF Receiver, Ahead
<1>11. Receiver(r)'
  BY <1>2, <1>4, <1>7, <1>8, <1>9, <1>10 DEF Receiver
<1>12. Released(r)' = Released(r)
  BY <1>2, <1>6 DEF Released
<1> QED
  BY <1>2, <1>5, <1>6, <1>11, <1>12

\* A segment that carries data, when it has made g of the receiver, which asks for k
\* symbols.
LEMMA DataStep ==
  ASSUME GroupInv, NEW r \in Receivers, NEW p \in path[r], RcvSegment(r, p),
         rcv[r].fsm = "ESTABLISHED",
         NEW k \in {0, 1},
         ReceiverOK(rcv'[r]), AsksFor(rcv[r], rcv'[r], k),
         Ahead(r)'
  PROVE  /\ Receiver(r)'
         /\ Released(r)' = Released(r)
         /\ sndEsi > 0
         /\ Cardinality(DataOf(r)) \in Nat
         /\ Cardinality(DataOf(r)') = Cardinality(DataOf(r)) - 1
<1> DEFINE h == rcv[r]
           g == rcv'[r]
<1>1. /\ Receiver(r) /\ SenderOK
      /\ path' = [path EXCEPT ![r] = @ \ {p}]
      /\ UNCHANGED <<sndFsm, sndEsi, sndRequestId>>
  BY DEF RcvSegment, GroupInv
<1>2. p \in Data /\ sndFsm = "ESTABLISHED"
  BY FirstOnPath DEF RcvSegment
<1>3. p \in DataOf(r) /\ sndEsi > 0 /\ sndEsi \in Nat
  BY <1>1, <1>2 DEF DataOf, Data, SenderOK
<1>4. /\ path'[r] = path[r] \ {p} /\ PathType(r)'
      /\ Cardinality(DataOf(r)') = Cardinality(DataOf(r)) - 1
  BY <1>1, <1>3, TakenPath
<1>5. Cardinality(DataOf(r)) \in Nat
  BY <1>1, DataCount DEF Receiver, PathType
<1>6. g.fsm = "ESTABLISHED" /\ g.requestId = h.requestId + k /\ Last(g) = Last(h)
  BY DEF AsksFor
<1>7. Handshake(r)'
  <2>1. Syn \notin path'[r] /\ FirstAck \notin path'[r]
    BY <1>1, <1>4 DEF Receiver, Handshake
  <2> QED
    BY <1>1, <1>2, <1>6, <2>1 DEF Handshake, Syn, FirstAck
<1>8. AsksOnce(r)'
  <2>1. h.requestId \in Nat /\ sndRequestId \in Nat /\ IW \in Nat
    BY <1>1, MulticastAssumption DEF Receiver, ReceiverOK, ReceiverType, SenderOK
  <2>2. Cardinality(DataOf(r)) + h.requestId <= IW + sndRequestId
    BY <1>1, <1>3 DEF Receiver, AsksOnce
  <2>3. Cardinality(DataOf(r)') + g.requestId <= IW + sndRequestId
    BY <1>4, <1>5, <1>6, <2>1, <2>2
  <2> QED
    BY <1>1, <1>3, <2>3 DEF AsksOnce
<1> QED
  BY <1>3, <1>4, <1>5, <1>6, <1>7, <1>8 DEF Receiver, Released, Last

\* EnoughCredit, of one receiver.
CreditOf(r) ==
    \/ rcv[r].finished
    \/ Credit(r) = IW
    \/ rcv[r].received + Credit(r) >= Wanted

LEMMA HeaderStep ==
  ASSUME GroupInv, NEW r \in Receivers, NEW p \in path[r], RcvSegment(r, p),
         rcv[r].fsm = "ESTABLISHED", p.kind = "HEADER"
  PROVE  Receiver(r)' /\ Released(r)' = Released(r) /\ (CreditOf(r) => CreditOf(r)')
<1> DEFINE h == rcv[r]
           g == AfterHeader(h)
<1>1. /\ Receiver(r) /\ ReceiverOK(h) /\ SenderOK /\ rcv \in [Receivers -> ReceiverType]
      /\ path' = [path EXCEPT ![r] = @ \ {p}]
      /\ UNCHANGED <<sndEsi, sndRequestId>>
  BY DEF GroupInv, Receiver, RcvSegment
<1>2. rcv'[r] = g
  BY <1>1 DEF RcvSegment, AfterSegment
<1>3. /\ ReceiverOK(g) /\ AsksFor(h, g, 1)
      /\ g.esi = h.esi /\ g.received = h.received /\ g.finished = h.finished
  BY <1>1, Heading
<1> HIDE DEF g
<1>4. Ahead(r)'
  <2>1. path'[r] \subseteq path[r]
    BY <1>1 DEF GroupInv
  <2> QED
    BY <1>1, <1>2, <1>3, <2>1 DEF Receiver, Ahead
<1>5. /\ Receiver(r)' /\ Released(r)' = Released(r) /\ sndEsi > 0
      /\ Cardinality(DataOf(r)) \in Nat
      /\ Cardinality(DataOf(r)') = Cardinality(DataOf(r)) - 1
  BY <1>2, <1>3, <1>4, DataStep
<1>6. Credit(r)' = Credit(r)
  <2>1. h.requestId \in Nat /\ sndRequestId \in Nat /\ g.requestId = h.requestId + 1
    BY <1>1, <1>3 DEF ReceiverOK, ReceiverType, SenderOK, AsksFor
  <2>2. sndEsi # 0 /\ sndEsi' # 0
    BY <1>1, <1>5
  <2> QED
    BY <1>1, <1>2, <1>5, <2>1, <2>2 DEF Credit
<1> QED
  BY <1>2, <1>3, <1>5, <1>6 DEF CreditOf

LEMMA ExcessStep ==
  ASSUME GroupInv, NEW r \in Receivers, NEW p \in path[r], RcvSegment(r, p),
         rcv[r].fsm = "ESTABLISHED", p.kind = "SYMBOL", rcv[r].received + 1 > Wanted
  PROVE  Receiver(r)' /\ Released(r)' = Released(r) /\ CreditOf(r)'
<1> DEFINE h == rcv[r]
           g == AfterExcessSymbol(h)
<1>1. ReceiverOK(h) /\ rcv \in [Receivers -> ReceiverType]
  BY DEF GroupInv, Receiver
<1>2. rcv'[r] = g
  BY <1>1 DEF RcvSegment, AfterSegment, AfterSymbol
<1>3. ReceiverOK(g) /\ AsksFor(h, g, 0) /\ g.finished
  BY <1>1, ExcessTaking
<1> HIDE DEF g
<1>4. Ahead(r)' /\ CreditOf(r)'
  BY <1>2, <1>3 DEF Ahead, CreditOf
<1> QED
  BY <1>2, <1>3, <1>4, DataStep

\* A wanted symbol: one that asks for another is made up for, one that does not belongs
\* to the last window.
LEMMA WantedStep ==
  ASSUME GroupInv, NEW r \in Receivers, NEW p \in path[r], RcvSegment(r, p),
         rcv[r].fsm = "ESTABLISHED", p.kind = "SYMBOL", rcv[r].received + 1 <= Wanted
  PROVE  Receiver(r)' /\ Released(r)' = Released(r) /\ (CreditOf(r) => CreditOf(r)')
<1> DEFINE h == rcv[r]
           g == AfterWantedSymbol(h, p.ssn)
           n == h.received + 1
           gap == p.ssn - (h.esi + 1)
           asks == Asks(n, gap, Wanted, h.finished)
           k == IF asks THEN 1 ELSE 0
<1>1. /\ Receiver(r) /\ ReceiverOK(h) /\ SenderOK /\ rcv \in [Receivers -> ReceiverType]
      /\ InOrder(r, p)
      /\ path' = [path EXCEPT ![r] = @ \ {p}] /\ path'[r] = path[r] \ {p}
      /\ UNCHANGED <<sndEsi, sndRequestId>>
  BY DEF GroupInv, Receiver, RcvSegment
<1>2. /\ h.received \in Nat /\ h.esi \in Nat /\ h.requestId \in Nat /\ h.finished \in BOOLEAN
      /\ IW \in Nat \ {0} /\ Wanted \in Nat /\ sndRequestId \in Nat /\ sndEsi \in Nat
      /\ n \in Nat
  BY SMTT(30), <1>1, MulticastAssumption DEF ReceiverOK, ReceiverType, SenderOK
<1>3. p \in Data /\ p.ssn \in Nat /\ p.ssn <= sndEsi
  BY <1>2, FirstOnPath DEF RcvSegment, Data
<1>4. rcv'[r] = g
  BY <1>1, <1>2 DEF RcvSegment, AfterSegment, AfterSymbol
<1>5. /\ ReceiverOK(g) /\ AsksFor(h, g, k)
      /\ g.esi = NextEsi(h.esi, p.ssn, n, Wanted, h.finished)
      /\ g.received = n /\ g.finished = h.finished
  BY <1>1, <1>3, WantedTaking
<1>6. ~h.finished => h.esi < p.ssn
  BY <1>1, <1>2 DEF Receiver, Ahead
<1> HIDE DEF g
<1>7. Ahead(r)'
  <2>1. SUFFICES ASSUME ~h.finished, n < Wanted
                 PROVE  /\ g.esi <= sndEsi
                        /\ \A q \in path'[r] : q.kind = "SYMBOL" => g.esi < q.ssn
    BY <1>1, <1>4, <1>5 DEF Ahead
  <2>2. g.esi = p.ssn
    BY <1>2, <1>3, <1>5, <1>6, <2>1 DEF NextEsi
  <2>3. ASSUME NEW q \in path'[r], q.kind = "SYMBOL" PROVE p.ssn < q.ssn
    <3>1. q \in path[r] /\ q # p
      BY <1>1
    <3>2. q.ssn \in Nat /\ q.ssn # p.ssn
      BY <1>1, <2>3, <3>1 DEF Receiver, PathType, Data, Syn, FirstAck
    <3>3. ~(q.ssn < p.ssn)
      BY <1>1, <2>3, <3>1 DEF InOrder
    <3> QED
      BY <1>3, <3>2, <3>3
  <2> QED
    BY <1>3, <2>2, <2>3
<1>8. /\ Receiver(r)' /\ Released(r)' = Released(r) /\ sndEsi > 0
      /\ Cardinality(DataOf(r)) \in Nat
      /\ Cardinality(DataOf(r)') = Cardinality(DataOf(r)) - 1
  <2>1. k \in {0, 1}
    OBVIOUS
  <2> HIDE DEF k
  <2> QED
    BY <1>4, <1>5, <1>7, <2>1, DataStep
<1>9. Credit(r) \in Int /\ Credit(r)' = Credit(r) - 1 + k
  <2>1. g.requestId = h.requestId + k /\ k \in {0, 1}
    BY <1>5 DEF AsksFor
  <2>2. sndEsi # 0 /\ sndEsi' # 0
    BY <1>1, <1>8
  <2> HIDE DEF k
  <2> QED
    BY <1>1, <1>2, <1>4, <1>8, <2>1, <2>2 DEF Credit
<1>10. ASSUME CreditOf(r), ~h.finished PROVE CreditOf(r)'
  <2>1. Credit(r) = IW \/ h.received + Credit(r) >= Wanted
    BY <1>10 DEF CreditOf
  <2>2. rcv'[r].received = n /\ n = h.received + 1
    BY <1>4, <1>5
  <2>3. CASE asks
    BY <1>2, <1>9, <2>1, <2>2, <2>3 DEF CreditOf
  <2>4. CASE ~asks
    <3>1. n >= Wanted \/ n > Wanted - IW
      <4>1. gap \in Int /\ gap >= 0
        BY <1>2, <1>3, <1>6, <1>10
      <4> HIDE DEF gap, n
      <4> QED
        BY <1>2, <1>10, <2>4, <4>1 DEF Asks
    <3>2. Credit(r)' = Credit(r) - 1
      BY <1>9, <2>4
    <3>3. n + (Credit(r) - 1) >= Wanted
      BY <1>2, <1>9, <2>1, <3>1
    <3> HIDE DEF n
    <3> QED
      BY <2>2, <3>2, <3>3 DEF CreditOf
  <2> QED
    BY <2>3, <2>4
<1>11. ASSUME h.finished PROVE CreditOf(r)'
  BY <1>4, <1>5, <1>11 DEF CreditOf
<1> QED
  BY <1>8, <1>10, <1>11

LEMMA SegmentStep ==
  ASSUME GroupInv, NEW r \in Receivers, NEW p \in path[r], RcvSegment(r, p)
  PROVE  Receiver(r)' /\ Released(r)' = Released(r) /\ (CreditOf(r) => CreditOf(r)')
<1>1. CASE rcv[r].fsm # "ESTABLISHED"
  <2>1. /\ Receiver(r)' /\ Released(r)' = Released(r) /\ DataOf(r)' = DataOf(r)
        /\ rcv'[r].received = rcv[r].received /\ rcv'[r].requestId = rcv[r].requestId
        /\ rcv'[r].finished = rcv[r].finished
    BY <1>1, HandshakeStep
  <2>2. Credit(r)' = Credit(r)
    BY <2>1 DEF Credit, RcvSegment
  <2> QED
    BY <2>1, <2>2 DEF CreditOf
<1>2. CASE rcv[r].fsm = "ESTABLISHED"
  <2>1. p.kind \in {"SYMBOL", "HEADER"}
    BY <1>2, FirstOnPath DEF RcvSegment, Data
  <2>2. rcv[r].received \in Nat /\ Wanted \in Nat
    BY MulticastAssumption DEF GroupInv, ReceiverType
  <2> QED
    BY <1>2, <2>1, <2>2, HeaderStep, ExcessStep, WantedStep
<1> QED
  BY <1>1, <1>2

----------------------------------------------------------------------------
(* The pacer, and the requests. *)

LEMMA Releasing ==
  ASSUME NEW h, ReceiverOK(h), h.pullQueue # <<>>
  PROVE  LET g == [h EXCEPT !.pullQueue = Tail(@), !.nap = FALSE]
         IN  /\ ReceiverOK(g)
             /\ Head(h.pullQueue) \in Nat
             /\ Head(h.pullQueue) = Last(g)
             /\ Last(g) = Last(h) + 1
             /\ g.requestId = h.requestId /\ g.fsm = h.fsm /\ g.esi = h.esi
             /\ g.received = h.received /\ g.finished = h.finished
<1> DEFINE q == h.pullQueue
           s == Tail(q)
           g == [h EXCEPT !.pullQueue = s, !.nap = FALSE]
<1>1. /\ h \in ReceiverType /\ q \in Seq(Nat) /\ h.requestId \in Nat
      /\ Len(q) \in Nat /\ Len(q) <= h.requestId
      /\ \A i \in 1 .. Len(q) : q[i] = h.requestId - Len(q) + i
  BY LenProperties DEF ReceiverOK, ReceiverType
<1>2. /\ s \in Seq(Nat) /\ Len(s) = Len(q) - 1
      /\ \A i \in 1 .. Len(s) : s[i] = q[i + 1]
      /\ Len(q) > 0 /\ Head(q) = q[1] /\ Head(q) \in Nat
  BY <1>1, HeadTailProperties, EmptySeq
<1>3. [h EXCEPT !.pullQueue = Tail(@), !.nap = FALSE] = g
  OBVIOUS
<1> HIDE DEF s
<1>4. /\ g \in ReceiverType /\ g.pullQueue = s /\ g.requestId = h.requestId
      /\ g.fsm = h.fsm /\ g.esi = h.esi /\ g.received = h.received
      /\ g.finished = h.finished /\ g.delivered = h.delivered
  BY <1>1, <1>2 DEF ReceiverType
<1> HIDE DEF g
<1>5. ASSUME NEW i \in 1 .. Len(s) PROVE s[i] = h.requestId - Len(s) + i
  <2>1. i + 1 \in 1 .. Len(q) /\ s[i] = q[i + 1]
    BY <1>1, <1>2
  <2>2. q[i + 1] = h.requestId - Len(q) + (i + 1)
    BY <1>1, <2>1
  <2>3. h.requestId \in Nat /\ Len(q) \in Nat /\ Len(s) = Len(q) - 1 /\ i \in Int
    BY <1>1, <1>2
  <2> HIDE DEF q
  <2> QED
    BY SMTT(30), <2>1, <2>2, <2>3
<1>6. Len(s) <= h.requestId /\ Last(g) = Last(h) + 1
  BY <1>1, <1>2, <1>4 DEF Last
<1>7. ReceiverOK(g)
  BY <1>4, <1>5, <1>6 DEF ReceiverOK
<1>8. Head(q) = Last(g)
  <2>1. q[1] = h.requestId - Len(q) + 1
    BY <1>1, <1>2
  <2> QED
    BY <1>1, <1>2, <1>4, <2>1 DEF Last
<1> QED
  BY <1>2, <1>3, <1>4, <1>6, <1>7, <1>8

\* A step of the receivers that lets requests go, or none.
LEMMA Kept ==
  ASSUME GroupInv,
         UNCHANGED <<sndFsm, sndEsi, sndRequestId>>,
         DOMAIN path' = Receivers,
         DOMAIN rcv' = Receivers, rcv' = [r \in Receivers |-> rcv'[r]],
         \A r \in Receivers : Receiver(r)' /\ Released(r) <= Released(r)',
         \A q \in backward' \ backward :
            /\ q \in [kind : {"SYNACK", "REQUEST"}, from : Receivers, seq : Nat]
            /\ q.kind = "REQUEST" => q.seq <= Released(q.from)'
  PROVE  GroupInv'
<1>1. \A r \in Receivers : Released(r) \in Int /\ Released(r)' \in Int
  <2>1. ASSUME NEW h, ReceiverOK(h) PROVE h.requestId - Len(h.pullQueue) \in Int
    BY <2>1, LenProperties DEF ReceiverOK, ReceiverType
  <2> QED
    BY <2>1 DEF GroupInv, Receiver, Released
<1>2. BackwardOK'
  <2>1. ASSUME NEW q \in backward', q.kind = "REQUEST" PROVE q.seq <= Released(q.from)'
    <3>1. CASE q \in backward
      <4>1. q.from \in Receivers /\ q.seq \in Nat /\ q.seq <= Released(q.from)
        BY <2>1, <3>1 DEF GroupInv, BackwardOK
      <4> QED
        BY <1>1, <4>1
    <3>2. CASE q \notin backward
      BY <2>1, <3>2
    <3> QED
      BY <3>1, <3>2
  <2> QED
    BY <2>1 DEF GroupInv, BackwardOK
<1>3. Clocked'
  <2>1. sndRequestId \in Nat
    BY DEF GroupInv, SenderOK
  <2> QED
    BY <1>1, <2>1 DEF GroupInv, Clocked
<1>4. SenderOK'
  BY DEF GroupInv, SenderOK
<1>5. rcv' \in [Receivers -> ReceiverType]
  BY DEF Receiver, ReceiverOK
<1> QED
  BY <1>2, <1>3, <1>4, <1>5 DEF GroupInv

LEMMA PacerStep ==
  ASSUME GroupInv, EnoughCredit, NEW r \in Receivers, RequestTimerFires(r)
  PROVE  GroupInv' /\ EnoughCredit'
<1> DEFINE h == rcv[r]
           g == rcv'[r]
<1>1. /\ rcv \in [Receivers -> ReceiverType] /\ Receiver(r) /\ ReceiverOK(h)
      /\ UNCHANGED <<sndFsm, sndEsi, sndRequestId, path>>
      /\ DOMAIN path' = Receivers /\ DOMAIN rcv' = Receivers
      /\ rcv' = [d \in Receivers |-> rcv'[d]]
      /\ \A d \in Receivers \ {r} : rcv'[d] = rcv[d]
  BY DEF GroupInv, Receiver, RequestTimerFires, PacerStops, PacerNaps, PacerSends
<1>2. /\ ReceiverOK(g) /\ Last(h) <= Last(g)
      /\ g.fsm = h.fsm /\ g.esi = h.esi /\ g.received = h.received
      /\ g.requestId = h.requestId /\ g.finished = h.finished
      /\ \A q \in backward' \ backward :
            /\ q \in [kind : {"SYNACK", "REQUEST"}, from : Receivers, seq : Nat]
            /\ q.kind = "REQUEST" => q.seq <= Last(g) /\ q.from = r
  <2>0. Last(h) \in Int /\ h \in ReceiverType
    BY <1>1, LenProperties DEF ReceiverOK, ReceiverType, Last
  <2>1. CASE PacerStops(r) \/ PacerNaps(r)
    <3>1. /\ backward' = backward
          /\ \/ g = [h EXCEPT !.requestTimer = FALSE]
             \/ g = [h EXCEPT !.requestTimer = FALSE, !.nap = TRUE]
      BY <1>1, <2>1 DEF PacerStops, PacerNaps
    <3>2. /\ g \in ReceiverType /\ g.fsm = h.fsm /\ g.esi = h.esi /\ g.received = h.received
          /\ g.requestId = h.requestId /\ g.finished = h.finished
          /\ g.pullQueue = h.pullQueue /\ g.delivered = h.delivered
      BY <2>0, <3>1 DEF ReceiverType
    <3> HIDE DEF g
    <3> QED
      BY <1>1, <2>0, <3>1, <3>2 DEF ReceiverOK, Last
  <2>2. CASE PacerSends(r)
    <3>1. /\ h.pullQueue # <<>>
          /\ backward' = backward \cup {Request(r, Head(h.pullQueue))}
          /\ g = [h EXCEPT !.pullQueue = Tail(@), !.nap = FALSE]
      BY <1>1, <2>2 DEF PacerSends
    <3>2. /\ ReceiverOK(g) /\ Head(h.pullQueue) \in Nat /\ Head(h.pullQueue) = Last(g)
          /\ Last(g) = Last(h) + 1
          /\ g.requestId = h.requestId /\ g.fsm = h.fsm /\ g.esi = h.esi
          /\ g.received = h.received /\ g.finished = h.finished
      <4> HIDE DEF h, g
      <4> QED
        BY <1>1, <3>1, Releasing
    <3> HIDE DEF g
    <3> QED
      BY <2>0, <3>1, <3>2 DEF Request
  <2> QED
    BY <2>1, <2>2 DEF RequestTimerFires
<1> HIDE DEF g
<1>3. Receiver(r)' /\ Credit(r)' = Credit(r)
  <2>1. DataOf(r)' = DataOf(r)
    BY <1>1 DEF DataOf
  <2>2. PathType(r)' /\ Handshake(r)' /\ AsksOnce(r)' /\ Ahead(r)'
    BY <1>1, <1>2, <2>1
       DEF g, Receiver, PathType, Handshake, AsksOnce, Ahead, Data, Syn, FirstAck
  <2> QED
    BY <1>1, <1>2, <2>1, <2>2 DEF Receiver, Credit, g
<1>4. ASSUME NEW d \in Receivers \ {r}
      PROVE  Receiver(d)' /\ Released(d)' = Released(d) /\ Credit(d)' = Credit(d)
  <2>1. Receiver(d) /\ path'[d] = path[d] /\ rcv'[d] = rcv[d]
    BY <1>1 DEF GroupInv
  <2>2. Receiver(d)' /\ DataOf(d)' = DataOf(d) /\ Released(d)' = Released(d)
    BY <1>1, <2>1, SameReceiver
  <2> QED
    BY <1>1, <2>1, <2>2 DEF Credit
<1>5. GroupInv'
  <2>1. Released(r)' = Last(g) /\ Released(r) = Last(h)
    BY DEF Released, Last, g
  <2>2. \A d \in Receivers : Released(d) \in Int
    <3>1. ASSUME NEW k, ReceiverOK(k) PROVE k.requestId - Len(k.pullQueue) \in Int
      BY <3>1, LenProperties DEF ReceiverOK, ReceiverType
    <3> QED
      BY <3>1 DEF GroupInv, Receiver, Released
  <2>3. \A d \in Receivers : Receiver(d)' /\ Released(d) <= Released(d)'
    BY <1>2, <1>3, <1>4, <2>1, <2>2
  <2>4. \A q \in backward' \ backward :
            /\ q \in [kind : {"SYNACK", "REQUEST"}, from : Receivers, seq : Nat]
            /\ q.kind = "REQUEST" => q.seq <= Released(q.from)'
    BY <1>2, <2>1
  <2> QED
    BY <1>1, <2>3, <2>4, Kept
<1>6. EnoughCredit'
  BY <1>1, <1>2, <1>3, <1>4 DEF EnoughCredit, g
<1> QED
  BY <1>5, <1>6

----------------------------------------------------------------------------
(* The invariant. *)

LEMMA ReleasedType == GroupInv => \A r \in Receivers : Released(r) \in Int
<1>1. ASSUME NEW h, ReceiverOK(h) PROVE h.requestId - Len(h.pullQueue) \in Int
  BY <1>1, LenProperties DEF ReceiverOK, ReceiverType
<1> QED
  BY <1>1 DEF GroupInv, Receiver, Released

LEMMA InitGroup == Init => GroupInv /\ EnoughCredit
<1> SUFFICES ASSUME Init PROVE GroupInv /\ EnoughCredit
  OBVIOUS
<1>1. /\ sndFsm = "SYN_SENT" /\ sndEsi = 0 /\ sndRequestId = 0 /\ backward = {}
      /\ IW \in Nat \ {0} /\ Wanted \in Nat
  BY MulticastAssumption DEF Init
<1>2. ReceiverOK(Listening)
  <2>1. Listening \in ReceiverType
    <3>1. <<>> \in Seq(Nat)
      BY EmptySeq
    <3> QED
      BY <1>1, <3>1 DEF Listening, ReceiverType
  <2> QED
    BY <2>1, EmptySeq DEF Listening, ReceiverOK
<1>3. ASSUME NEW r \in Receivers PROVE Receiver(r)
  <2>1. path[r] = {Syn} /\ rcv[r] = Listening
    BY DEF Init
  <2>2. PathType(r)
    BY <2>1, FS_Singleton DEF PathType
  <2>3. Handshake(r)
    BY <1>1, <2>1 DEF Handshake, Listening, Syn, FirstAck
  <2>4. AsksOnce(r) /\ Ahead(r)
    BY <1>1, <2>1 DEF AsksOnce, Ahead, Listening, Syn
  <2> QED
    BY <1>2, <2>1, <2>2, <2>3, <2>4 DEF Receiver
<1>4. DOMAIN path = Receivers /\ rcv \in [Receivers -> ReceiverType]
  BY <1>2 DEF Init, ReceiverOK
<1>5. EnoughCredit
  BY <1>1 DEF EnoughCredit, Credit
<1> QED
  BY <1>1, <1>3, <1>4, <1>5 DEF GroupInv, SenderOK, BackwardOK, Clocked

\* k more symbols, for k more requests answered or as the initial window.
LEMMA SendingStep ==
  ASSUME GroupInv, EnoughCredit, NEW k \in Nat, sndFsm = "ESTABLISHED",
         Multicast(NewSymbols(k)), sndEsi' = sndEsi + k,
         UNCHANGED <<sndFsm, rcv>>,
         backward' \subseteq backward,
         \/ sndEsi = 0 /\ k = IW /\ sndRequestId' = 0
         \/ sndEsi > 0 /\ sndRequestId' = sndRequestId + k,
         Clocked'
  PROVE  GroupInv' /\ EnoughCredit'
<1>1. /\ SenderOK /\ IW \in Nat \ {0} /\ Wanted \in Nat /\ sndEsi \in Nat /\ sndRequestId \in Nat
      /\ sndEsi = 0 => sndRequestId = 0
  BY MulticastAssumption DEF GroupInv, SenderOK
<1>2. SenderOK' /\ sndEsi' > 0
  BY <1>1 DEF SenderOK
<1>3. ASSUME NEW r \in Receivers PROVE Receiver(r)' /\ CreditOf(r)'
  <2>1. /\ Receiver(r) /\ PathType(r)' /\ Handshake(r)' /\ Ahead(r)'
        /\ Cardinality(DataOf(r)') = Cardinality(DataOf(r)) + k
    BY SentPaths DEF GroupInv
  <2>2. /\ Cardinality(DataOf(r)) \in Nat /\ rcv[r].requestId \in Nat
        /\ rcv[r].received \in Nat
    BY <2>1, DataCount DEF Receiver, PathType, ReceiverOK, ReceiverType
  <2>3. sndEsi = 0 => Cardinality(DataOf(r)) = 0
    <3>1. ASSUME sndEsi = 0 PROVE DataOf(r) = {}
      BY <2>1, <3>1 DEF Receiver, PathType, Data, DataOf, Syn, FirstAck
    <3> QED
      BY <3>1, FS_EmptySet
  <2>4. AsksOnce(r)'
    BY <1>1, <1>2, <2>1, <2>2, <2>3 DEF Receiver, AsksOnce
  <2>5. Credit(r)' = Credit(r)
    <3>1. Credit(r)' = Cardinality(DataOf(r)') + rcv[r].requestId - sndRequestId'
      BY <1>2 DEF Credit
    <3>2. CASE sndEsi = 0
      <4>1. rcv[r].requestId = 0
        BY <2>1, <3>2 DEF Receiver, AsksOnce
      <4> QED
        BY <1>1, <2>1, <2>2, <2>3, <3>1, <3>2, <4>1 DEF Credit
    <3>3. CASE sndEsi > 0
      BY <1>1, <2>1, <2>2, <3>1, <3>3 DEF Credit
    <3> QED
      BY <1>1, <3>2, <3>3
  <2>6. ReceiverOK(rcv'[r])
    BY <2>1 DEF Receiver
  <2>7. CreditOf(r)
    BY DEF EnoughCredit, CreditOf
  <2> QED
    BY <2>1, <2>4, <2>5, <2>6, <2>7 DEF Receiver, CreditOf
<1>4. BackwardOK'
  BY DEF GroupInv, BackwardOK, Released
<1>5. DOMAIN path' = Receivers /\ rcv' \in [Receivers -> ReceiverType]
  BY DEF GroupInv, Multicast
<1> QED
  BY <1>2, <1>3, <1>4, <1>5 DEF GroupInv, EnoughCredit, CreditOf

LEMMA RequestStep ==
  ASSUME GroupInv, EnoughCredit, NEW q \in backward, RcvRequest(q)
  PROVE  GroupInv' /\ EnoughCredit'
<1> DEFINE gap == RequestsGap(q.seq, sndRequestId)
<1>1. /\ SenderOK /\ sndEsi \in Nat /\ sndRequestId \in Nat /\ q.kind = "REQUEST"
      /\ q.seq \in Nat /\ q.from \in Receivers /\ q.seq <= Released(q.from)
  BY DEF GroupInv, SenderOK, BackwardOK, RcvRequest
<1>2. /\ sndFsm = "ESTABLISHED" /\ Multicast(NewSymbols(gap))
      /\ sndEsi' = sndEsi + gap /\ sndRequestId' = sndRequestId + gap
      /\ backward' = backward \ {q} /\ UNCHANGED <<sndFsm, rcv>>
  BY DEF RcvRequest
<1>3. gap \in Nat /\ (gap = 0 \/ sndRequestId + gap = q.seq)
  BY <1>1 DEF RequestsGap
<1>4. Clocked'
  <2>1. \A r \in Receivers : Released(r)' = Released(r)
    BY <1>2 DEF Released
  <2> HIDE DEF gap
  <2>2. CASE gap = 0
    BY <1>1, <1>2, <2>1, <2>2 DEF GroupInv, Clocked
  <2>3. CASE sndRequestId + gap = q.seq
    BY <1>1, <1>2, <2>1, <2>3 DEF Clocked
  <2> QED
    BY <1>3, <2>2, <2>3
<1>5. CASE sndEsi > 0
  <2> HIDE DEF gap
  <2> QED
    BY <1>2, <1>3, <1>4, <1>5, SendingStep
<1>6. CASE sndEsi = 0
  <2>1. Released(q.from) <= 0
    <3>1. rcv[q.from].requestId = 0 /\ ReceiverOK(rcv[q.from])
      BY <1>1, <1>6 DEF GroupInv, Receiver, AsksOnce
    <3>2. Len(rcv[q.from].pullQueue) \in Nat
      BY <3>1, LenProperties DEF ReceiverOK, ReceiverType
    <3> QED
      BY <3>1, <3>2 DEF Released
  <2>2. gap = 0
    BY <1>1, <2>1, ReleasedType DEF RequestsGap
  <2>3. UNCHANGED <<sndEsi, sndRequestId>>
    BY <1>1, <1>2, <2>2
  <2>4. NewSymbols(gap) = {}
    BY <1>1, <2>2 DEF NewSymbols
  <2>5. \A r \in Receivers : path'[r] = path[r]
    BY <1>2, <2>4 DEF Multicast
  <2>6. \A r \in Receivers : Receiver(r)' /\ Released(r)' = Released(r) /\ DataOf(r)' = DataOf(r)
    BY <1>2, <2>3, <2>5, SameReceiver DEF GroupInv
  <2>7. DOMAIN path' = Receivers /\ rcv' \in [Receivers -> ReceiverType]
        /\ rcv' = [r \in Receivers |-> rcv'[r]]
    BY <1>2 DEF Multicast, GroupInv
  <2>8. GroupInv'
    BY <1>2, <2>3, <2>6, <2>7, ReleasedType, Kept
  <2>9. EnoughCredit'
    BY <1>2, <2>3, <2>6 DEF EnoughCredit, Credit
  <2> QED
    BY <2>8, <2>9
<1> QED
  BY <1>1, <1>5, <1>6

LEMMA SynAckStep ==
  ASSUME GroupInv, EnoughCredit, NEW q \in backward, RcvSynAck(q) \/ RcvLateSynAck(q)
  PROVE  GroupInv' /\ EnoughCredit'
<1>1. UNCHANGED <<sndEsi, sndRequestId, rcv>> /\ backward' = backward \ {q}
  BY DEF RcvSynAck, RcvLateSynAck
<1>2. SenderOK' /\ BackwardOK' /\ Clocked' /\ DOMAIN path' = Receivers
      /\ rcv' \in [Receivers -> ReceiverType]
  BY <1>1 DEF RcvSynAck, RcvLateSynAck, GroupInv, SenderOK, BackwardOK, Clocked, Released,
              Multicast
<1>3. ASSUME NEW r \in Receivers PROVE Receiver(r)' /\ Credit(r)' = Credit(r)
  <2>1. Receiver(r) /\ SenderOK
    BY DEF GroupInv
  <2>2. CASE RcvLateSynAck(q)
    <3>1. path'[r] = path[r] /\ rcv'[r] = rcv[r] /\ UNCHANGED <<sndFsm, sndEsi, sndRequestId>>
      BY <2>2 DEF RcvLateSynAck
    <3> QED
      BY <2>1, <3>1, SameReceiver DEF Credit
  <2>3. CASE RcvSynAck(q)
    <3>1. /\ sndFsm = "SYN_SENT" /\ sndFsm' = "ESTABLISHED" /\ sndEsi = 0
          /\ path'[r] = path[r] \cup {FirstAck}
      BY <2>1, <2>3 DEF RcvSynAck, Multicast, SenderOK
    <3>2. path[r] \subseteq {Syn} /\ rcv[r].fsm # "ESTABLISHED"
      <4>1. Data = {} /\ FirstAck \notin path[r]
        BY <2>1, <3>1 DEF Data, Receiver, Handshake
      <4> QED
        BY <2>1, <3>1, <4>1 DEF Receiver, PathType, Handshake
    <3>3. PathType(r)'
      <4>1. IsFiniteSet(path'[r])
        BY <2>1, <3>1, FS_AddElement DEF Receiver, PathType
      <4> QED
        BY <3>1, <3>2, <4>1 DEF PathType, Syn, FirstAck
    <3>4. Handshake(r)'
      <4>1. Syn \in path'[r] <=> Syn \in path[r]
        BY <3>1 DEF Syn, FirstAck
      <4> QED
        BY <1>1, <2>1, <3>1, <3>2, <4>1 DEF Receiver, Handshake, Syn, FirstAck
    <3>5. AsksOnce(r)' /\ Credit(r)' = Credit(r)
      BY <1>1, <2>1, <3>1 DEF Receiver, AsksOnce, Credit
    <3>6. Ahead(r)'
      BY <1>1, <2>1, <3>1 DEF Receiver, Ahead, FirstAck
    <3>7. ReceiverOK(rcv'[r])
      BY <1>1, <2>1 DEF Receiver
    <3> QED
      BY <3>3, <3>4, <3>5, <3>6, <3>7 DEF Receiver
  <2> QED
    BY <2>2, <2>3
<1>4. EnoughCredit'
  BY <1>1, <1>3 DEF EnoughCredit
<1> QED
  BY <1>2, <1>3, <1>4 DEF GroupInv

\* A step on the path of one receiver.
LEMMA PathStep ==
  ASSUME GroupInv, EnoughCredit, NEW r \in Receivers, NEW p \in path[r],
         RcvSegment(r, p) \/ Trim(r, p)
  PROVE  GroupInv' /\ EnoughCredit'
<1>1. /\ UNCHANGED <<sndFsm, sndEsi, sndRequestId>>
      /\ DOMAIN path' = Receivers /\ rcv' = [d \in Receivers |-> rcv'[d]]
      /\ DOMAIN rcv' = Receivers
      /\ \A d \in Receivers \ {r} : path'[d] = path[d] /\ rcv'[d] = rcv[d]
      /\ backward' \subseteq backward \cup {SynAck(r)}
  BY DEF RcvSegment, Trim, GroupInv
<1>2. Receiver(r)' /\ Released(r)' = Released(r) /\ CreditOf(r)'
  <2>0. CreditOf(r)
    BY DEF EnoughCredit, CreditOf
  <2>1. CASE RcvSegment(r, p)
    BY <2>0, <2>1, SegmentStep
  <2>2. CASE Trim(r, p)
    <3>1. Receiver(r)'
      BY <2>2, TrimmedPath
    <3>2. Released(r)' = Released(r)
      BY <2>2 DEF Trim, Released
    <3>3. Credit(r)' = Credit(r)
      BY <2>2, TrimmedPath DEF Trim, Credit
    <3> QED
      BY <2>0, <2>2, <3>1, <3>2, <3>3 DEF CreditOf, Trim
  <2> QED
    BY <2>1, <2>2
<1>3. ASSUME NEW d \in Receivers \ {r}
      PROVE  Receiver(d)' /\ Released(d)' = Released(d) /\ CreditOf(d)'
  <2>1. Receiver(d) /\ CreditOf(d)
    BY DEF GroupInv, EnoughCredit, CreditOf
  <2>2. Receiver(d)' /\ DataOf(d)' = DataOf(d) /\ Released(d)' = Released(d)
    BY <1>1, <2>1, SameReceiver
  <2> QED
    BY <1>1, <2>1, <2>2 DEF CreditOf, Credit
<1>4. \A q \in backward' \ backward :
         /\ q \in [kind : {"SYNACK", "REQUEST"}, from : Receivers, seq : Nat]
         /\ q.kind # "REQUEST"
  BY <1>1 DEF SynAck
<1>5. \A d \in Receivers : Receiver(d)' /\ Released(d)' = Released(d)
  BY <1>2, <1>3
<1>6. GroupInv'
  BY <1>1, <1>4, <1>5, ReleasedType, Kept
<1>7. EnoughCredit'
  BY <1>2, <1>3 DEF EnoughCredit, CreditOf
<1> QED
  BY <1>6, <1>7

LEMMA NextGroup ==
  GroupInv /\ EnoughCredit /\ [Next]_vars => GroupInv' /\ EnoughCredit'
<1> SUFFICES ASSUME GroupInv, EnoughCredit, [Next]_vars PROVE GroupInv' /\ EnoughCredit'
  OBVIOUS
<1>1. CASE SendInitialWindow
  <2>1. /\ IW \in Nat /\ sndEsi = 0 /\ sndEsi' = sndEsi + IW /\ sndRequestId' = 0
        /\ backward' \subseteq backward
    BY <1>1, MulticastAssumption DEF SendInitialWindow
  <2>2. Clocked'
    BY <2>1 DEF Clocked
  <2> QED
    BY <1>1, <2>1, <2>2, SendingStep DEF SendInitialWindow
<1>2. ASSUME NEW q \in backward, RcvBackward(q) PROVE GroupInv' /\ EnoughCredit'
  BY <1>2, SynAckStep, RequestStep DEF RcvBackward
<1>3. ASSUME NEW r \in Receivers, RequestTimerFires(r) PROVE GroupInv' /\ EnoughCredit'
  BY <1>3, PacerStep
<1>4. ASSUME NEW r \in Receivers, NEW p \in path[r], RcvSegment(r, p) \/ Trim(r, p)
      PROVE  GroupInv' /\ EnoughCredit'
  BY <1>4, PathStep
<1>5. CASE UNCHANGED vars
  BY <1>5 DEF vars, GroupInv, SenderOK, BackwardOK, Clocked, Released, Receiver, PathType,
              Handshake, AsksOnce, Ahead, EnoughCredit, Credit, DataOf, Data, Syn, FirstAck
<1> QED
  BY <1>1, <1>2, <1>3, <1>4, <1>5 DEF Next

LEMMA GroupHolds == Spec => [](GroupInv /\ EnoughCredit)
<1>1. GroupInv /\ EnoughCredit /\ [Next]_vars => (GroupInv /\ EnoughCredit)'
  BY NextGroup
<1> QED
  BY <1>1, InitGroup, PTL DEF Spec

\* For every group, window, transfer size and amount of trimming: every variable has its
\* type, a receiver delivers no more symbols than its application wants, and a path holds
\* each number once.
THEOREM MulticastTypes == Spec => []TypeOK
<1>1. ASSUME GroupInv, NEW r \in Receivers
      PROVE  /\ path[r] \subseteq [kind : {"SYN", "ACK", "SYMBOL", "HEADER"}, ssn : -1 .. sndEsi]
             /\ \A p, q \in path[r] : p.ssn = q.ssn => p = q
  <2>1. PathType(r) /\ sndEsi \in Nat
    BY <1>1 DEF GroupInv, Receiver, SenderOK
  <2>2. \A p \in {Syn, FirstAck} \cup Data :
           p \in [kind : {"SYN", "ACK", "SYMBOL", "HEADER"}, ssn : -1 .. sndEsi]
    BY <2>1 DEF Data, Syn, FirstAck
  <2> QED
    BY <2>1, <2>2 DEF PathType
<1>2. GroupInv => TypeOK
  BY <1>1 DEF GroupInv, SenderOK, BackwardOK, ReceiverType, TypeOK
<1> QED
  BY <1>2, GroupHolds, PTL

\* For every group: the sender answers no more than the receiver that is furthest ahead
\* has released, so that the others are overrun by what they lag behind it and no more.
THEOREM OverrunHolds == Spec => []OverrunBounded
<1>1. ASSUME GroupInv PROVE OverrunBounded
  <2>1. Clocked
    BY <1>1 DEF GroupInv
  <2>2. ASSUME NEW r \in Receivers
        PROVE  \E q \in Receivers :
                  Cardinality(DataOf(r)) <= IW + rcv[q].requestId - rcv[r].requestId
    <3>1. /\ Receiver(r) /\ SenderOK /\ IW \in Nat
          /\ \A q \in Receivers : rcv[q].requestId \in Nat /\ Len(rcv[q].pullQueue) \in Nat
      BY <1>1, MulticastAssumption, LenProperties
         DEF GroupInv, Receiver, ReceiverOK, ReceiverType
    <3>2. Cardinality(DataOf(r)) \in Nat /\ sndRequestId \in Nat /\ sndEsi \in Nat
      BY <3>1, DataCount DEF Receiver, PathType, SenderOK
    <3>3. CASE sndEsi = 0
      <4>1. DataOf(r) = {} /\ rcv[r].requestId = 0
        BY <3>1, <3>3 DEF Receiver, PathType, AsksOnce, Data, DataOf, Syn, FirstAck
      <4>2. Cardinality(DataOf(r)) = 0
        BY <4>1, FS_EmptySet
      <4> QED
        BY <3>1, <4>1, <4>2
    <3>4. CASE sndEsi # 0
      <4>1. Cardinality(DataOf(r)) + rcv[r].requestId <= IW + sndRequestId
        BY <3>1, <3>4 DEF Receiver, AsksOnce
      <4>2. CASE sndRequestId = 0
        BY <3>1, <3>2, <4>1, <4>2
      <4>3. ASSUME NEW q \in Receivers, sndRequestId <= Released(q)
            PROVE  Cardinality(DataOf(r)) <= IW + rcv[q].requestId - rcv[r].requestId
        BY SMTT(30), <3>1, <3>2, <4>1, <4>3 DEF Released
      <4> QED
        BY <2>1, <4>2, <4>3 DEF Clocked
    <3> QED
      BY <3>3, <3>4
  <2> QED
    BY <2>1, <2>2 DEF OverrunBounded, Clocked
<1> QED
  BY <1>1, GroupHolds, PTL

\* For every group: although the sender takes a slower receiver's requests for delayed
\* ones, each receiver is left with enough data and requests to finish.
THEOREM GroupCreditHolds == Spec => []EnoughCredit
  BY GroupHolds, PTL

=============================================================================
