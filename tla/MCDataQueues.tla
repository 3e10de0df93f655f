----------------------------- MODULE MCDataQueues -----------------------------
(***************************************************************************)
(* What the queues of DataQueues promise, evaluated by TLC for every way   *)
(* to send a short stream near the wrap of the sequence numbers: segments  *)
(* of any cut arrive in any order and more than once, and the application  *)
(* reads in between.                                                       *)
(***************************************************************************)
EXTENDS DataQueues

FirstNumber == SeqSpace - 3            \* the number of the first byte
Bytes == 6                       \* 1 .. Bytes are sent
Buffer == 5                      \* maxRcvBuffer: the last bytes do not fit at first

Number(byte) == Plus(FirstNumber, byte - 1)
Whole == [i \in 1 .. Bytes |-> i]

\* The sender's queues, filled in two writes: messages end with bytes 2, 3 and Bytes.
FilledVirtual == EnqueueVirtual(EnqueueVirtual(SendQueue(FirstNumber), 2), Bytes - 2)
FilledStream ==
    EnqueueStream(EnqueueStream(SendQueue(FirstNumber), SubSeq(Whole, 1, 2)),
                  SubSeq(Whole, 3, Bytes))
FilledMessages ==
    EnqueueMessage(EnqueueMessage(EnqueueMessage(SendQueue(FirstNumber), "a", 2), "b", 1),
                   "c", Bytes - 3)

\* Every cut of the stream, as its first byte and its length.
Cuts == {c \in (1 .. Bytes) \X (1 .. 4) : c[1] + c[2] - 1 <= Bytes}

\* The segments the three queues create for a cut.
Of(queue, Create(_, _, _), cuts) == {Create(queue, Number(c[1]), c[2]) : c \in cuts}

----------------------------------------------------------------------------
\* Receivers.  got is the bytes accepted so far, told what the application has been given.

Fresh == [queue |-> ReceiveQueue(FirstNumber), got |-> {}, told |-> <<>>]

Carries(s) == {b \in 1 .. Bytes : SeqLE(s.seq, Number(b)) /\ SeqLess(Number(b), SegmentEnd(s))}

Insert(kind, q, s) ==
    IF kind \in {"virtual", "stream"} THEN InsertBytes(kind, q, s) ELSE InsertMessages(q, s)

\* A segment without space is dropped.
Receive(kind, x, s) ==
    IF HasEnoughSpace(x.queue, Buffer, s)
    THEN [x EXCEPT !.queue = Insert(kind, @, s), !.got = @ \cup Carries(s)] ELSE x

Read(kind, x) ==
    LET out == ReadRequest(kind, x.queue)
    IN [x EXCEPT !.queue = out.queue, !.told = @ \o out.told]

\* Every state of a receiver after at most n segments and reads, when it is given only
\* segments s with Allowed(x, s).
Reached(kind, segments, Allowed(_, _), n) ==
    LET After(states, i) ==
            LET received(x) == {Receive(kind, x, s) : s \in {t \in segments : Allowed(x, t)}}
            IN  states \cup UNION {received(x) : x \in states}
                       \cup {Read(kind, x) : x \in states}
    IN FoldLeft(After, {Fresh}, [i \in 1 .. n |-> i])

AnyOf(x, s) == TRUE

\* How many of the first bytes have all arrived.
Complete(x) == CHOOSE n \in 0 .. Bytes : 1 .. n \subseteq x.got /\ n + 1 \notin x.got

\* The bytes read so far, of byte queues.
BytesTold(x) == FoldLeft(LAMBDA sum, t : sum + t.length, 0, x.told)

----------------------------------------------------------------------------
Runs(got, b) ==
    {r \in (1 .. Bytes) \X (1 .. Bytes) : b \in r[1] .. r[2] /\ r[1] .. r[2] \subseteq got}
FirstOfRun(got, b) == Min({r[1] : r \in Runs(got, b)})
LastOfRun(got, b)  == Max({r[2] : r \in Runs(got, b)})

\* The receive queue acknowledges exactly the bytes that have arrived without a gap; it holds
\* each byte once, in regions that are apart and in order, and tells the edges of each; what
\* is free is the rest of its buffer; and an accepted segment is never called out of range.
ASSUME VirtualQueueReassembles ==
    LET segments == Of(FilledVirtual, VirtualSegment, Cuts)
    IN \A x \in Reached("virtual", segments, AnyOf, 6) :
           LET q == x.queue
               held == {b \in x.got : b > BytesTold(x)}
           IN /\ q.rcv_nxt = Number(Complete(x) + 1)
              /\ GetAmountOfBufferedBytes(q) = Cardinality(held)
              /\ GetAmountOfFreeBytes(q, Buffer) = Buffer - Cardinality(held)
              /\ \A i \in 1 .. GetQueueLength(q) - 1 :
                     CompareRegions(q.regions[i], q.regions[i + 1]) = "BEFORE"
              /\ \A b \in held :
                     /\ GetLE(q, Number(b)) = Number(FirstOfRun(held, b))
                     /\ GetRE(q, Number(b + 1)) = Number(LastOfRun(held, b) + 1)
              /\ \A b \in (1 .. Bytes) \ held :
                     /\ GetLE(q, Number(b)) = Number(b)
                     /\ GetRE(q, Number(b + 1)) = Number(b + 1)
              /\ \A s \in segments : HasEnoughSpace(q, Buffer, s) => ~OutOfRange(q, s)

----------------------------------------------------------------------------
DataTold(x) == FlattenSeq([i \in 1 .. Len(x.told) |-> x.told[i].data])

\* The segment does not end between two bytes that are both held and not yet read.
EndsOutside(x, s) ==
    ~\E b \in {x.queue.regions[i] : i \in 1 .. GetQueueLength(x.queue)} :
        SeqLess(b.begin, SegmentEnd(s)) /\ SeqLess(SegmentEnd(s), b.end)

\* The byte stream is passed up as it was written, whatever the order and the cuts of its
\* segments, as long as none ends inside the bytes held.
ASSUME StreamIsReassembled ==
    \A x \in Reached("stream", Of(FilledStream, StreamSegment, Cuts), EndsOutside, 6) :
        DataTold(Read("stream", x)) = SubSeq(Whole, 1, Complete(x))

\* It is not when one does: bytes 3 to 5 and then 1 to 3 give 1 2 3 3 4.  So does a second copy
\* of a segment whose successor has arrived: 1 and 2, 3 and 4, 1 and 2 give 1 2 1 2.
ASSUME OverlapsAreNot ==
    LET Arrive(x, c) ==
            Receive("stream", x, StreamSegment(FilledStream, Number(c[1]), c[2]))
        TellsAfter(cuts) == DataTold(Read("stream", FoldLeft(Arrive, Fresh, cuts)))
    IN /\ TellsAfter(<< <<3, 3>>, <<1, 3>> >>) = <<1, 2, 3, 3, 4>>
       /\ TellsAfter(<< <<1, 2>>, <<3, 2>>, <<1, 2>> >>) = <<1, 2, 1, 2>>

----------------------------------------------------------------------------
Letters == Of(FilledMessages, MessageSegment, Cuts)

\* The messages all of whose bytes, and all bytes before them, have arrived.
MessagesDue(x) == SelectSeq(<<"a", "b", "c">>,
                            LAMBDA m : [a |-> 2, b |-> 3, c |-> Bytes][m] <= Complete(x))

\* In the order they are sent a segment never leaves a gap.
NoGap(x, s) == SeqLE(s.seq, Number(Complete(x) + 1))

\* Without the added line a message is passed up as soon as its last byte has arrived with all
\* before it, as RQSendQueue.h says, whatever the order.
ASSUME MessagesWithoutTheLine ==
    \A x \in Reached("plain", Letters, AnyOf, 6) : Read("plain", x).told = MessagesDue(x)

\* With it that holds while segments arrive in the order of the stream,
ASSUME MessagesInOrder ==
    \A x \in Reached("message", Letters, NoGap, 6) :
        Read("message", x).told = MessagesDue(x)

\* but a read while there is a gap renumbers the message behind it: once the gap is filled,
\* nothing is ever passed up.
ASSUME MessagesStuck ==
    LET Arrive(x, c) ==
            Receive("message", x, MessageSegment(FilledMessages, Number(c[1]), c[2]))
        early  == Arrive(Fresh, <<3, 1>>)
        filled == Arrive(Read("message", early), <<1, 2>>)
        read   == Read("message", filled)
    IN /\ MessagesDue(filled) = <<"a", "b">>
       /\ read.told = <<>>
       /\ Read("message", read) = read

----------------------------------------------------------------------------
\* A segment cut down to a range is the segment the queue would have created for what is left,
ASSUME TruncationCuts ==
    \A c \in Cuts, first \in 1 .. Bytes, last \in 1 .. Bytes :
        LET lo == Max({c[1], first})
            hi == Min({c[1] + c[2] - 1, last})
            Cut(s) == TruncateSegment(s, Number(first), Number(last + 1))
            Same(queue, Create(_, _, _)) ==
                Cut(Create(queue, Number(c[1]), c[2])) = Create(queue, Number(lo), hi - lo + 1)
        IN first <= last =>
               /\ Overlaps(VirtualSegment(FilledVirtual, Number(c[1]), c[2]),
                           Number(first), Number(last + 1)) = (lo <= hi)
               /\ lo <= hi => /\ Same(FilledVirtual, VirtualSegment)
                              /\ Same(FilledStream, StreamSegment)
                              /\ Same(FilledMessages, MessageSegment)

\* and a queue creates the same segments after it has discarded what lies before them, and
\* refuses those that begin in what it has discarded.
ASSUME DiscardingKeepsTheRest ==
    \A c \in Cuts, upTo \in 1 .. Bytes + 1 :
        LET Kept(queue, Create(_, _, _), Discard(_, _)) ==
                LET after == Discard(queue, Number(upTo))
                IN /\ CanDiscard(queue, Number(upTo))
                   /\ CanCreate(after, Number(c[1]), c[2]) = (upTo <= c[1])
                   /\ upTo <= c[1] =>
                          Create(after, Number(c[1]), c[2]) = Create(queue, Number(c[1]), c[2])
        IN /\ Kept(FilledVirtual, VirtualSegment, DiscardVirtual)
           /\ Kept(FilledStream, StreamSegment, DiscardStream)
           /\ Kept(FilledMessages, MessageSegment, DiscardMessages)

\* A queue can hold up to half the number space, and the check that it is full misses a write
\* large enough to lap the begin altogether.
ASSUME FullByHalf ==
    /\ \A n \in 0 .. SeqSpace \div 2 - 1 : ~QueueFull(SendQueue(FirstNumber), n)
    /\ QueueFull(SendQueue(FirstNumber), SeqSpace - 1)
    /\ ~QueueFull(SendQueue(FirstNumber), SeqSpace + 1)

\* readDataTransferModePar refuses what it does not know; with what it accepts, no
\* connection is refused its queues ("Invalid RQ data transfer mode").
ASSUME QueuesExist ==
    \A name \in TransferModes \cup {"", "symbols"} :
        TransferMode(name) # "undefined" =>
            LET modes == CreateQueues(TransferMode(name))
            IN  /\ modes[1] \in DOMAIN CreateSendQueue
                /\ modes[2] \in DOMAIN CreateReceiveQueue

\* Whatever mode an application has been given, "rqrequests" apart, it gets the queues
\* of "object": bytecount and bytestream, which every NED file offers, are ignored.
ASSUME ModesIgnored ==
    \A name \in TransferModes \ {"rqrequests"} : CreateQueues(name) = CreateQueues("object")

=============================================================================
