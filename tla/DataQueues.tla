------------------------------ MODULE DataQueues ------------------------------
(***************************************************************************)
(* The queue classes behind a connection's byte stream, as operators.      *)
(*                                                                         *)
(* A connection still creates a send and a receive queue, but the symbol   *)
(* path puts nothing into the receive queue: only a SYN with a payload     *)
(* would.  So the classes are modelled against what RQSendQueue.h and      *)
(* RQReceiveQueue.h promise, over the sequence numbers themselves: they    *)
(* wrap, and every comparison is by the shorter way round.                 *)
(*                                                                         *)
(* Three kinds of application data: "virtual" (only the number of bytes),  *)
(* "stream" (the bytes), "message" (whole messages, each known by the      *)
(* number behind its last byte).  A fourth, "plain", is "message" without  *)
(* a line the program added to the library's class.                        *)
(***************************************************************************)
EXTENDS Integers, SequencesExt

CONSTANT SeqSpace       \* 2^32 in the code

ASSUME SeqSpaceAssumption == SeqSpace \in Nat \ {0} /\ SeqSpace % 2 = 0

----------------------------------------------------------------------------
\* Sequence numbers: unsigned, so a difference is how far b is ahead of a.

Plus(a, n)     == (a + n) % SeqSpace
Ahead(a, b)    == (b - a) % SeqSpace
SeqLE(a, b)    == Ahead(a, b) < SeqSpace \div 2
SeqLess(a, b)  == a # b /\ SeqLE(a, b)
SeqMin(a, b)   == IF SeqLE(a, b) THEN a ELSE b
SeqMax(a, b)   == IF SeqLE(b, a) THEN a ELSE b

----------------------------------------------------------------------------
\* Segments.  payloads are messages in the order of their numbers.

DataSegment(seq, len, data, payloads) ==
    [seq |-> seq, len |-> len, data |-> data, payloads |-> payloads, syn |-> FALSE,
     fin |-> FALSE]

\* Part of the bytes, when there are bytes.
Slice(data, from, to) == IF data = <<>> THEN data ELSE SubSeq(data, from, to)

SegmentEnd(s) == Plus(s.seq, s.len)

GetSegLen(s) == s.len + (IF s.fin THEN 1 ELSE 0) + (IF s.syn THEN 1 ELSE 0)

AddPayloadMessage(s, msg, end) ==
    [s EXCEPT !.payloads = Append(@, [end |-> end, msg |-> msg])]


\* The check of truncateSegment: the segment must have bytes in the range.
Overlaps(s, first, end) == s.len > 0 /\ SeqLess(s.seq, end) /\ SeqLess(first, SegmentEnd(s))

\* Cuts so many bytes off both ends; a message goes with the byte before its number.
TruncateData(s, left, right) ==
    LET seq == Plus(s.seq, left)
        len == s.len - left - right
        Stays(p) == Ahead(s.seq, p.end) > left /\ Ahead(seq, p.end) <= len
    IN [s EXCEPT !.seq = seq, !.len = len, !.payloads = SelectSeq(@, Stays),
                 !.data = Slice(@, left + 1, s.len - right)]

TruncateSegment(s, first, end) ==
    TruncateData(s, IF SeqLess(s.seq, first) THEN Ahead(s.seq, first) ELSE 0,
                    IF SeqLess(end, SegmentEnd(s)) THEN Ahead(end, SegmentEnd(s)) ELSE 0)

----------------------------------------------------------------------------
\* Send queues: the bytes numbered begin to end, kept until discarded.

SendQueue(startSeq) ==
    [begin |-> startSeq, end |-> startSeq, data |-> <<>>, payloads |-> <<>>]

\* enqueueAppData throws "Send queue is full": the end has lapped the begin.
QueueFull(q, bytes) == SeqLess(Plus(q.end, bytes), q.begin)

EnqueueVirtual(q, bytes) == [q EXCEPT !.end = Plus(@, bytes)]

\* The byte stream has no such check.
EnqueueStream(q, data) == [q EXCEPT !.end = Plus(@, Len(data)), !.data = @ \o data]

EnqueueMessage(q, msg, bytes) ==
    LET end == Plus(q.end, bytes)
    IN [q EXCEPT !.end = end, !.payloads = Append(@, [end |-> end, msg |-> msg])]

\* The assertion of createSegmentWithBytes.
CanCreate(q, from, bytes) == SeqLE(q.begin, from) /\ SeqLE(Plus(from, bytes), q.end)

VirtualSegment(q, from, bytes) == DataSegment(from, bytes, <<>>, <<>>)

StreamSegment(q, from, bytes) ==
    LET offset == Ahead(q.begin, from)
    IN DataSegment(from, bytes, SubSeq(q.data, offset + 1, offset + bytes), <<>>)

\* The messages whose last byte is in the segment.
MessageSegment(q, from, bytes) ==
    LET Ends(p) == ~SeqLE(p.end, from) /\ SeqLE(p.end, Plus(from, bytes))
    IN FoldLeft(LAMBDA s, p : AddPayloadMessage(s, p.msg, p.end),
                DataSegment(from, bytes, <<>>, <<>>), SelectSeq(q.payloads, Ends))

\* The assertion of discardUpTo.
CanDiscard(q, seqNum) == SeqLE(q.begin, seqNum) /\ SeqLE(seqNum, q.end)

DiscardVirtual(q, seqNum) == [q EXCEPT !.begin = seqNum]

DiscardStream(q, seqNum) ==
    [q EXCEPT !.begin = seqNum,
              !.data = SubSeq(@, Ahead(q.begin, seqNum) + 1, Len(@))]

DiscardMessages(q, seqNum) ==
    LET Stays(p) == ~SeqLE(p.end, seqNum)
    IN [q EXCEPT !.begin = seqNum, !.payloads = SelectSeq(@, Stays)]

----------------------------------------------------------------------------
\* Regions of received bytes.

Region(begin, end, data) == [begin |-> begin, end |-> end, data |-> data]

Length(r) == Ahead(r.begin, r.end)

CompareRegions(r, other) ==
    CASE r.end = other.begin           -> "BEFORE_TOUCH"
      [] r.begin = other.end           -> "AFTER_TOUCH"
      [] SeqLess(r.end, other.begin)   -> "BEFORE"
      [] SeqLess(other.end, r.begin)   -> "AFTER"
      [] OTHER                         -> "OVERLAP"

MergeVirtual(r, other) ==
    Region(SeqMin(r.begin, other.begin), SeqMax(r.end, other.end), <<>>)

\* The part behind r's end is copied from the start of the other's bytes, whatever part of
\* them r already has.
MergeStream(r, other) ==
    LET nbegin == SeqMin(r.begin, other.begin)
        nend   == SeqMax(r.end, other.end)
    IN Region(nbegin, nend,
              SubSeq(other.data, 1, Ahead(nbegin, r.begin)) \o r.data
                  \o SubSeq(other.data, 1, Ahead(r.end, nend)))

Merge(kind, r, other) ==
    IF kind = "stream" THEN MergeStream(r, other) ELSE MergeVirtual(r, other)

\* split: the part up to seq, and the part that stays.
FirstPart(r, seq) == Region(r.begin, seq, Slice(r.data, 1, Ahead(r.begin, seq)))
LastPart(r, seq) == Region(seq, r.end, Slice(r.data, Ahead(r.begin, seq) + 1, Len(r.data)))

GetLengthTo(r, seq) ==
    IF SeqLE(seq, r.begin) THEN 0 ELSE Ahead(r.begin, SeqMin(seq, r.end))

\* Merges a region into the list, from its back: a region that overlaps or touches the new
\* one is absorbed, the first that lies wholly before it ends the search.
MergeInto(kind, regions, new) ==
    LET Meet(r, acc) ==
            LET cmp == CompareRegions(r, acc.new)
            IN CASE acc.found \/ cmp = "BEFORE" ->
                        [acc EXCEPT !.found = TRUE, !.before = <<r>> \o @]
                 [] cmp = "AFTER" -> [acc EXCEPT !.after = <<r>> \o @]
                 [] OTHER -> [acc EXCEPT !.new = Merge(kind, @, r)]
        met == FoldRight(Meet, regions,
                         [found |-> FALSE, before |-> <<>>, new |-> new, after |-> <<>>])
    IN met.before \o <<met.new>> \o met.after

----------------------------------------------------------------------------
\* Receive queues.  Extracting gives the queue that remains and what is passed up.

ReceiveQueue(startSeq) == [rcv_nxt |-> startSeq, regions |-> <<>>, payloads |-> <<>>]

GetFirstSeqNo(q) ==
    IF q.regions = <<>> THEN q.rcv_nxt ELSE SeqMin(Head(q.regions).begin, q.rcv_nxt)

HasEnoughSpace(q, maxRcvBuffer, s) ==
    /\ SeqLE(GetFirstSeqNo(q), s.seq)
    /\ SeqLE(SegmentEnd(s), Plus(GetFirstSeqNo(q), maxRcvBuffer))

\* insertBytesFromSegment throws: the segment is out of the acceptable range.
OutOfRange(q, s) ==
    LET ob   == Head(q.regions).begin
        oe   == Last(q.regions).end
        minb == SeqMin(ob, s.seq)
        maxe == SeqMax(oe, SegmentEnd(s))
    IN q.regions # <<>> /\ (\/ SeqLE(oe, minb) \/ SeqLE(SegmentEnd(s), minb)
                            \/ SeqLE(maxe, ob) \/ SeqLE(maxe, s.seq))

InsertBytes(kind, q, s) ==
    LET regions == MergeInto(kind, q.regions, Region(s.seq, SegmentEnd(s), s.data))
        first   == Head(regions)
    IN [q EXCEPT !.regions = regions,
                 !.rcv_nxt = IF SeqLE(first.begin, @) THEN first.end ELSE @]

\* Messages are kept by number, a second one with the same number is dropped.
InsertMessage(payloads, p) ==
    LET Lower(x) == SeqLess(x.end, p.end)
        i == Len(SelectSeq(payloads, Lower)) + 1
    IN IF i <= Len(payloads) /\ payloads[i].end = p.end THEN payloads
       ELSE InsertAt(payloads, i, p)

InsertMessages(q, s) ==
    [InsertBytes("message", q, s) EXCEPT
        !.payloads = FoldLeft(InsertMessage, q.payloads, s.payloads)]

\* Takes the first region, or its part below seq, off the list.
ExtractTo(q, seq) ==
    LET first == Head(q.regions)
        Takes(region, regions) ==
            [queue |-> [q EXCEPT !.regions = regions], taken |-> <<region>>]
    IN CASE q.regions = <<>> \/ SeqLE(seq, first.begin) -> [queue |-> q, taken |-> <<>>]
         [] SeqLE(first.end, seq) -> Takes(first, Tail(q.regions))
         [] OTHER -> Takes(FirstPart(first, seq), <<LastPart(first, seq)>> \o Tail(q.regions))

\* The byte queues pass up what they took: its length, and its bytes if there are any.
ExtractBytesUpTo(q, seq) ==
    LET out == ExtractTo(q, seq)
    IN [out EXCEPT !.taken =
            [i \in DOMAIN @ |-> [length |-> Length(@[i]), data |-> @[i].data]]]

\* The line the program adds: the first message gets the number the extraction stops at, "to
\* satisfy the 'if' condition below".  With no message it writes behind the list's end; the
\* library keeps the list's size there, which only info() reads.
FirstEndsThere(payloads, seq) ==
    IF payloads = <<>> THEN payloads ELSE [payloads EXCEPT ![1].end = seq]

\* A message queue extracts no further than its first message, and passes that up when the
\* bytes taken end there.
ExtractMessage(kind, q, seq) ==
    LET upTo == IF q.payloads # <<>> /\ SeqLess(Head(q.payloads).end, seq)
                THEN Head(q.payloads).end ELSE seq
        kept == IF kind = "plain" THEN q.payloads ELSE FirstEndsThere(q.payloads, upTo)
        out  == ExtractTo([q EXCEPT !.payloads = kept], upTo)
        done == out.taken # <<>> /\ kept # <<>> /\ Head(kept).end = out.taken[1].end
    IN IF done THEN [queue |-> [out.queue EXCEPT !.payloads = Tail(kept)],
                     taken |-> <<Head(kept).msg>>]
       ELSE [out EXCEPT !.taken = <<>>]

Extract(kind, q, seq) ==
    IF kind \in {"virtual", "stream"} THEN ExtractBytesUpTo(q, seq)
    ELSE ExtractMessage(kind, q, seq)

GetAmountOfBufferedBytes(q) ==
    FoldLeft(LAMBDA sum, r : sum + Length(r), 0, q.regions)

GetAmountOfFreeBytes(q, maxRcvBuffer) ==
    LET used == GetAmountOfBufferedBytes(q)
    IN IF maxRcvBuffer > used THEN maxRcvBuffer - used ELSE 0

GetQueueLength(q) == Len(q.regions)

\* The edges of the region the byte at a number, or the one before it, is in.
GetLE(q, fromSeq) ==
    LET In(r) == SeqLE(r.begin, fromSeq) /\ SeqLess(fromSeq, r.end)
        holding == SelectSeq(q.regions, In)
    IN IF holding = <<>> THEN fromSeq ELSE Head(holding).begin

GetRE(q, toSeq) ==
    LET In(r) == SeqLess(r.begin, toSeq) /\ SeqLE(toSeq, r.end)
        holding == SelectSeq(q.regions, In)
    IN IF holding = <<>> THEN toSeq ELSE Head(holding).end

\* process_READ_REQUEST: extracts up to rcv_nxt until nothing comes.
ReadRequest(kind, q) ==
    LET Round(acc, i) ==
            IF acc.ended THEN acc
            ELSE LET out == Extract(kind, acc.queue, acc.queue.rcv_nxt)
                 IN [queue |-> out.queue, ended |-> out.taken = <<>>,
                     told  |-> acc.told \o out.taken]
        rounds == Len(q.regions) + Len(q.payloads) + 1
        reads == FoldLeft(Round, [queue |-> q, ended |-> FALSE, told |-> <<>>],
                          [i \in 1 .. rounds |-> i])
    IN [queue |-> reads.queue, told |-> reads.told]

----------------------------------------------------------------------------
\* Which classes a connection gets.  dataTransferMode is a string parameter.

TransferModes == {"bytecount", "object", "bytestream", "rqrequests"}

\* convertStringToDataTransferMode
TransferMode(name) == IF name \in TransferModes THEN name ELSE "undefined"

CreateSendQueue ==
    [bytecount  |-> "RQVirtualDataSendQueue",
     object     |-> "RQMsgBasedSendQueue",
     bytestream |-> "RQByteStreamSendQueue",
     rqrequests |-> "RQRequestsSendQueue"]

\* RQ_RECEIVE_SYMBOLS has no name an application could give.
CreateReceiveQueue ==
    [bytecount  |-> "RQVirtualDataRcvQueue",
     object     |-> "RQMsgBasedRcvQueue",
     bytestream |-> "RQByteStreamRcvQueue",
     symbols    |-> "RQSymbolsRcvQueue"]

\* initConnection: the modes of the send and of the receive queue.
CreateQueues(mode) ==
    IF mode = "rqrequests" THEN <<"rqrequests", "symbols">> ELSE <<"object", "object">>

=============================================================================
