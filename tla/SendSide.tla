------------------------------- MODULE SendSide -------------------------------
(***************************************************************************)
(* The byte-oriented send side that RQConnection has from TCP: sequence    *)
(* numbers, the send queue behind them, and what its flavours resend.      *)
(*                                                                         *)
(* The symbol path does not use it, but three things do: a request written *)
(* before the connection is established is queued here, CLOSE compares the *)
(* queue with what has been sent, and the retransmission timer of some     *)
(* flavours sends again from here.                                         *)
(*                                                                         *)
(* A queue is the range [begin, end) of the bytes it holds; both classes a *)
(* connection can have (RQMsgBasedSendQueue and RQRequestsSendQueue) work  *)
(* alike.  Congestion windows are left out: the flavours set them, nothing *)
(* that still sends reads them.                                            *)
(***************************************************************************)
EXTENDS Integers, Sequences

Flavours == {"RQSimpleAlg", "RQReno", "RQVegas", "DumbRQ"}

\* DumbRQ's restartRexmitTimer is empty; the others inherit RQBaseAlg's.
HasRexmitTimer(flavour) == flavour # "DumbRQ"

\* The request an application writes: a write (opcode 2) sends the symbols itself.
Request(opcode) == [opcode |-> opcode, isReader |-> opcode = 1, isWriter |-> opcode = 2]

\* sendData answers a read with nothing, a write with the initial window, which is sent
\* once, and falls off its end without a value for anything else: it may do either.
IsRead(request)  == request.opcode = 1 /\ request.isReader /\ ~request.isWriter
IsWrite(request) == request.opcode = 2 /\ request.isWriter /\ ~request.isReader

\* Whether sendData sends the window: a set of outcomes.
SendData(request, started) ==
    CASE started -> {FALSE}
      [] ~started /\ IsRead(request) -> {FALSE}
      [] ~started /\ IsWrite(request) -> {TRUE}
      [] OTHER -> BOOLEAN

\* What DumbRQ passes instead of the request it is given, and when it is established.
DumbRequest == [opcode |-> 1, isReader |-> TRUE, isWriter |-> TRUE]

SendCommandInvoked(flavour, request, started) ==
    SendData(IF flavour = "DumbRQ" THEN DumbRequest ELSE request, started)

\* What the active side answers a SYN+ACK with: the first ACK, which carries the file's id;
\* DumbRQ the window, an ACK if sendData returns false, or nothing.
ActiveReplies(flavour) ==
    IF flavour = "DumbRQ" THEN {"ACK", "NONE", "SYMBOL"} ELSE {"FIRSTACK"}

\* RQSimpleAlg leaves its timer to RQBaseAlg, which only counts.
Resends(flavour) == flavour \in {"RQReno", "RQVegas"}

\* snd_mss when neither side has set another one.
Mss == 536

Smaller(a, b) == IF a < b THEN a ELSE b
Larger(a, b)  == IF a > b THEN a ELSE b

----------------------------------------------------------------------------
\* The send queue.

EmptyQueue(startSeq) == [begin |-> startSeq, end |-> startSeq]

EnqueueAppData(queue, bytes) == [queue EXCEPT !.end = @ + bytes]

GetBytesAvailable(queue, fromSeq) == IF fromSeq < queue.end THEN queue.end - fromSeq ELSE 0

\* The assertion of createSegmentWithBytes.
HoldsBytes(queue, fromSeq, bytes) == queue.begin <= fromSeq /\ fromSeq + bytes <= queue.end

DiscardUpTo(queue, seqNum) == [queue EXCEPT !.begin = seqNum]

----------------------------------------------------------------------------
\* Numbers: snd_una, snd_nxt and snd_max, and the number of a FIN once CLOSE has been
\* called.  regions is the range of RQSegmentTransmitInfoList; started, whether symbols
\* have been generated (esi > 0).

Unnumbered ==
    [una |-> 0, nxt |-> 0, max |-> 0, queue |-> EmptyQueue(1), sendFin |-> FALSE,
     finSeq |-> 0, regions |-> <<>>, started |-> FALSE]

\* selectInitialSeqNum, then the SYN or SYN+ACK that takes number 0.
SynNumbered(snd) == [Unnumbered EXCEPT !.nxt = 1, !.max = 1]

\* Wrong: the acknowledgement is not taken over.
SynAcknowledgedNot(snd) == [snd EXCEPT !.queue = DiscardUpTo(@, 1)]

\* The SYN+ACK acknowledges the SYN; the passive side never learns that its own has been.
SynAcknowledged(snd) == [snd EXCEPT !.una = 1, !.queue = DiscardUpTo(@, 1)]

\* The number advances over a FIN that carries the number seq.
OverFin(snd, seq) == [snd EXCEPT !.nxt = seq + 1, !.max = seq + 1]

\* CLOSE: a FIN is sent at once, and another one unless queued bytes defer it.
FinDeferred(snd) == snd.max # snd.queue.end

CloseNumbers(snd) == IF FinDeferred(snd) THEN <<snd.nxt>> ELSE <<snd.nxt, snd.max>>

AfterClose(snd) ==
    [(IF FinDeferred(snd) THEN snd ELSE OverFin(snd, snd.max))
        EXCEPT !.sendFin = TRUE, !.finSeq = snd.queue.end]

----------------------------------------------------------------------------
\* retransmitOneSegment, called by a retransmission timer.

RexmitBytes(snd) ==
    Smaller(Smaller(Mss, snd.max - snd.una), GetBytesAvailable(snd.queue, snd.una))

\* The FIN is all there is to send again.
OnlyFin(snd) == RexmitBytes(snd) = 0 /\ snd.sendFin /\ snd.finSeq = snd.queue.end

\* sendSegment: the bytes from snd_una, with the FIN if they reach it.
CarriesFin(snd) == snd.sendFin /\ snd.una + RexmitBytes(snd) = snd.finSeq

\* Wrong: snd_max stays, so the FIN takes the next number.
RexmittedFinRenumbered(snd) ==
    [kind |-> "FIN", seq |-> snd.max, from |-> snd.max, snd |-> OverFin(snd, snd.max)]

\* What is sent, with the number of its FIN, the first number that is noted as sent
\* again, and the send side afterwards.
RexmittedFin(snd) ==
    [kind |-> "FIN", seq |-> snd.queue.end, from |-> snd.queue.end,
     snd |-> OverFin(snd, snd.queue.end)]

RexmittedData(snd) ==
    LET next == snd.una + RexmitBytes(snd)
    IN  IF CarriesFin(snd)
        THEN [kind |-> "FIN", seq |-> next, from |-> snd.una, snd |-> [snd EXCEPT !.nxt = next + 1]]
        ELSE [kind |-> "SYMBOL", seq |-> next, from |-> snd.una, snd |-> [snd EXCEPT !.nxt = next]]

Retransmission(snd) == IF OnlyFin(snd) THEN RexmittedFin(snd) ELSE RexmittedData(snd)

\* RQSegmentTransmitInfoList::set, which RQVegas calls for what it sends again: its
\* assertions, and the range of the list afterwards.
RegionFits(regions, from, to) ==
    /\ from < to
    /\ regions # <<>> => regions[1] <= from /\ from <= regions[2]

NoteRegion(regions, from, to) ==
    IF regions = <<>> THEN <<from, to>> ELSE <<regions[1], Larger(regions[2], to)>>

\* What can be sent again: the FIN, or bytes the queue holds (two assertions).
Sendable(snd) ==
    \/ OnlyFin(snd)
    \/ RexmitBytes(snd) > 0 /\ HoldsBytes(snd.queue, snd.una, RexmitBytes(snd))

\* The assertion that fails, or "none".
RexmitError(flavour, snd) ==
    LET r == Retransmission(snd)
    IN  IF ~Sendable(snd) THEN "NOT_IN_QUEUE"
        ELSE IF flavour = "RQVegas" /\ ~RegionFits(snd.regions, r.from, r.snd.nxt)
        THEN "NO_REGION"
        ELSE "none"

AfterRexmit(flavour, snd) ==
    LET r == Retransmission(snd)
    IN  IF flavour = "RQVegas"
        THEN [r.snd EXCEPT !.regions = NoteRegion(@, r.from, r.snd.nxt)]
        ELSE r.snd

=============================================================================
