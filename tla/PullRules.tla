------------------------------ MODULE PullRules ------------------------------
(***************************************************************************)
(* The sender's decision about one request and the receiver's about one    *)
(* symbol, shared by the models of the data phase.  n is the number of     *)
(* symbols received so far, this one included; esi the highest symbol      *)
(* number accounted for; gap how far the symbol's number is ahead of the   *)
(* expected one.                                                           *)
(***************************************************************************)
EXTENDS Integers

CONSTANT IW  \* RQStateVariables::IW, the initial window (8 in the source)

\* Two wrong gaps: the request's own number, and an answer to a delayed request too.
RequestsGapUnanchored(seq, answered) == seq

RequestsGapAtLeastOne(seq, answered) == IF seq - answered >= 1 THEN seq - answered ELSE 1

\* Symbols that request seq asks a sender for that has answered some: the requests
\* before it that have not arrived are taken as lost, a delayed one asks for nothing.
RequestsGap(seq, answered) == IF seq - answered >= 1 THEN seq - answered ELSE 0

\* Wrong: the last window begins one symbol early.
AsksOneTooFew(n, gap, wanted, finished) ==
    /\ n < wanted
    /\ ~finished
    /\ gap > 0 \/ (gap = 0 /\ n < wanted - IW)

\* Whether the n-th symbol, gap ahead of the expected number, asks for another one.
\* The last window is only topped up when a gap shows that symbols are missing.
Asks(n, gap, wanted, finished) ==
    /\ n < wanted
    /\ ~finished
    /\ gap > 0 \/ (gap = 0 /\ n <= wanted - IW)

\* state->esi follows the highest number seen; a delayed symbol (gap < 0) leaves it.
NextEsi(esi, ssn, n, wanted, finished) ==
    CASE ~(n < wanted /\ ~finished) -> esi + 1
      [] n < wanted /\ ~finished /\ ssn - (esi + 1) < 0 -> esi
      [] OTHER -> ssn

\* Whether the n-th symbol ends the transfer; wrong: one symbol early.
IsFinalEarly(n, wanted, finished) == n = wanted - 1 \/ finished

IsFinal(n, wanted, finished) == n = wanted \/ finished

==============================================================================
