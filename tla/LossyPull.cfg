\* Loss, reordering and trimming; two connections that are also one multi-source group.
\* CHECK_DEADLOCK is off: transfers end.
SPECIFICATION Spec
CONSTANTS
    c1 = c1
    c2 = c2
    Conn = {c1, c2}
    IW = 2
    Wanted <- WantsThree
    Groups <- OneGroup
    GroupQuota = 3
    TrimLimit <- TrimsOne
INVARIANTS TypeOK WindowBound PullsInOrder NoLostWakeup EndOfTransfer
PROPERTY ImplementsTokens
CHECK_DEADLOCK FALSE
