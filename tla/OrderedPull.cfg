\* Three connections share the pacer, two of them a multi-source group; switches trim the
\* symbols of the third, packets of one path keep their order.
\* CHECK_DEADLOCK is off: transfers end.
SPECIFICATION FairSpec
CONSTANTS
    c1 = c1
    c2 = c2
    c3 = c3
    Conn = {c1, c2, c3}
    IW = 2
    Wanted <- WantsThree
    Groups <- OneGroup
    GroupQuota = 5
    TrimLimit <- TrimsTwo
INVARIANTS EnoughCredit BoundedOvertaking
PROPERTIES Completes SinksGetQuota
CHECK_DEADLOCK FALSE
