\* A transfer no larger than the initial window, behind a switch that trims.
SPECIFICATION OrderedSpec
CONSTANTS
    c1 = c1
    c2 = c2
    Conn = {c1}
    IW = 2
    Wanted <- WantsTwo
    Groups <- NoGroups
    GroupQuota = 1
    TrimLimit <- TrimsTwo
PROPERTY QueuedRequestsSent
CHECK_DEADLOCK FALSE
