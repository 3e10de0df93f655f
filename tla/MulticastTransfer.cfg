\* Two receivers, one behind a congested switch.
\* CHECK_DEADLOCK is off: transfers end.
SPECIFICATION Spec
CONSTANTS
    near = near
    far = far
    Receivers = {near, far}
    IW = 2
    Wanted = 4
    TrimLimit <- TrimsMore
INVARIANTS TypeOK OverrunBounded EnoughCredit
PROPERTIES EveryoneCompletes
CHECK_DEADLOCK FALSE
