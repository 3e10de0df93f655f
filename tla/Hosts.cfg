\* Every scenario in turn.  CHECK_DEADLOCK is off: a simulation ends.
SPECIFICATION Spec
CONSTANTS
    Host <- MCHost
    Pointer <- MCPointer
    NoHost = "none"
    NoConn = 0
    SeqSpace = 32
    EPHEMERAL_PORTRANGE_START = 1024
    EPHEMERAL_PORTRANGE_END = 1026
    Scenarios <- MCScenarios
INVARIANTS TypeOK TablesAgree PortsApart ListenerKept OptionsAgree WindowHonest ThreadsMatch
    UndisturbedCalls FailsOnlyAsKnown
CHECK_DEADLOCK FALSE
