\* Everything at once: both sides close, the client may abort, segments are lost and
\* overtake each other, timers race them.  CHECK_DEADLOCK is off: connections end.
SPECIFICATION Spec
CONSTANTS
    Closers = {"client", "server"}
    Answerers = {"server"}
    Aborters = {"client"}
    Symbols = 1
    Loses = TRUE
    Setups <- WildOrResending
INVARIANTS TypeOK TimersMatchState SocketAgrees FinHasOneNumber ActiveEndCanResend
PROPERTY KeepsContract
CHECK_DEADLOCK FALSE
