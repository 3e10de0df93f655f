\* The repeated FIN is lost.
\* CHECK_DEADLOCK is off: connections end.
SPECIFICATION FairSpec
CONSTANTS
    Closers = {"client"}
    Answerers = {"server"}
    Aborters = {}
    Symbols = 1
    Loses = TRUE
    Setups <- Ordinary
PROPERTY TimeWaitEnds
CHECK_DEADLOCK FALSE
