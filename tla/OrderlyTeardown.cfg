\* Nothing is lost or overtaken and timers are slow: every close ends both sides.
\* CHECK_DEADLOCK is off: connections end.
SPECIFICATION FairSpec
CONSTANTS
    Closers = {"client", "server"}
    Answerers = {"client", "server"}
    Aborters = {}
    Symbols = 2
    Loses = FALSE
    Setups <- AllFlavours
PROPERTIES HandshakeEnds TeardownCompletes CloseIsAnswered
CHECK_DEADLOCK FALSE
