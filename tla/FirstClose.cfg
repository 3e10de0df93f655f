\* The FIN overtakes a symbol or the last handshake ACK.
\* CHECK_DEADLOCK is off: connections end.
SPECIFICATION Spec
CONSTANTS
    Closers = {"client"}
    Answerers = {"server"}
    Aborters = {}
    Symbols = 2
    Loses = FALSE
    Setups <- Reordered
INVARIANT OnlyDuplicatesRejected
CHECK_DEADLOCK FALSE
