\* The server's application never closes: a timer closes the client's connection.
\* CHECK_DEADLOCK is off: connections end.
SPECIFICATION Spec
CONSTANTS
    Closers = {"client"}
    Answerers = {}
    Aborters = {}
    Symbols = 1
    Loses = FALSE
    Setups <- Ordinary
INVARIANT ClosedIsDeleted
CHECK_DEADLOCK FALSE
