\* Client-role session on Linux, one application session.Close() and no
\* acceptor: checks ClosedCallbackOnce alone.
CONSTANTS
    Nil = Nil
    Gzip = FALSE
    Flags <- MCFlags
    Bodies <- MCBodies
    MaxMsgs = 1
    IsClient = TRUE
    Ordered = TRUE
    Platform = "linux"
    MaxTransient = 0
    MaxAppClose = 1
    ReadSize = 4096
SPECIFICATION Spec
INVARIANT ClosedCallbackOnce
CHECK_DEADLOCK FALSE
