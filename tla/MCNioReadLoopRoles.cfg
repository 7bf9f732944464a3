\* Both roles: the server (ordered, no gzip, Linux) and the client
\* (unordered, gzip, Windows) configurations of a session.
CONSTANTS
    Nil = Nil
    MaxMsgs = 2
    MaxTransient = 3
    MaxAppClose = 1
    ReadSize = 4096
SPECIFICATION Spec
INVARIANT TypeOK
INVARIANT DecodeFidelity
INVARIANT NoStrandedFrame
INVARIANT ErrorCloseNeedsThreeFailures
PROPERTY ConnCloseEndsLoop
\* A closed session stops: its read loop has returned and the peer is done.
CHECK_DEADLOCK FALSE
