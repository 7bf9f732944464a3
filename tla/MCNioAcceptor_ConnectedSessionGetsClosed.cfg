\* One client, one SocketAcceptor.Close, per-iteration range variables (so
\* the shared-variable race is out of the picture): checks only that every
\* connected session is eventually closed once the acceptor is.
CONSTANTS
    Conns = {c1}
    None = None
    LoopVarShared = FALSE
    MaxSendFail = 0
    MaxAppClose = 0
    MaxAcceptorClose = 1
SPECIFICATION Spec
PROPERTY ConnectedSessionGetsClosed
CHECK_DEADLOCK FALSE
