\* Acceptor: two clients, one failed handshake, one application close, one
\* SocketAcceptor.Close call; Go 1.22 and later (a range variable per
\* iteration).  Connector: one Connect, ids 1 and 258 (two non-zero bytes),
\* an optional first message, one application Close at any time.
\* Job: two jobs started by the caller in turn, mixing RegularCall and
\* ExpiredCall, two calls of f per ticker.  Shutdown: the main goroutine
\* registers the web service, a delay queue and a connection while one
\* SIGINT or SIGTERM may arrive at any point.  Logger: two goroutines making
\* Debug or Info calls with the level at INFO, a file limit of one line and
\* three backups (three calls each), or daily rolling over three days with
\* one day of history (two calls each).  Web: one request, every outcome of
\* each dispatch step, for a method that four of five PointCuts match
\* (the second a daemon), from any point of their adding, with or without
\* the matches of an earlier request cached.  Logger setup: any sequence of
\* InitLogger calls on one file and every Conf case, and log calls at
\* every level between them.  Service registration: ttl 2 (raised to 3, a
\* keep-alive every second), two lease ids, two failed RPCs, Unregister at
\* any time.
CONSTANTS
    Conns = {c1, c2}
    None = None
    LoopVarShared = FALSE
    MaxSendFail = 1
    MaxAppClose = 1
    MaxAcceptorClose = 1
    HsIds = {1, 258}
    MaxConnects = 1
    MaxCtx = 2
    MaxTicks = 2
    Registrants = {main}
    Plan <- MCPlan
    Resources = {"web", "queue", "conn"}
    Signals = {"INT", "TERM"}
    MaxSignals = 1
    Writers = {w1, w2}
    LogLevel = 2
    MaxFileSize = 1
    MaxDay = 2
    LogMaxNumber = 3
    LogSizeLines = 3
    LogMaxHistory = 1
    LogDailyLines = 2
    Matching = {1, 2, 3, 5}
    Reqs = {q1}
    Files = {f1}
    Ttl = 2
    LeaseIds = {1, 2}
    MaxFails = 2
SPECIFICATION Spec
INVARIANT TypeOK
INVARIANT IdsDense
INVARIANT HandshakeSplitsStream
 
 
INVARIANT RotationKeepsOrder
INVARIANT BoundedOverflow
INVARIANT ChainFollowsContract
INVARIANT SuccessIsOnlyResponse
INVARIANT EveryRequestAnswered
PROPERTY PeerCloseReleasesSession
PROPERTY HangupClosesSession
PROPERTY CancelledJobExits
 
PROPERTY KeyEventuallyRegistered
PROPERTY UnregisterRemovesKey
\* Each endpoint stops once it is closed and its goroutines have returned;
\* the job caller stops when its calls are used up and every job has
\* returned or waits on a timer or ticker that no longer matters; the
\* shutdown ends with the registrations made and ListenSignal returned, or
\* blocked on a signal past the bound; the logger once its calls are made;
\* the request once dispatchHandler has returned and its daemons have run;
\* logger setup never stops (InitLogger and log calls can always come), nor
\* does time in service registration.
CHECK_DEADLOCK FALSE
