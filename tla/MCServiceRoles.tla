--------------------------- MODULE MCServiceRoles ----------------------------
(***************************************************************************)
(* The two socket endpoints of src/nio, the timed job of src/tools/job.go,*)
(* the shutdown manager of src/global/resource.go and the rolling log     *)
(* file of src/logger in one model: the initial state picks whether this   *)
(* process runs a SocketAcceptor (NioAcceptor), a SocketConnector          *)
(* (NioConnector), a RegularJob, registers resources while signals arrive  *)
(* (ResourceManager), or logs from several goroutines to a file rolled by  *)
(* size or daily (RollingLog), or serves a request through src/web's       *)
(* dispatchHandler and the interceptor chain while PointCuts are still    *)
(* being added (WebDispatch over InterceptorChain), and only that one      *)
(* takes steps; the others stay in their initial states.  The state space *)
(* is the sum of the seven,                                                *)
(* and each property of one holds trivially while another runs.  The      *)
(* variables the two endpoints share by name are renamed with a "c" prefix *)
(* on the connector's side; both logger roles use the same variables.     *)
(***************************************************************************)
EXTENDS Naturals, Sequences

CONSTANTS
    Conns, None, LoopVarShared, MaxSendFail, MaxAppClose, MaxAcceptorClose,
    HsIds, MaxConnects,
    MaxCtx, MaxTicks,       \* RegularJob
    Registrants, Plan, Resources, Signals, MaxSignals,  \* ResourceManager
    Writers, LogLevel, MaxFileSize, MaxDay,             \* RollingLog
    LogMaxNumber, LogSizeLines,     \* Rolling = "size": MaxHistory, calls
    LogMaxHistory, LogDailyLines,   \* daily: MaxHistory, calls
    Matching, Reqs,                 \* InterceptorChain
    Files,                          \* LoggerSetup
    Ttl, LeaseIds, MaxFails         \* ServiceRegister

VARIABLES
    \* NioAcceptor
    listener, closed, backlog, acc, cur, counter, id, sessions, registered,
    conn, peer, rl, connectedCb, closedCbs, sendFails, appCloses, accCloses,
    \* NioConnector
    app, nConnects, cCur, cClosed, sid, hsNeed, hsBuf, wire, srvId, srvFrame,
    cPeer, cConn, cRl, received, cConnectedCb, cClosedCbs, cAppCloses,
    \* RegularJob
    d, ctx, cancle, nextc, pc, cont, kind, arg, done, canceller, calls,
    \* ResourceManager
    state, lists, mi, mpc, msnap, disable, lpc, sig, nsig, phase, closing,
    closes, atSig,
    \* RollingLog
    logfile, bk, fsize, date, today, hist, mu, wpc, lvl, nl, cleans, rolled,
    \* InterceptorChain
    chain, cache, rpc, cuts, idx, gerr, resp, pend, tr,
    \* WebDispatch
    dpc, out, excused,
    \* LoggerSetup
    logLevel, consoleApp, rolltype, maxFileSize, maxFileCount, lgId, fbs, last,
    \* ServiceRegister
    left, key, gCur, granted, gRpc, slept, cancelled, fails,
    role    \* "acceptor", "connector", "job", "shutdown", "log_size",
            \* "log_daily", "web", "log_setup", "register"

A == INSTANCE NioAcceptor
C == INSTANCE NioConnector WITH cur <- cCur, closed <- cClosed, peer <- cPeer,
         conn <- cConn, rl <- cRl, connectedCb <- cConnectedCb,
         closedCbs <- cClosedCbs, appCloses <- cAppCloses
J == INSTANCE RegularJob
R == INSTANCE ResourceManager
LS == INSTANCE RollingLog WITH RollType <- "size", MaxFileCount <- LogMaxNumber,
                               MaxLines <- LogSizeLines
LD == INSTANCE RollingLog WITH RollType <- "daily", MaxFileCount <- LogMaxHistory,
                               MaxLines <- LogDailyLines

\* The program Adds five PointCuts; the second is a daemon.
MCDaemon == <<FALSE, TRUE, FALSE, FALSE, FALSE>>

I == INSTANCE InterceptorChain WITH Daemon <- MCDaemon
W == INSTANCE WebDispatch WITH Daemon <- MCDaemon
S == INSTANCE LoggerSetup WITH id <- lgId
G == INSTANCE ServiceRegister WITH cur <- gCur, rpc <- gRpc

\* A service's main goroutine registers the web service first
\* (AddAfterFree), then a local cache's delay queue (Add, as
\* CrateLocalCache does) and a resource to close first (AddBeforeFree).
MCPlan == [g \in Registrants |->
             << [m |-> "AddAfterFree", r |-> "web"], [m |-> "Add", r |-> "queue"],
                [m |-> "AddBeforeFree", r |-> "conn"] >>]

avars == <<listener, closed, backlog, acc, cur, counter, id, sessions,
           registered, conn, peer, rl, connectedCb, closedCbs, sendFails, appCloses, accCloses>>
cvars == <<app, nConnects, cCur, cClosed, sid, hsNeed, hsBuf, wire, srvId,
           srvFrame, cPeer, cConn, cRl, received, cConnectedCb, cClosedCbs,
           cAppCloses>>
jvars == <<d, ctx, cancle, nextc, pc, cont, kind, arg, done, canceller, calls>>
rvars == <<state, lists, mi, mpc, msnap, disable, lpc, sig, nsig, phase,
           closing, closes, atSig>>
lvars == <<logfile, bk, fsize, date, today, hist, mu, wpc, lvl, nl, cleans,
           rolled>>
ivars == <<chain, cache, rpc, cuts, idx, gerr, resp, pend, tr, dpc, out, excused>>
svars == <<logLevel, consoleApp, rolltype, maxFileSize, maxFileCount, lgId, fbs, last>>
gvars == <<left, key, gCur, granted, gRpc, slept, cancelled, fails>>
mvars == <<avars, cvars, jvars, rvars, lvars, ivars, svars, gvars, role>>

Init ==
    /\ role \in {"acceptor", "connector", "job", "shutdown", "log_size", "log_daily",
                 "web", "log_setup", "register"}
    /\ A!Init /\ C!Init /\ J!Init /\ R!Init /\ LS!Init /\ W!Init /\ S!Init /\ G!Init
    /\ role # "web" => chain = <<>> /\ cache = <<>>

\* A step of the acceptor's, the connector's, the job's, the shutdown
\* manager's, the logger's or the web request's model.
AStep(act) == role = "acceptor" /\ act /\ UNCHANGED <<cvars, jvars, rvars, lvars, ivars, svars, gvars, role>>
CStep(act) == role = "connector" /\ act /\ UNCHANGED <<avars, jvars, rvars, lvars, ivars, svars, gvars, role>>
JStep(act) == role = "job" /\ act /\ UNCHANGED <<avars, cvars, rvars, lvars, ivars, svars, gvars, role>>
RStep(act) == role = "shutdown" /\ act /\ UNCHANGED <<avars, cvars, jvars, lvars, ivars, svars, gvars, role>>
LStep(r, act) == role = r /\ act /\ UNCHANGED <<avars, cvars, jvars, rvars, ivars, svars, gvars, role>>
SStep(act) == role = "log_setup" /\ act /\ UNCHANGED <<avars, cvars, jvars, rvars, lvars, ivars, gvars, role>>
GStep(act) == role = "register" /\ act /\ UNCHANGED <<avars, cvars, jvars, rvars, lvars, ivars, svars, role>>
WStep(act) == role = "web" /\ act /\ UNCHANGED <<avars, cvars, jvars, rvars, lvars, svars, gvars, role>>

Next == \/ AStep(A!Next) \/ CStep(C!Next) \/ JStep(J!Next) \/ RStep(R!Next)
        \/ LStep("log_size", LS!Next) \/ LStep("log_daily", LD!Next)
        \/ WStep(W!Next) \/ SStep(S!Next) \/ GStep(G!Next)

\* The fairness of NioAcceptor!Spec, NioConnector!Spec, RegularJob!Spec
\* and ServiceRegister!Spec, for the one that runs; ResourceManager!Spec,
\* RollingLog!Spec, WebDispatch!Spec and LoggerSetup!Spec have none.
Spec == /\ Init /\ [][Next]_mvars
        /\ WF_mvars(AStep(A!AcceptLoop))
        /\ \A c \in Conns : WF_mvars(AStep(A!ReadLoop(c)))
        /\ WF_mvars(CStep(C!HsRead \/ C!HsFail))
        /\ \A k \in C!Sess : WF_mvars(CStep(C!ReadLoop(k)))
        /\ WF_mvars(JStep(J!UserStep))
        /\ \A j \in J!Jobs : WF_mvars(JStep(J!JobStep(j)))
        /\ WF_mvars(GStep(G!RegStep)) /\ WF_mvars(GStep(G!Tick))

-----------------------------------------------------------------------------
\* The type invariants of both endpoints, the log file and the request.
TypeOK ==
    /\ A!TypeOK /\ C!TypeOK /\ W!TypeOK /\ S!TypeOK /\ G!TypeOK
    /\ role = "log_size" => LS!TypeOK
    /\ role = "log_daily" => LD!TypeOK

\* The acceptor's session ids are 1..n, each used once
\* (NioAcceptor!IdsDense).
IdsDense == A!IdsDense

\* A session whose client hung up leaves the acceptor's map
\* (NioAcceptor!PeerCloseReleasesSession).
PeerCloseReleasesSession == A!PeerCloseReleasesSession

\* Connect's handshake cuts the stream after the 8-byte id
\* (NioConnector!HandshakeSplitsStream).
HandshakeSplitsStream == C!HandshakeSplitsStream

\* A connected session whose server hung up gets its connection closed
\* (NioConnector!HangupClosesSession).
HangupClosesSession == C!HangupClosesSession

\* A job whose context is cancelled returns (RegularJob!CancelledJobExits).
CancelledJobExits == J!CancelledJobExits

\* A handled signal closes what was registered
\* (ResourceManager!ShutdownClosesRegistered).
ShutdownClosesRegistered == R!ShutdownClosesRegistered

RotationKeepsOrder ==
    /\ role = "log_size" => LS!RotationKeepsOrder
    /\ role = "log_daily" => LD!RotationKeepsOrder

\* A file rolled by size outgrows the limit by at most a line per goroutine
\* (RollingLog!BoundedOverflow).
BoundedOverflow == role = "log_size" => LS!BoundedOverflow

\* Every finished DoIntercepptor made its synchronous Before, target, After
\* and OnError calls in the order the chain's contract states
\* (InterceptorChain!ChainFollowsContract).
ChainFollowsContract == I!ChainFollowsContract

\* A success response is the only one, and only after DoIntercepptor
\* returned nil (WebDispatch!SuccessIsOnlyResponse).
SuccessIsOnlyResponse == W!SuccessIsOnlyResponse

\* A request dispatchHandler has finished was answered, unless the code
\* chose not to (WebDispatch!EveryRequestAnswered).
EveryRequestAnswered == W!EveryRequestAnswered

KeyEventuallyRegistered == role = "register" => G!KeyEventuallyRegistered

\* An unregistered service's key is eventually gone for good
\* (ServiceRegister!UnregisterRemovesKey).
UnregisterRemovesKey == role = "register" => G!UnregisterRemovesKey
=============================================================================
