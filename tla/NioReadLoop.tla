----------------------------- MODULE NioReadLoop -----------------------------
(***************************************************************************)
(* One session's receive side: the peer writing framed messages on the     *)
(* connection, Handler.readIo (src/nio/handler.go) reading chunks,         *)
(* decoding them and dispatching the message callback, and the ways the    *)
(* session is closed while the loop runs: session.Close() from the         *)
(* application, SocketAcceptor.Close (server role), end of stream, a reset *)
(* by the peer and transient read errors.  The role decides what           *)
(* session.Close() does (src/nio/session.go): Connector.Close for a client *)
(* session, Acceptor.CloseSession for a server session.                    *)
(***************************************************************************)
EXTENDS NioCodec, FiniteSets

CONSTANTS
    Flags,        \* flags the peer sends
    Bodies,       \* bodies the peer sends: Nil or byte sequences
    MaxMsgs,      \* bound: messages the peer writes
    IsClient,     \* session.isClient
    Ordered,      \* socket.ordered
    Platform,     \* "linux" or "windows": the text of a reset error
    MaxTransient, \* bound: transient read errors injected
    MaxAppClose,  \* bound: calls of session.Close() by the application
    ReadSize      \* len(ioData), the most one conn.Read returns

ASSUME /\ IsClient \in BOOLEAN /\ Ordered \in BOOLEAN
       /\ Platform \in {"linux", "windows"}
       /\ MaxMsgs \in Nat /\ MaxTransient \in Nat /\ MaxAppClose \in Nat
       /\ ReadSize \in Nat \ {0}

\* The read-loop goroutine's position: "check" the top of the for loop,
\* "read" blocked in conn.Read, "decode" in the inner decode loop,
\* "callback" inside an inline (ordered) message callback, "done" returned.
PCs == {"check", "read", "decode", "callback", "done"}

\* Why the loop returned (history, for the properties).
Causes == {"none", "closedFlag", "eof", "remote", "connClosed", "errors"}

MaxFailTimes == 3   \* fail_times >= 3 closes the session

VARIABLES
    wire,       \* bytes written by the peer and not yet read
    sent,       \* messages the peer wrote, in order (history)
    peer,       \* "open", "closed" (FIN sent) or "reset" (RST after its data)
    buf,        \* the decode buffer
    lastMsg,    \* last_msg, the scratch message being decoded
    delivered,  \* messages handed to OnMessageReceived, in dispatch order
    pc,         \* the read-loop goroutine's position
    failTimes,  \* fail_times
    closed,     \* socket.closed of the owning connector or acceptor
    connOpen,   \* the session's connection is not closed locally
    inSet,      \* server role: the session is in the acceptor's map
    closedCbs,  \* OnSessionClosed goroutines started for this session
    exceptions, \* OnException goroutines started
    running,    \* unordered message callbacks still running
    injected,   \* transient read errors that have happened
    errRun,     \* consecutive failed reads seen since the last good read
    appCloses,  \* application calls of session.Close()
    cause       \* why the loop returned

vars == <<wire, sent, peer, buf, lastMsg, delivered, pc, failTimes, closed,
          connOpen, inSet, closedCbs, exceptions, running, injected, errRun,
          appCloses, cause>>

Msgs == [flag : Flags, body : Bodies]

\* Bytes the read loop has taken off the connection so far.
Received == Len(EncodeAll(sent)) - Len(wire)

-----------------------------------------------------------------------------
Init ==
    /\ wire = <<>> /\ sent = <<>> /\ peer = "open"
    /\ buf = <<>> /\ lastMsg = EmptyMsg /\ delivered = <<>>
    /\ pc = "check" /\ failTimes = 0 /\ closed = FALSE
    /\ connOpen = TRUE /\ inSet = ~IsClient
    /\ closedCbs = 0 /\ exceptions = 0 /\ running = 0
    /\ injected = 0 /\ errRun = 0 /\ appCloses = 0 /\ cause = "none"

(***************************************************************************)
(* session.Close(): Connector.Close for a client session (sets the         *)
(* connector's closed flag, starts OnSessionClosed, closes the             *)
(* connection), Acceptor.CloseSession for a server session (removes it     *)
(* from the map, starts OnSessionClosed, closes the connection).  Neither  *)
(* checks whether the session was already closed; closing a closed         *)
(* connection only fails and is logged.                                    *)
(***************************************************************************)
SessionClose ==
    /\ closedCbs' = closedCbs + 1
    /\ connOpen' = FALSE
    /\ IF IsClient THEN closed' = TRUE /\ UNCHANGED inSet
                   ELSE inSet' = FALSE /\ UNCHANGED closed

\* The read loop calls session.Close() and returns.
CloseAndReturn(why) ==
    /\ SessionClose
    /\ pc' = "done"
    /\ cause' = why

\* Top of the loop: return if the owning socket is closed.
CheckClosed ==
    /\ pc = "check"
    /\ IF closed THEN pc' = "done" /\ cause' = "closedFlag"
                 ELSE pc' = "read" /\ UNCHANGED cause
    /\ UNCHANGED <<wire, sent, peer, buf, lastMsg, delivered, failTimes,
                   closed, connOpen, inSet, closedCbs, exceptions, running,
                   injected, errRun, appCloses>>

\* A mutation: a good read does not reset fail_times.
FailTimesKept(f) == f

\* fail_times after a successful read.
FailTimesAfterRead(f) == 0

\* conn.Read returns n > 0 bytes: reset fail_times, append to the buffer.
ReadData(n) ==
    /\ pc = "read" /\ connOpen
    /\ n \in 1..Len(wire) /\ n <= ReadSize
    /\ buf' = buf \o SubSeq(wire, 1, n)
    /\ wire' = Drop(wire, n)
    /\ failTimes' = FailTimesAfterRead(failTimes) /\ errRun' = 0
    /\ pc' = "decode"
    /\ UNCHANGED <<sent, peer, lastMsg, delivered, closed, connOpen, inSet,
                   closedCbs, exceptions, running, injected, appCloses, cause>>

\* A mutation: the failure limit is checked with > instead of >=.
TooManyFailuresLate(n) == n > MaxFailTimes

\* fail_times >= 3 ends the loop.
TooManyFailures(n) == n >= MaxFailTimes

\* A read error that is not recognised as a close: count it, start
\* OnException, close after the third consecutive one, else sleep and retry.
ReadFailure ==
    /\ failTimes' = failTimes + 1
    /\ exceptions' = exceptions + 1
    /\ errRun' = errRun + 1
    /\ IF TooManyFailures(failTimes + 1)
       THEN CloseAndReturn("errors")
       ELSE /\ pc' = "check"
            /\ UNCHANGED <<closedCbs, connOpen, closed, inSet, cause>>

\* io.EOF after the peer's FIN and all its data.
ReadEOF ==
    /\ pc = "read" /\ connOpen /\ peer = "closed" /\ wire = <<>>
    /\ CloseAndReturn("eof")
    /\ UNCHANGED <<wire, sent, peer, buf, lastMsg, delivered, failTimes,
                   exceptions, running, injected, errRun, appCloses>>

\* "use of closed network connection": the connection was closed locally.
ReadClosedConn ==
    /\ pc = "read" /\ ~connOpen
    /\ CloseAndReturn("connClosed")
    /\ UNCHANGED <<wire, sent, peer, buf, lastMsg, delivered, failTimes,
                   exceptions, running, injected, errRun, appCloses>>

\* The peer's RST.  Only the Windows text ("... closed by the remote
\* host") is matched as a close; Linux's "connection reset by peer" is
\* counted as a failure.  Reads after the reset return io.EOF.
ReadReset ==
    /\ pc = "read" /\ connOpen /\ peer = "reset" /\ wire = <<>>
    /\ peer' = "closed"
    /\ IF Platform = "windows"
       THEN /\ CloseAndReturn("remote")
            /\ UNCHANGED <<failTimes, exceptions, errRun>>
       ELSE ReadFailure
    /\ UNCHANGED <<wire, sent, buf, lastMsg, delivered, running, injected,
                   appCloses>>

\* Any other read error (a transient network fault).
ReadError ==
    /\ pc = "read" /\ connOpen /\ injected < MaxTransient
    /\ injected' = injected + 1
    /\ ReadFailure
    /\ UNCHANGED <<wire, sent, peer, buf, lastMsg, delivered, running,
                   appCloses>>

\* A mutation: last_msg is reused instead of starting afresh.
NextScratchReused(done) == done

\* last_msg = &Msg{} after a dispatched message.
NextScratch(done) == EmptyMsg

\* A mutation: the inner loop does not break when Decode returns false.
DecodeLoopNoBreak == UNCHANGED pc

\* Decode returned false: break to the outer loop's top.
BreakDecodeLoop == pc' = "check"

(***************************************************************************)
(* One pass of the inner decode loop.  On success the message is copied    *)
(* and dispatched (inline when ordered, on a new goroutine otherwise) and  *)
(* last_msg starts afresh; on failure the inner loop breaks and the outer  *)
(* loop goes back to its top.                                              *)
(***************************************************************************)
DecodeNext ==
    /\ pc = "decode"
    /\ LET r == Decode(lastMsg, buf)
       IN  /\ buf' = r.rd
           /\ IF r.ok
              THEN /\ delivered' = Append(delivered, r.msg)
                   /\ lastMsg' = NextScratch(r.msg)
                   /\ IF Ordered THEN pc' = "callback" /\ UNCHANGED running
                                 ELSE running' = running + 1 /\ UNCHANGED pc
              ELSE /\ lastMsg' = r.msg
                   /\ BreakDecodeLoop
                   /\ UNCHANGED <<delivered, running>>
    /\ UNCHANGED <<wire, sent, peer, failTimes, closed, connOpen, inSet,
                   closedCbs, exceptions, injected, errRun, appCloses, cause>>

\* The inline OnMessageReceived of an ordered session returns.
CallbackReturn ==
    /\ pc = "callback"
    /\ pc' = "decode"
    /\ UNCHANGED <<wire, sent, peer, buf, lastMsg, delivered, failTimes,
                   closed, connOpen, inSet, closedCbs, exceptions, running,
                   injected, errRun, appCloses, cause>>

\* An unordered message callback goroutine finishes.
CallbackDone ==
    /\ running > 0
    /\ running' = running - 1
    /\ UNCHANGED <<wire, sent, peer, buf, lastMsg, delivered, pc, failTimes,
                   closed, connOpen, inSet, closedCbs, exceptions, injected,
                   errRun, appCloses, cause>>

\* The application calls session.Close(), from a callback or elsewhere.
AppClose ==
    /\ appCloses < MaxAppClose
    /\ appCloses' = appCloses + 1
    /\ SessionClose
    /\ UNCHANGED <<wire, sent, peer, buf, lastMsg, delivered, pc, failTimes,
                   exceptions, running, injected, errRun, cause>>

(***************************************************************************)
(* SocketAcceptor.Close (server role): sets the closed flag and starts     *)
(* OnSessionClosed for every session still in the map, but closes only    *)
(* the listener, not the session's connection.  Called once here;          *)
(* NioAcceptor models repeated calls.                                      *)
(***************************************************************************)
AcceptorClose ==
    /\ ~IsClient /\ ~closed
    /\ closed' = TRUE
    /\ closedCbs' = IF inSet THEN closedCbs + 1 ELSE closedCbs
    /\ UNCHANGED <<wire, sent, peer, buf, lastMsg, delivered, pc, failTimes,
                   connOpen, inSet, exceptions, running, injected, errRun,
                   appCloses, cause>>

\* The peer writes one encoded message in a single conn.Write.
PeerWrite(m) ==
    /\ peer = "open" /\ Len(sent) < MaxMsgs
    /\ wire' = wire \o Encode(m.flag, m.body)
    /\ sent' = Append(sent, m)
    /\ UNCHANGED <<peer, buf, lastMsg, delivered, pc, failTimes, closed,
                   connOpen, inSet, closedCbs, exceptions, running, injected,
                   errRun, appCloses, cause>>

\* The peer closes its end (FIN) or aborts it (RST) after its writes.
PeerShutdown ==
    /\ peer = "open"
    /\ peer' \in {"closed", "reset"}
    /\ UNCHANGED <<wire, sent, buf, lastMsg, delivered, pc, failTimes, closed,
                   connOpen, inSet, closedCbs, exceptions, running, injected,
                   errRun, appCloses, cause>>

ReadLoop ==
    \/ CheckClosed \/ \E n \in 1..Len(wire) : ReadData(n)
    \/ ReadEOF \/ ReadClosedConn \/ ReadReset \/ DecodeNext \/ CallbackReturn

Next ==
    \/ ReadLoop \/ ReadError \/ CallbackDone
    \/ AppClose \/ AcceptorClose
    \/ \E m \in Msgs : PeerWrite(m)
    \/ PeerShutdown

(***************************************************************************)
(* The read loop is a goroutine the Go scheduler runs whenever it can      *)
(* step, and the callbacks return: weak fairness on those.  The peer, the  *)
(* application and the network faults get none.                           *)
(***************************************************************************)
Spec == Init /\ [][Next]_vars /\ WF_vars(ReadLoop) /\ WF_vars(CallbackDone)

-----------------------------------------------------------------------------
TypeOK ==
    /\ sent \in Seq(Msgs) /\ Len(sent) <= MaxMsgs
    /\ peer \in {"open", "closed", "reset"}
    /\ pc \in PCs /\ cause \in Causes
    /\ failTimes \in 0..MaxFailTimes
    /\ closed \in BOOLEAN /\ connOpen \in BOOLEAN /\ inSet \in BOOLEAN
    /\ {closedCbs, exceptions, running, injected, errRun, appCloses} \subseteq Nat
    /\ lastMsg.length \in Nat /\ Len(delivered) <= Len(sent)

(***************************************************************************)
(* Framing is lossless whatever the chunking: every message handed to      *)
(* OnMessageReceived is, in order, the flag, length and payload the peer   *)
(* wrote (split reads, coalesced writes, gzip and empty bodies included).  *)
(***************************************************************************)
DecodeFidelity ==
    \A i \in 1..Len(delivered) : delivered[i] = Expected(sent[i])

(***************************************************************************)
(* No complete frame is left in the buffer when the loop goes back to      *)
(* read: whenever readIo is at the top of its loop or blocked in           *)
(* conn.Read, every message whose bytes have all been read has been        *)
(* dispatched.                                                             *)
(***************************************************************************)
NoStrandedFrame ==
    pc \in {"check", "read"} => Len(delivered) = CompleteFrames(sent, Received)

(***************************************************************************)
(* Transient read errors close the session only after three consecutive    *)
(* failures: a good read in between restarts the count (fail_times = 0).   *)
(***************************************************************************)
ErrorCloseNeedsThreeFailures ==
    cause = "errors" => errRun >= MaxFailTimes

(***************************************************************************)
(* Once the session's connection is closed locally (session.Close(), from  *)
(* the application or the loop itself) the read-loop goroutine returns.    *)
(***************************************************************************)
ConnCloseEndsLoop == ~connOpen ~> (pc = "done")

(***************************************************************************)
(* The spec's close idempotence: OnSessionClosed runs at most once per     *)
(* session, however Close is reached.                                      *)
(***************************************************************************)
ClosedCallbackOnce == closedCbs <= 1
=============================================================================
