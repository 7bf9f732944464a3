----------------------------- MODULE NioAcceptor -----------------------------
(***************************************************************************)
(* The server role of package nio (src/nio/server.go): the accept loop     *)
(* (handlerConnection) with its session-id counter and handshake send, the *)
(* map of tracked sessions, SocketAcceptor.Close and CloseSession, and one *)
(* read loop per accepted connection reduced to its control flow (the data *)
(* it decodes is NioReadLoop's subject).  Clients dial, may close their    *)
(* end at any time, and may be gone when the handshake id is written.      *)
(***************************************************************************)
EXTENDS Naturals, FiniteSets, Sequences, SequencesExt, Functions

CONSTANTS
    Conns,            \* client connections that may dial the listener
    None,             \* no connection
    LoopVarShared,    \* Go before 1.22: a range variable is shared by the
                      \* goroutines started in the loop
    MaxSendFail,      \* bound: handshake writes that fail
    MaxAppClose,      \* bound: session.Close() calls by the application
    MaxAcceptorClose  \* bound: SocketAcceptor.Close() calls

ASSUME /\ LoopVarShared \in BOOLEAN /\ None \notin Conns
       /\ {MaxSendFail, MaxAppClose, MaxAcceptorClose} \subseteq Nat

VARIABLES
    listener,      \* "open" or "closed": the net.Listener
    closed,        \* socket.closed
    backlog,       \* dialed connections not yet returned by Accept
    acc,           \* the accept-loop goroutine's position
    cur,           \* the connection the accept loop is handling
    counter,       \* session_id, the accept loop's id counter
    id,            \* session.id of each accepted connection (0: none)
    sessions,      \* socket.sessions: session id -> connection
    registered,    \* connections ever added to the map (history)
    conn,          \* server side of each connection: "none", "open", "closed"
    peer,          \* client side: "none" (not dialed), "open", "closed"
    rl,            \* each connection's read loop: "none", "check", "read", "done"
    connectedCb,   \* OnSessionConnected has run for the connection
    closedCbs,     \* OnSessionClosed goroutines started per connection
    sendFails, appCloses, accCloses

vars == <<listener, closed, backlog, acc, cur, counter, id, sessions,
          registered, conn, peer, rl, connectedCb, closedCbs, sendFails, appCloses, accCloses>>

AccPCs == {"check", "accept", "send", "register", "connected", "done"}

\* The connections the map holds.
Tracked == Range(sessions)

Init ==
    /\ listener = "open" /\ closed = FALSE /\ backlog = <<>>
    /\ acc = "check" /\ cur = None /\ counter = 0
    /\ id = [c \in Conns |-> 0] /\ sessions = <<>> /\ registered = {}
    /\ conn = [c \in Conns |-> "none"] /\ peer = [c \in Conns |-> "none"]
    /\ rl = [c \in Conns |-> "none"] /\ connectedCb = [c \in Conns |-> FALSE]
    /\ closedCbs = [c \in Conns |-> 0]
    /\ sendFails = 0 /\ appCloses = 0 /\ accCloses = 0

-----------------------------------------------------------------------------
(* The map, mutated under socket.lock.                                     *)

\* addSession: sessions[session.id] = session.
AddSession(m, k, c) == [i \in DOMAIN m \cup {k} |-> IF i = k THEN c ELSE m[i]]

\* A mutation: removeSession forgets to delete the entry.
KeepSession(m, k) == m

\* removeSession: delete(sessions, session_id).
RemoveSession(m, k) == Restrict(m, DOMAIN m \ {k})

(***************************************************************************)
(* CloseSession(session): remove it from the map, start OnSessionClosed,   *)
(* close its connection (a second close fails with "use of closed network  *)
(* connection" and returns).  Nothing records that it already ran.         *)
(***************************************************************************)
CloseSession(c) ==
    /\ sessions' = RemoveSession(sessions, id[c])
    /\ closedCbs' = [closedCbs EXCEPT ![c] = @ + 1]
    /\ conn' = [conn EXCEPT ![c] = "closed"]

-----------------------------------------------------------------------------
(* The accept loop, handlerConnection.                                     *)

AccCheck ==
    /\ acc = "check"
    /\ acc' = IF closed THEN "done" ELSE "accept"
    /\ UNCHANGED <<listener, closed, backlog, cur, counter, id, sessions,
                   registered, conn, peer, rl, connectedCb, closedCbs,
                   sendFails, appCloses, accCloses>>

\* Accept returns the next dialed connection, or an error once the
\* listener is closed, which breaks the loop.  A new session takes the next
\* id from atomic.AddInt64(&session_id, 1).
Accept ==
    /\ acc = "accept"
    /\ IF listener = "closed"
       THEN /\ acc' = "done"
            /\ UNCHANGED <<backlog, cur, counter, id, conn>>
       ELSE /\ backlog # <<>>
            /\ cur' = Head(backlog)
            /\ backlog' = Tail(backlog)
            /\ counter' = counter + 1
            /\ id' = [id EXCEPT ![Head(backlog)] = counter + 1]
            /\ conn' = [conn EXCEPT ![Head(backlog)] = "open"]
            /\ acc' = "send"
    /\ UNCHANGED <<listener, closed, sessions, registered, peer, rl,
                   connectedCb, closedCbs, sendFails, appCloses, accCloses>>

\* A mutation: the id is given back twice.
RollbackTwice(n) == n - 2

\* A mutation: the failed handshake keeps its id.
NoRollback(n) == n

\* session.id = atomic.AddInt64(&session_id, -1).
RollbackId(n) == n - 1

\* sendSessionId writes the 8-byte id.  On failure the counter is rolled
\* back, the connection closed and the loop continues; nothing is tracked.
SendSessionId ==
    /\ acc = "send"
    /\ \/ /\ acc' = "register"
          /\ UNCHANGED <<cur, counter, id, conn, sendFails>>
       \/ /\ sendFails < MaxSendFail
          /\ sendFails' = sendFails + 1
          /\ counter' = RollbackId(counter)
          /\ id' = [id EXCEPT ![cur] = RollbackId(counter)]
          /\ conn' = [conn EXCEPT ![cur] = "closed"]
          /\ cur' = None
          /\ acc' = "check"
    /\ UNCHANGED <<listener, closed, backlog, sessions, registered, peer, rl,
                   connectedCb, closedCbs, appCloses, accCloses>>

\* addSession under the lock.
Register ==
    /\ acc = "register"
    /\ sessions' = AddSession(sessions, id[cur], cur)
    /\ registered' = registered \cup {cur}
    /\ acc' = "connected"
    /\ UNCHANGED <<listener, closed, backlog, cur, counter, id, conn, peer, rl,
                   connectedCb, closedCbs, sendFails, appCloses, accCloses>>

\* OnSessionConnected runs synchronously, then go readIo(...).
Connected ==
    /\ acc = "connected"
    /\ connectedCb' = [connectedCb EXCEPT ![cur] = TRUE]
    /\ rl' = [rl EXCEPT ![cur] = "check"]
    /\ cur' = None
    /\ acc' = "check"
    /\ UNCHANGED <<listener, closed, backlog, counter, id, sessions,
                   registered, conn, peer, closedCbs, sendFails, appCloses, accCloses>>

-----------------------------------------------------------------------------
(* A session's read loop, readIo, as control flow.                         *)

RlCheck(c) ==
    /\ rl[c] = "check"
    /\ rl' = [rl EXCEPT ![c] = IF closed THEN "done" ELSE "read"]
    /\ UNCHANGED <<listener, closed, backlog, acc, cur, counter, id, sessions,
                   registered, conn, peer, connectedCb, closedCbs,
                   sendFails, appCloses, accCloses>>

\* A read returns data, which is decoded and dispatched: back to the top.
RlData(c) ==
    /\ rl[c] = "read" /\ conn[c] = "open" /\ peer[c] = "open"
    /\ rl' = [rl EXCEPT ![c] = "check"]
    /\ UNCHANGED <<listener, closed, backlog, acc, cur, counter, id, sessions,
                   registered, conn, peer, connectedCb, closedCbs,
                   sendFails, appCloses, accCloses>>

\* io.EOF (the client closed) or "use of closed network connection" (the
\* connection was closed here): session.Close(), i.e. CloseSession, and return.
RlClose(c) ==
    /\ rl[c] = "read"
    /\ conn[c] = "closed" \/ peer[c] = "closed"
    /\ CloseSession(c)
    /\ rl' = [rl EXCEPT ![c] = "done"]
    /\ UNCHANGED <<listener, closed, backlog, acc, cur, counter, id,
                   registered, peer, connectedCb, sendFails, appCloses, accCloses>>

-----------------------------------------------------------------------------
(* The application and the clients.                                       *)

\* session.Close() on a session the application got from a callback.
AppClose(c) ==
    /\ c \in registered /\ appCloses < MaxAppClose
    /\ appCloses' = appCloses + 1
    /\ CloseSession(c)
    /\ UNCHANGED <<listener, closed, backlog, acc, cur, counter, id,
                   registered, peer, rl, connectedCb, sendFails, accCloses>>

(***************************************************************************)
(* The OnSessionClosed targets of one Close: the goroutine started in      *)
(* iteration i of the range over the map reads the range variable when it *)
(* runs.  With a per-iteration variable that is the i-th session; with a   *)
(* shared one it is the session of iteration i or of any later one.       *)
(***************************************************************************)
CloseTargetsShared(order) ==
    LET n == Len(order)
    IN  {f \in [1..n -> 1..n] : \A i \in 1..n : f[i] >= i}

CloseTargets(order) ==
    IF LoopVarShared THEN CloseTargetsShared(order)
    ELSE {[i \in 1..Len(order) |-> i]}

\* SocketAcceptor.Close: set closed, start OnSessionClosed for every
\* session in the map (in map order), close the listener.  The sessions'
\* connections stay open and the map is not cleared.
AcceptorClose ==
    /\ accCloses < MaxAcceptorClose
    /\ accCloses' = accCloses + 1
    /\ closed' = TRUE
    /\ listener' = "closed"
    /\ \E order \in SetToSeqs(Tracked) :
         \E f \in CloseTargets(order) :
           LET calls(c) == Cardinality({i \in DOMAIN f : order[f[i]] = c})
           IN  closedCbs' = [c \in Conns |-> closedCbs[c] + calls(c)]
    /\ UNCHANGED <<backlog, acc, cur, counter, id, sessions, registered, conn,
                   peer, rl, connectedCb, sendFails, appCloses>>

\* A client dials the open listener.
Dial(c) ==
    /\ peer[c] = "none" /\ listener = "open"
    /\ peer' = [peer EXCEPT ![c] = "open"]
    /\ backlog' = Append(backlog, c)
    /\ UNCHANGED <<listener, closed, acc, cur, counter, id, sessions,
                   registered, conn, rl, connectedCb, closedCbs,
                   sendFails, appCloses, accCloses>>

\* A client closes its end.
PeerClose(c) ==
    /\ peer[c] = "open"
    /\ peer' = [peer EXCEPT ![c] = "closed"]
    /\ UNCHANGED <<listener, closed, backlog, acc, cur, counter, id, sessions,
                   registered, conn, rl, connectedCb, closedCbs,
                   sendFails, appCloses, accCloses>>

AcceptLoop == AccCheck \/ Accept \/ SendSessionId \/ Register \/ Connected

ReadLoop(c) == RlCheck(c) \/ RlClose(c)

Next ==
    \/ AcceptLoop
    \/ \E c \in Conns : ReadLoop(c) \/ RlData(c) \/ AppClose(c)
                        \/ Dial(c) \/ PeerClose(c)
    \/ AcceptorClose

\* The accept loop and each read loop are goroutines: weakly fair.  Data
\* arriving, the clients and the application get no fairness.
Spec == Init /\ [][Next]_vars /\ WF_vars(AcceptLoop)
        /\ \A c \in Conns : WF_vars(ReadLoop(c))

-----------------------------------------------------------------------------
TypeOK ==
    /\ listener \in {"open", "closed"} /\ closed \in BOOLEAN
    /\ acc \in AccPCs /\ cur \in Conns \cup {None}
    /\ counter \in Nat /\ id \in [Conns -> Nat]
    /\ DOMAIN sessions \subseteq Nat /\ Tracked \subseteq registered
    /\ conn \in [Conns -> {"none", "open", "closed"}]
    /\ peer \in [Conns -> {"none", "open", "closed"}]
    /\ rl \in [Conns -> {"none", "check", "read", "done"}]
    /\ closedCbs \in [Conns -> Nat]

(***************************************************************************)
(* Session ids of one acceptor are 1, 2, ..., n for its n accepted         *)
(* sessions, each used once: a failed handshake gives its id back, and a   *)
(* registered session never shares its id (the map key) with another.      *)
(***************************************************************************)
IdsDense ==
    /\ {id[c] : c \in registered} = 1..Cardinality(registered)

(***************************************************************************)
(* A session whose client has closed leaves the acceptor's map, unless the *)
(* acceptor itself is closed first.                                        *)
(***************************************************************************)
PeerCloseReleasesSession ==
    \A c \in Conns :
        (peer[c] = "closed" /\ c \in Tracked /\ ~closed)
            ~> (c \notin Tracked \/ closed)


(***************************************************************************)
(* Every session whose OnSessionConnected ran gets OnSessionClosed once    *)
(* the acceptor has been closed.                                           *)
(***************************************************************************)
ConnectedSessionGetsClosed ==
    \A c \in Conns : (connectedCb[c] /\ closed) ~> (closedCbs[c] >= 1)
=============================================================================
