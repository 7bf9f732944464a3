---------------------------- MODULE NioConnector ----------------------------
(***************************************************************************)
(* The client role of package nio (src/nio/client.go): Connect with the    *)
(* handshake read (syncSessionId), Close, and the read loop of every       *)
(* session the connector has dialed, reduced to the bytes it reads and the *)
(* branches that close.  One SocketConnector may Connect more than once;   *)
(* it keeps one socket.session and one closed flag for all of them.  The   *)
(* server writes the 8-byte id and possibly a first framed message, and    *)
(* may close its end at any time.                                          *)
(***************************************************************************)
EXTENDS Naturals, Sequences

CONSTANTS
    HsIds,         \* session ids the server may send
    MaxConnects,   \* bound: Connect calls by the application
    MaxAppClose    \* bound: Close calls by the application

\* ids below 2^31: the four high bytes of the int64 are zero.
ASSUME HsIds \subseteq 1..2147483647 /\ {MaxConnects, MaxAppClose} \subseteq Nat

\* The default codec, for the first message the server may write.
Codec == INSTANCE NioCodec WITH Nil <- "nil", Gzip <- FALSE

\* The server's first message after the handshake: Encode(7, <<5>>).
FrameBytes == Codec!Encode(7, <<5>>)

Sess == 1..MaxConnects   \* session k is the one the k-th Connect creates

VARIABLES
    app,          \* the application goroutine: "idle" or "handshake"
    nConnects,    \* Connect calls so far
    cur,          \* socket.session (0: nil)
    closed,       \* socket.closed
    sid,          \* session.id of each session
    hsNeed,       \* first_data_len of the handshake read
    hsBuf,        \* first_data, the handshake bytes read so far
    wire,         \* bytes the server wrote that the client has not read
    srvId,        \* the id the server wrote (0: it wrote none)
    srvFrame,     \* the framed bytes the server wrote after the id
    peer,         \* the server's end: "open" or "eof"
    conn,         \* the client's connection: "none", "open", "closed"
    rl,           \* each read loop: "none", "check", "read", "done"
    received,     \* the bytes each read loop has read
    connectedCb,  \* OnSessionConnected ran for the session
    closedCbs,    \* OnSessionClosed goroutines started for the session
    appCloses

vars == <<app, nConnects, cur, closed, sid, hsNeed, hsBuf, wire, srvId,
          srvFrame, peer, conn, rl, received, connectedCb, closedCbs, appCloses>>

Init ==
    /\ app = "idle" /\ nConnects = 0 /\ cur = 0 /\ closed = FALSE
    /\ sid = [k \in Sess |-> 0] /\ hsNeed = [k \in Sess |-> 8]
    /\ hsBuf = [k \in Sess |-> <<>>] /\ wire = [k \in Sess |-> <<>>]
    /\ srvId = [k \in Sess |-> 0] /\ srvFrame = [k \in Sess |-> <<>>]
    /\ peer = [k \in Sess |-> "open"] /\ conn = [k \in Sess |-> "none"]
    /\ rl = [k \in Sess |-> "none"] /\ received = [k \in Sess |-> <<>>]
    /\ connectedCb = [k \in Sess |-> FALSE] /\ closedCbs = [k \in Sess |-> 0]
    /\ appCloses = 0

\* binary.Write / binary.Read of an int64 in big-endian order, for ids
\* whose four high bytes are zero.
BigEndian8(n) == <<0, 0, 0, 0>> \o Codec!BigEndian4(n)
FromLittleEndian8(b) == b[1] + 256 * (b[2] + 256 * (b[3] + 256 * b[4]))
FromBigEndian8(b) == ((b[5] * 256 + b[6]) * 256 + b[7]) * 256 + b[8]

\* A mutation: Close forgets to close the connection.
ConnectorCloseKeepsConn ==
    /\ closed' = TRUE
    /\ closedCbs' = [closedCbs EXCEPT ![cur] = @ + 1]
    /\ UNCHANGED conn

(***************************************************************************)
(* SocketConnector.Close: set closed, start OnSessionClosed for            *)
(* socket.session, close socket.session's connection (a failed close is    *)
(* retried and logged).  It acts on whatever session socket.session is     *)
(* now, not on the session that asked.                                     *)
(***************************************************************************)
ConnectorClose ==
    /\ closed' = TRUE
    /\ closedCbs' = [closedCbs EXCEPT ![cur] = @ + 1]
    /\ conn' = [conn EXCEPT ![cur] = "closed"]

-----------------------------------------------------------------------------
(* Connect, on the application's goroutine.                                *)

\* The dial succeeds: a new session with a placeholder id from the global
\* counter becomes socket.session.  The server sends the id, with or
\* without a first message, or fails to send it and drops the connection.
ConnectDial ==
    /\ app = "idle" /\ nConnects < MaxConnects
    /\ LET k == nConnects + 1 IN
       /\ nConnects' = k /\ cur' = k /\ app' = "handshake"
       /\ sid' = [sid EXCEPT ![k] = k]
       /\ conn' = [conn EXCEPT ![k] = "open"]
       /\ \/ \E v \in HsIds, f \in {<<>>, FrameBytes} :
               /\ srvId' = [srvId EXCEPT ![k] = v]
               /\ srvFrame' = [srvFrame EXCEPT ![k] = f]
               /\ wire' = [wire EXCEPT ![k] = BigEndian8(v) \o f]
               /\ UNCHANGED peer
          \/ /\ peer' = [peer EXCEPT ![k] = "eof"]
             /\ UNCHANGED <<srvId, srvFrame, wire>>
    /\ UNCHANGED <<closed, hsNeed, hsBuf, rl, received, connectedCb,
                   closedCbs, appCloses>>

\* A mutation: the handshake reads into a buffer of the full 8 bytes.
HsReadMaxFixed(need) == 8

\* syncSessionId reads into make([]byte, first_data_len).
HsReadMax(need) == need

(***************************************************************************)
(* One Read of syncSessionId.  When the 8 bytes are complete the id is     *)
(* taken big-endian, OnSessionConnected runs and the read loop starts.     *)
(***************************************************************************)
HsRead ==
    /\ app = "handshake" /\ conn[cur] = "open" /\ wire[cur] # <<>>
    /\ \E n \in 1..Len(wire[cur]) :
       LET k    == cur
           need == hsNeed[k] - n
           got  == hsBuf[k] \o SubSeq(wire[k], 1, n)
       IN  /\ n <= HsReadMax(hsNeed[k])
           /\ wire' = [wire EXCEPT ![k] = SubSeq(@, n + 1, Len(@))]
           /\ hsNeed' = [hsNeed EXCEPT ![k] = need]
           /\ hsBuf' = [hsBuf EXCEPT ![k] = got]
           /\ IF need = 0
              THEN /\ sid' = [sid EXCEPT ![k] = FromBigEndian8(got)]
                   /\ connectedCb' = [connectedCb EXCEPT ![k] = TRUE]
                   /\ rl' = [rl EXCEPT ![k] = "check"]
                   /\ app' = "idle"
              ELSE UNCHANGED <<sid, connectedCb, rl, app>>
    /\ UNCHANGED <<nConnects, cur, closed, srvId, srvFrame, peer, conn,
                   received, closedCbs, appCloses>>

\* The handshake Read fails (the server closed, or the connection was
\* closed here): close the connection, return the error.  socket.session
\* keeps the failed session.
HsFail ==
    /\ app = "handshake"
    /\ \/ conn[cur] = "open" /\ wire[cur] = <<>> /\ peer[cur] = "eof"
       \/ conn[cur] = "closed"
    /\ conn' = [conn EXCEPT ![cur] = "closed"]
    /\ app' = "idle"
    /\ UNCHANGED <<nConnects, cur, closed, sid, hsNeed, hsBuf, wire, srvId,
                   srvFrame, peer, rl, received, connectedCb, closedCbs, appCloses>>

\* The application calls Close (or session.Close) on the connector, from
\* any goroutine: nothing orders it with a Connect in progress.
AppClose ==
    /\ cur # 0 /\ appCloses < MaxAppClose
    /\ appCloses' = appCloses + 1
    /\ ConnectorClose
    /\ UNCHANGED <<app, nConnects, cur, sid, hsNeed, hsBuf, wire, srvId,
                   srvFrame, peer, rl, received, connectedCb>>

-----------------------------------------------------------------------------
(* The read loop of session k, readIo with the client's socket.            *)

\* The closed check at the top of the loop returns without closing.
RlCheck(k) ==
    /\ rl[k] = "check"
    /\ rl' = [rl EXCEPT ![k] = IF closed THEN "done" ELSE "read"]
    /\ UNCHANGED <<app, nConnects, cur, closed, sid, hsNeed, hsBuf, wire,
                   srvId, srvFrame, peer, conn, received, connectedCb,
                   closedCbs, appCloses>>

\* A Read returns some of the bytes the server wrote.
RlData(k) ==
    /\ rl[k] = "read" /\ conn[k] = "open" /\ wire[k] # <<>>
    /\ \E n \in 1..Len(wire[k]) :
         /\ received' = [received EXCEPT ![k] = @ \o SubSeq(wire[k], 1, n)]
         /\ wire' = [wire EXCEPT ![k] = SubSeq(@, n + 1, Len(@))]
    /\ rl' = [rl EXCEPT ![k] = "check"]
    /\ UNCHANGED <<app, nConnects, cur, closed, sid, hsNeed, hsBuf, srvId,
                   srvFrame, peer, conn, connectedCb, closedCbs, appCloses>>

\* io.EOF (the server closed) or "use of closed network connection":
\* session.Close(), which is SocketConnector.Close, and return.
RlClose(k) ==
    /\ rl[k] = "read"
    /\ \/ conn[k] = "open" /\ wire[k] = <<>> /\ peer[k] = "eof"
       \/ conn[k] = "closed"
    /\ ConnectorClose
    /\ rl' = [rl EXCEPT ![k] = "done"]
    /\ UNCHANGED <<app, nConnects, cur, sid, hsNeed, hsBuf, wire, srvId,
                   srvFrame, peer, received, connectedCb, appCloses>>

\* The server closes its end of session k's connection.
PeerHangup(k) ==
    /\ conn[k] # "none" /\ peer[k] = "open"
    /\ peer' = [peer EXCEPT ![k] = "eof"]
    /\ UNCHANGED <<app, nConnects, cur, closed, sid, hsNeed, hsBuf, wire,
                   srvId, srvFrame, conn, rl, received, connectedCb,
                   closedCbs, appCloses>>

Connect == ConnectDial \/ HsRead \/ HsFail

ReadLoop(k) == RlCheck(k) \/ RlData(k) \/ RlClose(k)

Next ==
    \/ Connect \/ AppClose
    \/ \E k \in Sess : ReadLoop(k) \/ PeerHangup(k)

\* Connect's handshake read and every read loop run on goroutines that are
\* blocked only in Read: weakly fair once a Read can return.  Whether the
\* application dials or closes, and when the server closes, is not fair.
Spec == Init /\ [][Next]_vars /\ WF_vars(HsRead \/ HsFail)
        /\ \A k \in Sess : WF_vars(ReadLoop(k))

-----------------------------------------------------------------------------
TypeOK ==
    /\ app \in {"idle", "handshake"} /\ nConnects \in 0..MaxConnects
    /\ cur \in 0..MaxConnects /\ closed \in BOOLEAN
    /\ sid \in [Sess -> Nat] /\ hsNeed \in [Sess -> 0..8]
    /\ peer \in [Sess -> {"open", "eof"}]
    /\ conn \in [Sess -> {"none", "open", "closed"}]
    /\ rl \in [Sess -> {"none", "check", "read", "done"}]
    /\ connectedCb \in [Sess -> BOOLEAN] /\ closedCbs \in [Sess -> Nat]

(***************************************************************************)
(* The handshake cuts the stream at the right byte: a connected session    *)
(* has the id the server sent, and its read loop sees exactly the framed   *)
(* bytes that followed the id, however the server's writes were split      *)
(* across the handshake's Reads.                                           *)
(***************************************************************************)
HandshakeSplitsStream ==
    \A k \in Sess :
        connectedCb[k] =>
            /\ sid[k] = srvId[k]
            /\ received[k] \o wire[k] = srvFrame[k]

(***************************************************************************)
(* When the server closes a connected session, the client eventually       *)
(* closes that session's connection (readIo sees EOF and calls Close).     *)
(***************************************************************************)
HangupClosesSession ==
    \A k \in Sess : (connectedCb[k] /\ peer[k] = "eof") ~> (conn[k] = "closed")
=============================================================================
