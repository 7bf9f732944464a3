-------------------------- MODULE MCNioReadLoopRoles --------------------------
(***************************************************************************)
(* Both session roles of NioReadLoop in one model: the initial state picks *)
(* the role, and each role keeps its own configuration for its whole life. *)
(* Server: ordered dispatch, no compression, Linux error texts.  Client:   *)
(* unordered dispatch, gzip codec, Windows error texts.                    *)
(***************************************************************************)
EXTENDS Naturals, Sequences

CONSTANTS Nil, MaxMsgs, MaxTransient, MaxAppClose, ReadSize

VARIABLES wire, sent, peer, buf, lastMsg, delivered, pc, failTimes, closed,
          connOpen, inSet, closedCbs, exceptions, running, injected, errRun,
          appCloses, cause,
          role      \* "server" or "client": which configuration this session has

MCBodies == {Nil, <<>>, <<7>>, <<1, 2>>}
MCFlags == {0, 7}

Srv == INSTANCE NioReadLoop WITH Gzip <- FALSE, Flags <- MCFlags,
           Bodies <- MCBodies, IsClient <- FALSE, Ordered <- TRUE,
           Platform <- "linux"
Cli == INSTANCE NioReadLoop WITH Gzip <- TRUE, Flags <- MCFlags,
           Bodies <- MCBodies, IsClient <- TRUE, Ordered <- FALSE,
           Platform <- "windows"

rvars == <<wire, sent, peer, buf, lastMsg, delivered, pc, failTimes, closed,
           connOpen, inSet, closedCbs, exceptions, running, injected, errRun,
           appCloses, cause, role>>

Init == \/ role = "server" /\ Srv!Init
        \/ role = "client" /\ Cli!Init

Next == /\ UNCHANGED role
        /\ \/ role = "server" /\ Srv!Next
           \/ role = "client" /\ Cli!Next

\* The fairness of NioReadLoop!Spec, for the role the session has.
Spec == /\ Init /\ [][Next]_rvars
        /\ WF_rvars(role = "server" /\ Srv!ReadLoop /\ UNCHANGED role)
        /\ WF_rvars(role = "server" /\ Srv!CallbackDone /\ UNCHANGED role)
        /\ WF_rvars(role = "client" /\ Cli!ReadLoop /\ UNCHANGED role)
        /\ WF_rvars(role = "client" /\ Cli!CallbackDone /\ UNCHANGED role)

-----------------------------------------------------------------------------
\* NioReadLoop's type invariant, for the session's role.
TypeOK == role \in {"server", "client"}
          /\ IF role = "server" THEN Srv!TypeOK ELSE Cli!TypeOK

\* Framing is lossless whatever the chunking, gzip and empty bodies
\* included: callback i receives exactly the i-th message the peer wrote
\* (NioReadLoop!DecodeFidelity).
DecodeFidelity == IF role = "server" THEN Srv!DecodeFidelity
                                     ELSE Cli!DecodeFidelity

\* readIo never blocks in conn.Read with a complete frame left undispatched
\* in its buffer (NioReadLoop!NoStrandedFrame).
NoStrandedFrame == IF role = "server" THEN Srv!NoStrandedFrame
                                      ELSE Cli!NoStrandedFrame

\* readIo closes a session for read errors only after three consecutive
\* failed reads, a good read resetting fail_times
\* (NioReadLoop!ErrorCloseNeedsThreeFailures).
ErrorCloseNeedsThreeFailures == Srv!ErrorCloseNeedsThreeFailures

\* Once session.Close() has closed the connection, the read-loop goroutine
\* returns (NioReadLoop!ConnCloseEndsLoop).
ConnCloseEndsLoop == Srv!ConnCloseEndsLoop
=============================================================================
