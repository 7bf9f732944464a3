----------------------------- MODULE WebDispatch ------------------------------
(***************************************************************************)
(* A request through src/web: ServeHTTP and dispatchHandler (dispatch.go), *)
(* which resolve the controller and its argument and then run the method   *)
(* through the interceptor chain (InterceptorChain, with callTarget as the *)
(* target), and the responses they write: handlerError and writeResponse  *)
(* (response.go), and the deferred onError that turns a panic anywhere    *)
(* after line 48 into an error response.                                  *)
(*                                                                         *)
(* The data is abstracted to outcomes: each parsing, lookup and hook call  *)
(* fails or not, a response is "ok" (successResponse) or "err"             *)
(* (errorResponse), and writeResponse may write nothing: the controller    *)
(* set an octet-stream Content-Type, or a handlerResponse or             *)
(* beforeResponse hook panicked inside it and e.OnError swallowed it.  A   *)
(* handlerError hook that panics does so at response.go:51, before         *)
(* writeResponse is called; nothing is written then either.               *)
(***************************************************************************)
EXTENDS Integers, Sequences, SequencesExt

CONSTANTS Daemon, Matching, Reqs

VARIABLES
    chain, cache, rpc, cuts, idx, gerr, resp, pend, tr,     \* InterceptorChain
    dpc,        \* each request's place in ServeHTTP / dispatchHandler
    out,        \* the responses written to each request's ResponseWriter
    excused     \* a request left unanswered by the code's own choice

I == INSTANCE InterceptorChain

ivars == <<chain, cache, rpc, cuts, idx, gerr, resp, pend, tr>>
dvars == <<dpc, out, excused>>
vars == <<ivars, dvars>>

Init ==
    /\ I!Init
    /\ dpc = [r \in Reqs |-> "serve"] /\ out = [r \in Reqs |-> <<>>]
    /\ excused = [r \in Reqs |-> FALSE]

\* What writeResponse(kind) writes: the response; nothing (a download, or
\* a hook panicked); and for a success whose marshalling failed, the
\* errorResponse of the handlerError it calls.
Writes(kind) == {<<kind>>, <<>>} \cup (IF kind = "ok" THEN {<<"err">>} ELSE {})

\* writeResponse or handlerError (which ends in writeResponse) for r.
Respond(r, kind) ==
    \E o \in Writes(kind) :
        /\ out' = [out EXCEPT ![r] = @ \o o]
        /\ excused' = [excused EXCEPT ![r] = @ \/ o = <<>>]

\* h.handlerError(...); return
Fail(r) == Respond(r, "err") /\ dpc' = [dpc EXCEPT ![r] = "done"]

Goto(r, l) == dpc' = [dpc EXCEPT ![r] = l] /\ UNCHANGED <<out, excused>>
-----------------------------------------------------------------------------
\* ServeHTTP: a beforeDispatch hook that returns true has answered itself.
Serve(r) ==
    /\ dpc[r] = "serve"
    /\ \/ dpc' = [dpc EXCEPT ![r] = "done"] /\ excused' = [excused EXCEPT ![r] = TRUE]
          /\ UNCHANGED out
       \/ Goto(r, "route")
    /\ UNCHANGED ivars

(***************************************************************************)
(* createContext for a GET or POST that is not restful: a configured       *)
(* RootPath missing from the path, a path with a second "/" when the       *)
(* controller uses models, or no single action (or Action) parameter is    *)
(* an error, answered by handlerError; else the model, action and version  *)
(* are set (version "v1" when absent) and the handler goes on.            *)
(***************************************************************************)
CreateContext(r) ==
    \E hasRoot, onePath, hasAction \in BOOLEAN :
        IF hasRoot /\ onePath /\ hasAction THEN Goto(r, "find") ELSE Fail(r)

(***************************************************************************)
(* Step one: a restful URI is unescaped (an error is answered, and the     *)
(* handler goes on) and matched by restful.Match (no match: answered and   *)
(* return; the empty path a failed unescape leaves matches no api); any   *)
(* other request goes through CreateContext.                               *)
(***************************************************************************)
Route(r) ==
    /\ dpc[r] = "route"
    /\ \/ \E unescaped, matched \in BOOLEAN :
            IF unescaped
            THEN IF matched THEN Goto(r, "find") ELSE Fail(r)
            ELSE \E o1, o2 \in Writes("err") :
                   /\ out' = [out EXCEPT ![r] = @ \o o1 \o o2]
                   /\ excused' = [excused EXCEPT ![r] = @ \/ o1 = <<>> \/ o2 = <<>>]
                   /\ dpc' = [dpc EXCEPT ![r] = "done"]
       \/ CreateContext(r)
    /\ UNCHANGED ivars

\* Step two: GetController finds the method, or "No such api".
Find(r) == dpc[r] = "find" /\ (Goto(r, "perm") \/ Fail(r)) /\ UNCHANGED ivars

\* Step three: hasPermission, when conf.Models is set.
Perm(r) == dpc[r] = "perm" /\ (Goto(r, "args") \/ Fail(r)) /\ UNCHANGED ivars

\* Step four: createArg binds the controller's first argument.
Args(r) == dpc[r] = "args" /\ (Goto(r, "hreq") \/ Fail(r)) /\ UNCHANGED ivars

\* The handlerRequest hook returns an error, or goes on, possibly having
\* set the response itself.
HReq(r) ==
    /\ dpc[r] = "hreq"
    /\ \/ Fail(r) /\ UNCHANGED ivars
       \/ /\ Goto(r, "chain")
          /\ \E set \in BOOLEAN : resp' = [resp EXCEPT ![r] = @ \/ set]
          /\ UNCHANGED <<chain, cache, rpc, cuts, idx, gerr, pend, tr>>

\* Steps one to four panic (reflection in createArg, a hook): onError.
Panics(r) ==
    /\ dpc[r] \in {"route", "find", "perm", "args", "hreq"}
    /\ Goto(r, "recover")
    /\ UNCHANGED ivars

\* Step five: DoIntercepptor, one step of the request's goroutine.
Chain(r) ==
    /\ dpc[r] = "chain"
    /\ \/ I!Lookup(r) \/ I!Store(r) \/ I!BeforeStep(r) \/ I!BeforeEnd(r)
       \/ I!Final(r) \/ I!AfterStep(r) \/ I!OnErrorStep(r)
    /\ UNCHANGED dvars

(***************************************************************************)
(* A synchronous BeforeFunc, AfterFunc or OnError, or the target itself   *)
(* (callTarget's method.Invoke), panics: the panic unwinds DoIntercepptor, *)
(* so no later AfterFunc or OnError runs, and dispatchHandler's deferred   *)
(* onError answers.                                                        *)
(***************************************************************************)
ChainPanics(r) ==
    /\ dpc[r] = "chain"
    /\ \/ rpc[r] = "before" /\ idx[r] < Len(cuts[r]) /\ ~I!IsDaemon(r, idx[r] + 1)
       \/ rpc[r] = "final" /\ ~gerr[r] /\ ~resp[r]
       \/ rpc[r] = "after" /\ ~gerr[r] /\ idx[r] >= 0 /\ ~I!IsDaemon(r, idx[r] + 1)
       \/ rpc[r] = "onerror" /\ gerr[r] /\ idx[r] >= 0 /\ ~I!IsDaemon(r, idx[r] + 1)
    /\ Goto(r, "recover")
    /\ UNCHANGED ivars

\* A mutation: the success response written whatever DoIntercepptor returned.
RespondNoErrCheck(r) ==
    /\ dpc[r] = "chain" /\ rpc[r] = "done"
    /\ Respond(r, "ok")
    /\ dpc' = [dpc EXCEPT ![r] = "done"]
    /\ UNCHANGED ivars

\* DoIntercepptor returned: its error through handlerError, or step six,
\* writeResponse(ctx.response) as a success.
Reply(r) ==
    /\ dpc[r] = "chain" /\ rpc[r] = "done"
    /\ Respond(r, IF gerr[r] THEN "err" ELSE "ok")
    /\ dpc' = [dpc EXCEPT ![r] = "done"]
    /\ UNCHANGED ivars

\* A mutation: onError recovers and returns without answering.
RecoverSilent(r) ==
    dpc[r] = "recover" /\ Goto(r, "done") /\ UNCHANGED ivars

\* onError: recover, status INTERNAL, handlerError.
Recover(r) == dpc[r] = "recover" /\ Fail(r) /\ UNCHANGED ivars

\* PointCuts are still added, and daemon goroutines outlive the request.
Background ==
    \/ I!Add /\ UNCHANGED dvars
    \/ \E r \in Reqs : I!DaemonRun(r) /\ UNCHANGED dvars

\* The steps of the goroutine net/http runs for request r.
ReqStep(r) ==
    \/ Serve(r) \/ Route(r) \/ Find(r) \/ Perm(r) \/ Args(r) \/ HReq(r)
    \/ Panics(r) \/ Chain(r) \/ ChainPanics(r) \/ Reply(r) \/ Recover(r)

Next == Background \/ \E r \in Reqs : ReqStep(r)

Spec == Init /\ [][Next]_vars
-----------------------------------------------------------------------------
TypeOK ==
    /\ I!TypeOK
    /\ dpc \in [Reqs -> {"serve", "route", "find", "perm", "args", "hreq",
                         "chain", "recover", "done"}]
    /\ out \in [Reqs -> Seq({"ok", "err"})] /\ excused \in [Reqs -> BOOLEAN]

(***************************************************************************)
(* A success response is the request's only response, and it is written   *)
(* only after DoIntercepptor returned nil: no error path of dispatchHandler *)
(* falls through to step six, and no panic, Before, target or After error  *)
(* in the chain ends in a successResponse.                                 *)
(***************************************************************************)
SuccessIsOnlyResponse ==
    \A r \in Reqs : (\E i \in DOMAIN out[r] : out[r][i] = "ok") =>
        /\ out[r] = <<"ok">>
        /\ rpc[r] = "done" /\ ~gerr[r]

(***************************************************************************)
(* Every request is answered: once dispatchHandler has returned, something *)
(* was written, unless the code chose not to (a beforeDispatch hook        *)
(* answered, a download, a response hook's panic swallowed by e.OnError).  *)
(***************************************************************************)
EveryRequestAnswered ==
    \A r \in Reqs : dpc[r] = "done" /\ out[r] = <<>> => excused[r]
====
