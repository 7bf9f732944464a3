--------------------------- MODULE InterceptorChain ---------------------------
(***************************************************************************)
(* The interceptor chain of src/interceptor/interceptor.go: Add appends a  *)
(* PointCut to the chain; DoIntercepptor, run by each request's goroutine, *)
(* takes the matching cuts from cache.Local (or computes them from the     *)
(* chain and caches them for ever), then walks them with one index: the    *)
(* BeforeFuncs in order up to an error or a response, the target, the      *)
(* AfterFuncs in reverse, and on an error the OnErrors in reverse from     *)
(* where it happened.  A daemon cut's function runs in a goroutine of its *)
(* own, which may set the request's response at any time; its error is    *)
(* never seen.                                                              *)
(*                                                                         *)
(* isMatch is abstracted to the set of planned cuts that match the one     *)
(* method the requests call.  Positions in a request's cuts are 1-based    *)
(* here; idx keeps the code's 0-based index.                               *)
(***************************************************************************)
EXTENDS Integers, Sequences, SequencesExt, FiniteSets

CONSTANTS
    Daemon,     \* Daemon[k]: the k-th PointCut the program Adds is a daemon
    Matching,   \* the planned cuts whose isMatch(method) is true
    Reqs        \* request goroutines calling DoIntercepptor for the method

Planned == DOMAIN Daemon

VARIABLES
    chain,      \* interceptor.chain: planned cuts added, in order
    cache,      \* cache.Local["interceptor." + method]: <<>> or <<cuts>>
    rpc,        \* each request's place in DoIntercepptor
    cuts,       \* each request's cuts
    idx,        \* each request's index
    gerr,       \* each request's globalError # nil
    resp,       \* each request's ctx.GetResponse() # nil
    pend,       \* each request's daemon goroutines not yet run
    tr          \* history: each request's synchronous calls <<kind, pos, result>>

vars == <<chain, cache, rpc, cuts, idx, gerr, resp, pend, tr>>

\* The matching cuts of the first m PointCuts added.
MatchesOf(m) == SelectSeq([k \in 1..m |-> k], LAMBDA k : k \in Matching)

\* Any time after start-up: some PointCuts added, and earlier requests for
\* the method may have cached the matches of the chain as it was then.
Init ==
    /\ \E n \in 0..Len(Daemon) :
         /\ chain = [k \in 1..n |-> k]
         /\ cache \in {<<>>} \cup {<<MatchesOf(m)>> : m \in 0..n}
    /\ rpc = [r \in Reqs |-> "idle"] /\ cuts = [r \in Reqs |-> <<>>]
    /\ idx = [r \in Reqs |-> 0] /\ gerr = [r \in Reqs |-> FALSE]
    /\ resp = [r \in Reqs |-> FALSE] /\ pend = [r \in Reqs |-> 0]
    /\ tr = [r \in Reqs |-> <<>>]

IsDaemon(r, p) == Daemon[cuts[r][p]]

\* The call of a function of the cut at position p: a daemon's runs in a
\* goroutine started now, a synchronous one is recorded with its result.
CallCut(r, kind, p, res) ==
    IF IsDaemon(r, p)
    THEN pend' = [pend EXCEPT ![r] = @ + 1] /\ UNCHANGED tr
    ELSE tr' = [tr EXCEPT ![r] = Append(@, <<kind, p, res>>)] /\ UNCHANGED pend

Goto(r, l) == rpc' = [rpc EXCEPT ![r] = l]
-----------------------------------------------------------------------------
\* Add: this.chain = append(this.chain, pointCut).
Add ==
    /\ Len(chain) < Len(Daemon)
    /\ chain' = Append(chain, Len(chain) + 1)
    /\ UNCHANGED <<cache, rpc, cuts, idx, gerr, resp, pend, tr>>

\* cache.Local.Get; on a miss, the cuts of this.chain that isMatch.
Lookup(r) ==
    /\ rpc[r] = "idle"
    /\ IF cache # <<>>
       THEN cuts' = [cuts EXCEPT ![r] = cache[1]] /\ Goto(r, "before")
       ELSE /\ cuts' = [cuts EXCEPT ![r] = SelectSeq(chain, LAMBDA k : k \in Matching)]
            /\ Goto(r, "store")
    /\ UNCHANGED <<chain, cache, idx, gerr, resp, pend, tr>>

\* cache.Local.Set(cache_key, cuts, -1): kept for ever.
Store(r) ==
    /\ rpc[r] = "store"
    /\ cache' = <<cuts[r]>>
    /\ Goto(r, "before")
    /\ UNCHANGED <<chain, cuts, idx, gerr, resp, pend, tr>>

\* A mutation: the loop goes on after a BeforeFunc has set the response.
BeforeNoRespBreak(r) ==
    /\ rpc[r] = "before" /\ idx[r] < Len(cuts[r])
    /\ LET p == idx[r] + 1 IN
       IF IsDaemon(r, p)
       THEN CallCut(r, "before", p, "ok") /\ idx' = [idx EXCEPT ![r] = p]
            /\ UNCHANGED <<rpc, gerr, resp>>
       ELSE \E err, set \in BOOLEAN :
              LET seen == resp[r] \/ set IN
              /\ CallCut(r, "before", p, IF err THEN "err" ELSE IF seen THEN "resp" ELSE "ok")
              /\ resp' = [resp EXCEPT ![r] = seen]
              /\ IF err
                 THEN gerr' = [gerr EXCEPT ![r] = TRUE] /\ Goto(r, "final") /\ UNCHANGED idx
                 ELSE idx' = [idx EXCEPT ![r] = p] /\ UNCHANGED <<rpc, gerr>>
    /\ UNCHANGED <<chain, cache, cuts>>

(***************************************************************************)
(* One pass of the Before loop: a daemon's BeforeFunc is started; a        *)
(* synchronous one returns an error (break) or not, and may have set the   *)
(* response, which the loop then sees (break).                             *)
(***************************************************************************)
BeforeStep(r) ==
    /\ rpc[r] = "before" /\ idx[r] < Len(cuts[r])
    /\ LET p == idx[r] + 1 IN
       IF IsDaemon(r, p)
       THEN CallCut(r, "before", p, "ok") /\ idx' = [idx EXCEPT ![r] = p]
            /\ UNCHANGED <<rpc, gerr, resp>>
       ELSE \E err, set \in BOOLEAN :
              LET seen == resp[r] \/ set IN
              /\ CallCut(r, "before", p, IF err THEN "err" ELSE IF seen THEN "resp" ELSE "ok")
              /\ resp' = [resp EXCEPT ![r] = seen]
              /\ IF err \/ seen
                 THEN /\ gerr' = [gerr EXCEPT ![r] = err] /\ Goto(r, "final")
                      /\ UNCHANGED idx
                 ELSE idx' = [idx EXCEPT ![r] = p] /\ UNCHANGED <<rpc, gerr>>
    /\ UNCHANGED <<chain, cache, cuts>>

\* The Before loop ends with index = len(cuts).
BeforeEnd(r) ==
    /\ rpc[r] = "before" /\ idx[r] >= Len(cuts[r])
    /\ Goto(r, "final")
    /\ UNCHANGED <<chain, cache, cuts, idx, gerr, resp, pend, tr>>

(***************************************************************************)
(* The target runs if there is no error and no response (recorded as a     *)
(* "final" call at position 0, or "skip"); then index is clamped to        *)
(* len(cuts) - 1.                                                          *)
(***************************************************************************)
Final(r) ==
    /\ rpc[r] = "final"
    /\ IF ~gerr[r] /\ ~resp[r]
       THEN \E err \in BOOLEAN :
              /\ tr' = [tr EXCEPT ![r] = Append(@, <<"final", 0, IF err THEN "err" ELSE "ok">>)]
              /\ gerr' = [gerr EXCEPT ![r] = err]
       ELSE tr' = [tr EXCEPT ![r] = Append(@, <<"final", 0, "skip">>)] /\ UNCHANGED gerr
    /\ idx' = [idx EXCEPT ![r] = IF @ >= Len(cuts[r]) THEN Len(cuts[r]) - 1 ELSE @]
    /\ Goto(r, "after")
    /\ UNCHANGED <<chain, cache, cuts, resp, pend>>

\* One pass of the After loop, from index down to 0, while there is no error.
AfterStep(r) ==
    /\ rpc[r] = "after"
    /\ IF ~gerr[r] /\ Len(cuts[r]) > 0 /\ idx[r] >= 0
       THEN LET p == idx[r] + 1 IN
            IF IsDaemon(r, p)
            THEN CallCut(r, "after", p, "ok") /\ idx' = [idx EXCEPT ![r] = @ - 1]
                 /\ UNCHANGED <<rpc, gerr>>
            ELSE \E err \in BOOLEAN :
                   /\ CallCut(r, "after", p, IF err THEN "err" ELSE "ok")
                   /\ IF err
                      THEN gerr' = [gerr EXCEPT ![r] = TRUE] /\ Goto(r, "onerror")
                           /\ UNCHANGED idx
                      ELSE idx' = [idx EXCEPT ![r] = @ - 1] /\ UNCHANGED <<rpc, gerr>>
       ELSE Goto(r, "onerror") /\ UNCHANGED <<idx, gerr, pend, tr>>
    /\ UNCHANGED <<chain, cache, cuts, resp>>

\* On an error, OnError from index down to 0; then DoIntercepptor returns.
OnErrorStep(r) ==
    /\ rpc[r] = "onerror"
    /\ IF gerr[r] /\ idx[r] >= 0
       THEN CallCut(r, "onerror", idx[r] + 1, "ok") /\ idx' = [idx EXCEPT ![r] = @ - 1]
            /\ UNCHANGED rpc
       ELSE Goto(r, "done") /\ UNCHANGED <<idx, pend, tr>>
    /\ UNCHANGED <<chain, cache, cuts, gerr, resp>>

\* A daemon goroutine runs its function, which may set the response.
DaemonRun(r) ==
    /\ pend[r] > 0 /\ pend' = [pend EXCEPT ![r] = @ - 1]
    /\ \E set \in BOOLEAN : resp' = [resp EXCEPT ![r] = @ \/ set]
    /\ UNCHANGED <<chain, cache, rpc, cuts, idx, gerr, tr>>

Next ==
    \/ Add
    \/ \E r \in Reqs :
         \/ Lookup(r) \/ Store(r) \/ BeforeStep(r) \/ BeforeEnd(r) \/ Final(r)
         \/ AfterStep(r) \/ OnErrorStep(r) \/ DaemonRun(r)

Spec == Init /\ [][Next]_vars
-----------------------------------------------------------------------------
TypeOK ==
    /\ chain \in Seq(Planned) /\ Len(chain) <= Len(Daemon)
    /\ cache \in Seq(Seq(Planned)) /\ Len(cache) <= 1
    /\ rpc \in [Reqs -> {"idle", "store", "before", "final", "after", "onerror", "done"}]
    /\ cuts \in [Reqs -> Seq(Planned)]
    /\ idx \in [Reqs -> -1..Len(Daemon)]
    /\ gerr \in [Reqs -> BOOLEAN] /\ resp \in [Reqs -> BOOLEAN]
    /\ pend \in [Reqs -> 0..3 * Len(Daemon)]

\* The result request r's synchronous call kind at position p had, or "none".
Res(r, kind, p) ==
    LET at == {i \in DOMAIN tr[r] : tr[r][i][1] = kind /\ tr[r][i][2] = p}
    IN  IF at = {} THEN "none" ELSE tr[r][CHOOSE i \in at : TRUE][3]

(***************************************************************************)
(* The call order the comments of interceptor.go and define.go promise,   *)
(* stated over the positions of r's synchronous cuts, with the results     *)
(* the calls had: BeforeFunc in the order added up to the first that      *)
(* errs or sets the response; the target only if none did (a daemon may    *)
(* still set the response first); if no error, AfterFunc in reverse from  *)
(* the last cut entered down to the first, up to one that errs; on an      *)
(* error, OnError in reverse from the cut that erred (the last cut when    *)
(* the target erred) down to the first.                                    *)
(***************************************************************************)
Expected(r) ==
    LET n     == Len(cuts[r])
        Sync  == {p \in 1..n : ~Daemon[cuts[r][p]]}
        Calls(kind, S, up) ==
            LET first(a, b) == IF up THEN a < b ELSE a > b
                s == SetToSortSeq(S, first)
            IN  [i \in DOMAIN s |-> <<kind, s[i], Res(r, kind, s[i])>>]
        Stops == {p \in Sync : Res(r, "before", p) \in {"err", "resp"}}
        top   == IF Stops = {} THEN n ELSE Min(Stops)
        berr  == Stops # {} /\ Res(r, "before", top) = "err"
        fin   == Res(r, "final", 0)
        ferr  == fin = "err"
        AErr  == {p \in Sync \cap 1..top : Res(r, "after", p) = "err"}
        aerr  == ~berr /\ ~ferr /\ AErr # {}
        abot  == IF aerr THEN Max(AErr) ELSE 1
        from  == CASE berr -> top [] ferr -> n [] aerr -> abot [] OTHER -> 0
    IN  [calls |-> Calls("before", Sync \cap 1..top, TRUE)
                   \o << <<"final", 0, fin>> >>
                   \o (IF berr \/ ferr THEN <<>> ELSE Calls("after", Sync \cap abot..top, FALSE))
                   \o Calls("onerror", Sync \cap 1..from, FALSE),
         final |-> IF Stops = {} THEN {"ok", "err", "skip"} ELSE {"skip"}]

(***************************************************************************)
(* Every request that DoIntercepptor has finished made exactly the         *)
(* synchronous calls the contract orders, whatever its cuts' results and   *)
(* whenever daemon goroutines ran: the three loops share one index, the   *)
(* target's error clamps it, and each loop breaks on its own condition.   *)
(***************************************************************************)
ChainFollowsContract ==
    \A r \in Reqs : rpc[r] = "done" =>
        /\ tr[r] = Expected(r).calls
        /\ Res(r, "final", 0) \in Expected(r).final
====
