------------------------------ MODULE RegularJob ------------------------------
(***************************************************************************)
(* The timed job of src/tools/job.go.  One RegularJob value is driven by   *)
(* its caller's goroutine (SetDuration, Stop, RegularCall, ExpiredCall)    *)
(* and by the goroutine each RegularCall or ExpiredCall starts, which also *)
(* calls tm.Stop() after a one-shot fires.  Nothing locks the fields       *)
(* tm.d, tm.ctx and tm.cancle, so each statement that reads or writes one  *)
(* is a step of its own: Stop is three (the nil check, the call of         *)
(* tm.cancle, the clearing), and RegularCall/ExpiredCall add the           *)
(* assignment of a new context and the go statement that passes tm.ctx.   *)
(*                                                                         *)
(* Contexts are numbered in creation order; context c and the goroutine    *)
(* started with it share the number c.  0 is nil.  The duration is 0 or    *)
(* some positive value; time itself is abstract: a ticker may tick or a    *)
(* timer fire whenever the goroutine waits on it.                          *)
(***************************************************************************)
EXTENDS Integers, FiniteSets

CONSTANTS
    MaxCtx,     \* bound: RegularCall/ExpiredCall calls that create a context
    MaxTicks    \* bound: calls of f by one job

User == 0               \* the caller's goroutine
Jobs == 1..MaxCtx       \* the goroutine started with context j
NilCtx == 0
NoOne == -1             \* no one (a context not cancelled)
Actors == {User} \cup Jobs

VARIABLES
    d,          \* tm.d: "zero" or "pos"
    ctx,        \* tm.ctx: a context, or NilCtx
    cancle,     \* tm.cancle: the cancel func of a context, or NilCtx (nil)
    nextc,      \* contexts created so far
    pc,         \* each actor's place
    cont,       \* what the user's current call does after its Stop
    kind,       \* each job goroutine: "none", "regular" or "expired"
    arg,        \* the ctx each job goroutine was started with
    done,       \* cancelled contexts
    canceller,  \* history: who cancelled each context
    calls       \* calls of f each job has started

vars == <<d, ctx, cancle, nextc, pc, cont, kind, arg, done, canceller, calls>>

Init ==
    /\ d = "zero" /\ ctx = NilCtx /\ cancle = NilCtx /\ nextc = 0
    /\ pc = [a \in Actors |-> IF a = User THEN "idle" ELSE "none"]
    /\ cont = "Stop" /\ kind = [j \in Jobs |-> "none"]
    /\ arg = [j \in Jobs |-> NilCtx] /\ done = {}
    /\ canceller = [j \in Jobs |-> NoOne] /\ calls = [j \in Jobs |-> 0]

\* Where actor a goes when its Stop returns.
AfterStop(a) ==
    IF a = User THEN IF cont = "Stop" THEN "idle" ELSE "assign" ELSE "exit"

Goto(a, p) == pc' = [pc EXCEPT ![a] = p]

-----------------------------------------------------------------------------
\* SetDuration(d).
SetDuration ==
    /\ pc[User] = "idle"
    /\ \E v \in {"zero", "pos"} : d' = v
    /\ UNCHANGED <<ctx, cancle, nextc, pc, cont, kind, arg, done, canceller,
                   calls>>

\* The caller enters Stop, RegularCall or ExpiredCall; the two calls
\* return at once, logging, when tm.d is 0.
Call ==
    /\ pc[User] = "idle"
    /\ \E k \in {"Stop", "RegularCall", "ExpiredCall"} :
         /\ k # "Stop" => d = "pos" /\ nextc < MaxCtx
         /\ cont' = k
    /\ Goto(User, "s_chk")
    /\ UNCHANGED <<d, ctx, cancle, nextc, kind, arg, done, canceller, calls>>

\* Stop: if tm.cancle != nil ...
StopChk(a) ==
    /\ pc[a] = "s_chk"
    /\ Goto(a, IF cancle = NilCtx THEN AfterStop(a) ELSE "s_call")
    /\ UNCHANGED <<d, ctx, cancle, nextc, cont, kind, arg, done, canceller,
                   calls>>

\* ... tm.cancle(): calls whatever cancel func the field holds now; a nil
\* func panics (the user's goroutine crashes, a job's onError recovers and
\* the goroutine ends).
StopCall(a) ==
    /\ pc[a] = "s_call"
    /\ IF cancle = NilCtx
       THEN /\ Goto(a, IF a = User THEN "crash" ELSE "exit")
            /\ UNCHANGED <<done, canceller>>
       ELSE /\ done' = done \cup {cancle}
            /\ canceller' = IF cancle \in done THEN canceller
                            ELSE [canceller EXCEPT ![cancle] = a]
            /\ Goto(a, "s_clr")
    /\ UNCHANGED <<d, ctx, cancle, nextc, cont, kind, arg, calls>>

\* ... tm.cancle = nil; tm.ctx = nil.
StopClr(a) ==
    /\ pc[a] = "s_clr"
    /\ cancle' = NilCtx /\ ctx' = NilCtx
    /\ Goto(a, AfterStop(a))
    /\ UNCHANGED <<d, nextc, cont, kind, arg, done, canceller, calls>>

\* tm.ctx, tm.cancle = context.WithCancel(context.Background())
Assign ==
    /\ pc[User] = "assign"
    /\ nextc' = nextc + 1
    /\ ctx' = nextc + 1 /\ cancle' = nextc + 1
    /\ Goto(User, "go")
    /\ UNCHANGED <<d, cont, kind, arg, done, canceller, calls>>

\* go func(ctx){...}(tm.ctx): the goroutine gets the field's value now.
Go ==
    /\ pc[User] = "go"
    /\ pc' = [pc EXCEPT ![User] = "idle", ![nextc] = "start"]
    /\ kind' = [kind EXCEPT ![nextc] = IF cont = "RegularCall" THEN "regular"
                                                                ELSE "expired"]
    /\ arg' = [arg EXCEPT ![nextc] = ctx]
    /\ UNCHANGED <<d, ctx, cancle, nextc, cont, done, canceller, calls>>

-----------------------------------------------------------------------------
(***************************************************************************)
(* The goroutine of RegularCall: t := time.NewTicker(tm.d), which panics   *)
(* for a zero duration (onError recovers, the goroutine ends); then the    *)
(* first go f().                                                           *)
(***************************************************************************)
Start(j) ==
    /\ pc[j] = "start"
    /\ IF kind[j] = "regular"
       THEN IF d = "zero"
            THEN Goto(j, "exit") /\ UNCHANGED calls
            ELSE Goto(j, "loop") /\ calls' = [calls EXCEPT ![j] = @ + 1]
       ELSE Goto(j, "wait") /\ UNCHANGED calls       \* time.NewTimer(tm.d)
    /\ UNCHANGED <<d, ctx, cancle, nextc, cont, kind, arg, done, canceller>>

\* A mutation: a plain break leaves only the select, not the for loop.
LoopBreaksSelectOnly(j) ==
    /\ pc[j] = "loop"
    /\ IF arg[j] = NilCtx
       THEN Goto(j, "exit") /\ UNCHANGED calls
       ELSE \/ arg[j] \in done /\ UNCHANGED <<pc, calls>>
            \/ calls[j] < MaxTicks /\ calls' = [calls EXCEPT ![j] = @ + 1]
               /\ UNCHANGED pc
    /\ UNCHANGED <<d, ctx, cancle, nextc, cont, kind, arg, done, canceller>>

(***************************************************************************)
(* RegularCall's loop: select on ctx.Done() (break f) and t.C (go f()).    *)
(* When both are ready select picks either.  A nil ctx panics at           *)
(* ctx.Done(); onError recovers and the goroutine ends.                    *)
(***************************************************************************)
Loop(j) ==
    /\ pc[j] = "loop"
    /\ IF arg[j] = NilCtx
       THEN Goto(j, "exit") /\ UNCHANGED calls
       ELSE \/ arg[j] \in done /\ Goto(j, "exit") /\ UNCHANGED calls
            \/ calls[j] < MaxTicks /\ calls' = [calls EXCEPT ![j] = @ + 1]
               /\ UNCHANGED pc
    /\ UNCHANGED <<d, ctx, cancle, nextc, cont, kind, arg, done, canceller>>

(***************************************************************************)
(* ExpiredCall's goroutine: select on ctx.Done() and the timer; when the   *)
(* timer fires, go f() and then tm.Stop() on whatever tm holds now.        *)
(***************************************************************************)
Wait(j) ==
    /\ pc[j] = "wait"
    /\ IF arg[j] = NilCtx
       THEN Goto(j, "exit") /\ UNCHANGED calls
       ELSE \/ arg[j] \in done /\ Goto(j, "exit") /\ UNCHANGED calls
            \/ Goto(j, "s_chk") /\ calls' = [calls EXCEPT ![j] = @ + 1]
    /\ UNCHANGED <<d, ctx, cancle, nextc, cont, kind, arg, done, canceller>>

\* Steps of the caller inside a call, and of job goroutine j.
UserStep == StopChk(User) \/ StopCall(User) \/ StopClr(User) \/ Assign \/ Go
JobStep(j) == Start(j) \/ Loop(j) \/ Wait(j)
                \/ StopChk(j) \/ StopCall(j) \/ StopClr(j)

Next == SetDuration \/ Call \/ UserStep \/ \E j \in Jobs : JobStep(j)

(***************************************************************************)
(* A goroutine inside a method keeps running: weak fairness on the         *)
(* caller's steps within a call and on every job goroutine.  Whether the   *)
(* caller makes another call is up to it: no fairness on Call or           *)
(* SetDuration.                                                            *)
(***************************************************************************)
Spec == Init /\ [][Next]_vars /\ WF_vars(UserStep)
        /\ \A j \in Jobs : WF_vars(JobStep(j))

-----------------------------------------------------------------------------
(***************************************************************************)
(* Starting a job replaces the previous one: RegularCall and ExpiredCall   *)
(* Stop the running job before starting theirs, so at most one job         *)
(* goroutine waits on a context that is not cancelled, whatever the        *)
(* expired goroutines' own tm.Stop() calls do in between; a job the caller *)
(* can no longer reach through tm.cancle would run for ever.               *)
(***************************************************************************)
AtMostOneLiveJob ==
    Cardinality({j \in Jobs : /\ pc[j] \in {"start", "loop", "wait"}
                              /\ arg[j] # NilCtx /\ arg[j] \notin done}) <= 1

(***************************************************************************)
(* A stopped job ends: once its context is cancelled, a RegularCall or     *)
(* ExpiredCall goroutine eventually returns (and stops its ticker).        *)
(***************************************************************************)
CancelledJobExits ==
    \A j \in Jobs : (arg[j] \in done /\ pc[j] \in {"loop", "wait"})
                        ~> pc[j] = "exit"

=============================================================================
