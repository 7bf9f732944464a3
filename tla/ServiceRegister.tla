---------------------------- MODULE ServiceRegister ----------------------------
(***************************************************************************)
(* Service.Register (src/etcd/service-discovery/register.go): a goroutine  *)
(* that puts the service's key under an etcd lease of ttl seconds and      *)
(* keeps the lease alive every ttl/3 seconds, grants a new lease when the  *)
(* old one is gone (ErrLeaseNotFound), and on Unregister (the context's    *)
(* cancel) closes the lease client and deletes the key.  A failed Grant or *)
(* Put panics, which ends the process.                                     *)
(*                                                                         *)
(* The etcd server is the environment: time passes in ticks of a second,  *)
(* a lease expires when its remaining time reaches zero, and the key put   *)
(* under it goes with it.  An RPC may fail (a timeout or a lost            *)
(* connection) up to MaxFails times; a tick may fall between any two       *)
(* steps of the goroutine, which is how a slow RPC is modelled.            *)
(***************************************************************************)
EXTENDS Integers

CONSTANTS
    Ttl,        \* the ttl argument of Register
    LeaseIds,   \* lease ids etcd can hand out (an id is used by one lease at a time)
    MaxFails    \* bound: RPCs that fail

NoLease == 0    \* curLeaseID == 0; also "no key" for key

\* ttl <= 0 becomes 10 seconds, and less than 3 becomes 3.
EffTtl == IF Ttl <= 0 THEN 10 ELSE IF Ttl < 3 THEN 3 ELSE Ttl

\* time.Duration(ttl/3) * time.Second, in ticks.
Interval == EffTtl \div 3

VARIABLES
    left,       \* etcd: each lease's remaining seconds, -1 when it does not exist
    key,        \* etcd: the lease the service's key is put under, or NoLease
    cur,        \* curLeaseID
    granted,    \* the lease a Grant returned, for the Put that follows
    rpc,        \* the register goroutine's place in the loop
    slept,      \* seconds of time.Sleep(interval) still to pass
    cancelled,  \* s.ctx is cancelled (Unregister)
    fails       \* RPCs that failed so far

vars == <<left, key, cur, granted, rpc, slept, cancelled, fails>>

\* NewService, then go s.Register(prefix, ttl).
Init ==
    /\ left = [l \in LeaseIds |-> -1] /\ key = NoLease /\ cur = NoLease
    /\ granted = NoLease /\ rpc = "loop" /\ slept = 0 /\ cancelled = FALSE
    /\ fails = 0

\* An RPC's outcome: it fails (counted) or not.
Outcome(failed) == IF failed THEN fails' = fails + 1 ELSE UNCHANGED fails
Results == {f \in BOOLEAN : f => fails < MaxFails}

Goto(l) == rpc' = l

Sleep == Goto("sleep") /\ slept' = Interval
-----------------------------------------------------------------------------
\* A mutation: the select without its ctx.Done() case.
LoopIgnoresCtx ==
    /\ rpc = "loop"
    /\ Goto(IF cur = NoLease THEN "grant" ELSE "keepalive")
    /\ UNCHANGED <<left, key, cur, granted, slept, cancelled, fails>>

\* select: ctx.Done() when cancelled, else default: grant or keep alive.
Loop ==
    /\ rpc = "loop"
    /\ Goto(IF cancelled THEN "close" ELSE IF cur = NoLease THEN "grant" ELSE "keepalive")
    /\ UNCHANGED <<left, key, cur, granted, slept, cancelled, fails>>

\* GRANT: lease.Grant(ttl); an error panics.
Grant ==
    /\ rpc = "grant"
    /\ \E failed \in Results :
         /\ Outcome(failed)
         /\ IF failed
            THEN Goto("crashed") /\ UNCHANGED <<left, granted>>
            ELSE \E l \in {i \in LeaseIds : left[i] = -1} :
                   /\ left' = [left EXCEPT ![l] = EffTtl]
                   /\ granted' = l /\ Goto("put")
    /\ UNCHANGED <<key, cur, slept, cancelled>>

\* kv.Put(path, value, WithLease(id)); an error, or a lease that expired
\* since the Grant, panics.  Then curLeaseID = leaseResp.ID.
Put ==
    /\ rpc = "put"
    /\ \E failed \in Results :
         /\ Outcome(failed)
         /\ IF failed \/ left[granted] = -1
            THEN Goto("crashed") /\ UNCHANGED <<key, cur, slept>>
            ELSE key' = granted /\ cur' = granted /\ Sleep
    /\ UNCHANGED <<left, granted, cancelled>>

\* A mutation: ErrLeaseNotFound ignored like any other error.
KeepAliveNoReset ==
    /\ rpc = "keepalive"
    /\ \E failed \in Results :
         /\ Outcome(failed)
         /\ left' = IF failed \/ left[cur] = -1 THEN left ELSE [left EXCEPT ![cur] = EffTtl]
         /\ Sleep /\ UNCHANGED cur
    /\ UNCHANGED <<key, granted, cancelled>>

(***************************************************************************)
(* lease.KeepAliveOnce(curLeaseID): it renews the lease to ttl; a lease    *)
(* that is gone gives ErrLeaseNotFound, so curLeaseID = 0 and goto GRANT;   *)
(* any other error is ignored.  Then the loop sleeps.                      *)
(***************************************************************************)
KeepAlive ==
    /\ rpc = "keepalive"
    /\ \E failed \in Results :
         /\ Outcome(failed)
         /\ IF ~failed /\ left[cur] = -1
            THEN cur' = NoLease /\ Goto("grant") /\ UNCHANGED <<left, slept>>
            ELSE /\ left' = IF failed THEN left ELSE [left EXCEPT ![cur] = EffTtl]
                 /\ Sleep /\ UNCHANGED cur
    /\ UNCHANGED <<key, granted, cancelled>>

\* time.Sleep(interval) has passed.
Wake ==
    /\ rpc = "sleep" /\ slept = 0
    /\ Goto("loop")
    /\ UNCHANGED <<left, key, cur, granted, slept, cancelled, fails>>

\* lease.Close() (stops the client's keep-alives; an error is only logged),
\* then kv.Delete(path), whose error is only logged; return.
Close ==
    /\ rpc = "close"
    /\ \E failed \in Results :
         /\ Outcome(failed)
         /\ key' = IF failed THEN key ELSE NoLease
    /\ Goto("done")
    /\ UNCHANGED <<left, cur, granted, slept, cancelled>>

\* Unregister: s.cancel().
Unregister ==
    /\ ~cancelled /\ cancelled' = TRUE
    /\ UNCHANGED <<left, key, cur, granted, rpc, slept, fails>>

\* A second passes: the sleep counts down, every lease loses a second and
\* one that reaches zero is revoked by etcd with the key put under it.
Tick ==
    /\ slept' = IF slept > 0 THEN slept - 1 ELSE 0
    /\ left' = [l \in LeaseIds |-> IF left[l] > 1 THEN left[l] - 1 ELSE -1]
    /\ key' = IF key # NoLease /\ left[key] <= 1 THEN NoLease ELSE key
    /\ UNCHANGED <<cur, granted, rpc, cancelled, fails>>

\* The steps of the register goroutine.
RegStep == Loop \/ Grant \/ Put \/ KeepAlive \/ Wake \/ Close

Next == RegStep \/ Unregister \/ Tick

(***************************************************************************)
(* The register goroutine runs when it can, and time passes: weak fairness *)
(* on both.  Whether Unregister is called is up to the application.        *)
(***************************************************************************)
Spec == Init /\ [][Next]_vars /\ WF_vars(RegStep) /\ WF_vars(Tick)
-----------------------------------------------------------------------------
TypeOK ==
    /\ left \in [LeaseIds -> -1..EffTtl]
    /\ key \in LeaseIds \cup {NoLease} /\ cur \in LeaseIds \cup {NoLease}
    /\ granted \in LeaseIds \cup {NoLease}
    /\ rpc \in {"loop", "grant", "put", "keepalive", "sleep", "close", "done", "crashed"}
    /\ slept \in 0..Interval /\ cancelled \in BOOLEAN /\ fails \in 0..MaxFails

(***************************************************************************)
(* The service comes back: whenever its key is missing from etcd (never    *)
(* put yet, or its lease expired because a keep-alive came late or was     *)
(* lost), the running register loop eventually puts it again, unless the   *)
(* service is unregistered or the process has panicked.                    *)
(***************************************************************************)
KeyEventuallyRegistered ==
    (key = NoLease /\ ~cancelled /\ rpc # "crashed")
        ~> (key # NoLease \/ cancelled \/ rpc = "crashed")

(***************************************************************************)
(* An unregistered service leaves etcd: after Unregister the key is        *)
(* eventually gone and stays gone, by the Delete or, when that fails or    *)
(* the process panicked, by the expiry of a lease no one keeps alive.      *)
(***************************************************************************)
UnregisterRemovesKey == cancelled ~> [](key = NoLease)
====
