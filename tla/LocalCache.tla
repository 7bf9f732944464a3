------------------------------ MODULE LocalCache ------------------------------
(***************************************************************************)
(* The local cache of src/cache/local.go: a map of entries under a         *)
(* RWMutex, a DelayQueue holding one item per entry that expires, the      *)
(* monitorKey goroutine taking due items, and the remove_expired goroutine *)
(* it starts for each.  Set, SetNx, Remove and Close are calls from any    *)
(* goroutine; each holds the cache lock for its whole body, so each is one *)
(* step.  Get, Time, Size and Keys only read and are not steps.  Values    *)
(* are abstracted away: an entry is its key and its dealyItem.             *)
(***************************************************************************)
EXTENDS DelayQueue

CONSTANTS
    Keys,        \* cache keys
    Periods,     \* periods passed to Set/SetNx, in clock units; 0 = no expiry
    MaxSets,     \* bound: Set and SetNx calls
    MaxRemoves,  \* bound: Remove calls
    Monitor      \* the monitorKey goroutine, the only taker

ASSUME Takers = {Monitor} /\ Periods \subseteq Nat

Absent == -1            \* no entry was set, or it was removed by the user
Forever == MaxTime + 1  \* an entry set with period <= 0 never expires

VARIABLES
    cache,    \* keys with an entry in the map
    citem,    \* each entry's dealyItem: an item, or NoItem (nil)
    val,      \* each item's value (the key), NoItem for an item not yet made
    pending,  \* remove_expired goroutines started per key and not yet run
    want,     \* history: the deadline the last Set gave each key
    sets,     \* Set/SetNx calls made
    removes,  \* Remove calls made
    mon       \* monitorKey: "loop" or "done" (returned)

cvars == <<cache, citem, val, pending, want, sets, removes, mon>>
vars == <<dqvars, cvars>>

Init ==
    /\ DQInit
    /\ cache = {} /\ citem = [k \in Keys |-> NoItem]
    /\ val = [i \in Items |-> NoItem] /\ pending = [k \in Keys |-> 0]
    /\ want = [k \in Keys |-> Absent] /\ sets = 0 /\ removes = 0
    /\ mon = "loop"

\* time.Now().Add(period)
Deadline(p) == now + p

(***************************************************************************)
(* setNx(k, v, period, nx) under the cache lock.  SetNx on an existing key *)
(* returns -1 and changes nothing (no step).  Otherwise the entry is made  *)
(* or kept; a positive period adds a new item (first expiry) or updates    *)
(* the existing one; a period <= 0 removes the item and forgets it.  The   *)
(* results of Add, Update and Remove are ignored.                          *)
(***************************************************************************)
setNx(k, p, nx) ==
    /\ sets < MaxSets
    /\ ~(nx /\ k \in cache)
    /\ sets' = sets + 1
    /\ cache' = cache \cup {k}
    /\ want' = [want EXCEPT ![k] = IF p > 0 THEN Deadline(p) ELSE Forever]
    /\ IF p > 0
       THEN IF citem[k] = NoItem
            THEN \E i \in Items :
                   /\ val[i] = NoItem
                   /\ \A j \in Items : val[j] = NoItem => i <= j
                   /\ citem' = [citem EXCEPT ![k] = i]
                   /\ val' = [val EXCEPT ![i] = k]
                   /\ DQAdd(i, Deadline(p))
                   /\ UNCHANGED <<active, tick, now>>
            ELSE /\ DQUpdate(citem[k], Deadline(p))
                 /\ UNCHANGED <<citem, val, heap, idx, active, tick, now>>
       ELSE IF citem[k] # NoItem
            THEN /\ DQRemove(citem[k])
                 /\ citem' = [citem EXCEPT ![k] = NoItem]
                 /\ UNCHANGED <<val, prio, timerAt, active, tick, now>>
            ELSE UNCHANGED <<citem, val, heap, idx, prio, timerAt, active,
                             tick, now>>
    /\ UNCHANGED <<pending, removes, mon, tpc, tok, titem>>

Set(k, p) == setNx(k, p, FALSE)
SetNx(k, p) == setNx(k, p, TRUE)

\* The queue side of Remove: dealyQueue.Remove(data.dealyItem) if the key
\* had an entry (a nil dealyItem returns false).
RemoveItemOf(k) == IF k \in cache THEN DQRemove(citem[k])
                                  ELSE UNCHANGED <<heap, idx>>

\* Remove(k): delete the entry, then remove its item from the queue.
Remove(k) ==
    /\ removes < MaxRemoves
    /\ removes' = removes + 1
    /\ cache' = cache \ {k}
    /\ citem' = [citem EXCEPT ![k] = NoItem]
    /\ want' = [want EXCEPT ![k] = Absent]
    /\ RemoveItemOf(k)
    /\ UNCHANGED <<now, active, prio, timerAt, tick, tpc, tok, titem, val,
                   pending, sets, mon>>

\* remove_expired(k): delete whatever entry k has now.
remove_expired(k) ==
    /\ pending[k] > 0
    /\ pending' = [pending EXCEPT ![k] = @ - 1]
    /\ cache' = cache \ {k}
    /\ citem' = [citem EXCEPT ![k] = NoItem]
    /\ UNCHANGED <<dqvars, val, want, sets, removes, mon>>

\* A mutation: the expiry goroutine is lost (its panic recovered by
\* e.OnError before remove_expired ran).
SpawnExpiryLost(k) == UNCHANGED pending

\* go func() { remove_expired(key) }()
SpawnExpiry(k) == pending' = [pending EXCEPT ![k] = @ + 1]

(***************************************************************************)
(* monitorKey after Take returns: ok starts a goroutine for the item's key *)
(* and calls Take again; not ok (the queue is closed) returns.             *)
(***************************************************************************)
monitorKey ==
    /\ mon = "loop" /\ tpc[Monitor] = "ret"
    /\ IF tok[Monitor]
       THEN /\ SpawnExpiry(val[titem[Monitor]])
            /\ tpc' = [tpc EXCEPT ![Monitor] = "lock"]
            /\ tok' = [tok EXCEPT ![Monitor] = FALSE]
            /\ titem' = [titem EXCEPT ![Monitor] = NoItem]
            /\ UNCHANGED mon
       ELSE /\ mon' = "done"
            /\ UNCHANGED <<pending, tpc, tok, titem>>
    /\ UNCHANGED <<now, active, heap, idx, prio, timerAt, tick, cache, citem,
                   val, want, sets, removes>>

\* Close(): the resource manager closes the delay queue.
Close ==
    /\ DQClose
    /\ UNCHANGED <<now, idx, prio, tick, tpc, tok, titem, cvars>>

\* The monitor goroutine inside Take.
MonitorTake ==
    /\ mon = "loop"
    /\ TakeStep(Monitor)
    /\ UNCHANGED cvars

\* The timer and the clock.
Clock == (TimerFire \/ Tick) /\ UNCHANGED cvars

Next ==
    \/ \E k \in Keys, p \in Periods : Set(k, p) \/ SetNx(k, p)
    \/ \E k \in Keys : Remove(k) \/ remove_expired(k)
    \/ MonitorTake \/ monitorKey \/ Close \/ Clock

(***************************************************************************)
(* The monitor goroutine, the remove_expired goroutines and the runtime's  *)
(* timer run whenever they can, and time passes: weak fairness on each.   *)
(* The callers of Set, SetNx, Remove and Close get none.                   *)
(***************************************************************************)
Spec == /\ Init /\ [][Next]_vars
        /\ WF_vars(MonitorTake) /\ WF_vars(monitorKey)
        /\ \A k \in Keys : WF_vars(remove_expired(k))
        /\ WF_vars(TimerFire /\ UNCHANGED cvars)
        /\ WF_vars(Tick /\ UNCHANGED cvars)

-----------------------------------------------------------------------------
TypeOK ==
    /\ now \in 0..MaxTime /\ active \in BOOLEAN /\ heap \subseteq Items
    /\ idx \in [Items -> {"new", "in", "out"}]
    \* an item's index is valid exactly while it is in the open queue
    /\ \A i \in Items : i \in heap => idx[i] = "in"
    /\ active => \A i \in Items : idx[i] = "in" => i \in heap
    /\ timerAt \in {NoFire} \cup (0..(MaxTime + EmptyWait)) /\ tick \in BOOLEAN
    /\ tpc \in [Takers -> {"lock", "check", "wait", "ret"}]
    /\ cache \subseteq Keys /\ citem \in [Keys -> Items \cup {NoItem}]
    /\ val \in [Items -> Keys \cup {NoItem}] /\ pending \in [Keys -> Nat]
    /\ mon \in {"loop", "done"}

(***************************************************************************)
(* The timer wake-up is never lost: while the queue is open, an item whose *)
(* deadline has come is eventually taken by monitorKey (or postponed by an *)
(* Update), whatever Adds, Updates and Removes reset the one timer in      *)
(* between.                                                                *)
(***************************************************************************)
DueItemEventuallyTaken ==
    \A i \in Items :
        (i \in heap /\ prio[i] <= now) ~> (i \notin heap \/ prio[i] > now)

(***************************************************************************)
(* Expiry happens: an entry whose deadline has passed is eventually        *)
(* deleted by remove_expired, unless a Set gives it a new deadline or the  *)
(* queue is closed.                                                        *)
(***************************************************************************)
ExpiredEntryEventuallyRemoved ==
    \A k \in Keys :
        (k \in cache /\ want[k] <= now /\ active)
            ~> (k \notin cache \/ want[k] > now \/ ~active)

(***************************************************************************)
(* An entry lives until its deadline: after Set(k, v, period) the key is   *)
(* readable by Get until the period has passed (for ever when period <= 0) *)
(* unless the user removes it.  The comment of setNx's Update branch says  *)
(* an existing entry's expiry "only needs updating".                       *)
(***************************************************************************)
EntryLivesUntilDeadline ==
    \A k \in Keys : want[k] > now => k \in cache
=============================================================================
