------------------------------ MODULE DelayQueue ------------------------------
(***************************************************************************)
(* The delay queue of src/queue: a heap of timed items (PriorityQueue over *)
(* container/heap), one time.Timer that wakes the goroutines blocked in    *)
(* Take, and Close.  Add, Remove, Update and Close are operators the       *)
(* caller's own actions use (LocalCache calls them under its lock); the    *)
(* steps of Take are actions of each taker goroutine.                      *)
(*                                                                         *)
(* Time is an integer clock whose unit is far above a microsecond, so      *)
(* Take's "dealy <= time.Microsecond" is "priority <= now".  The heap is   *)
(* the set of items in it: its root is one of the items of least priority, *)
(* which one among equals is left open, as the heap's layout leaves it.    *)
(* The timer is the time it fires at and its one-slot channel.  Reset      *)
(* does not drain the channel (Go before 1.23): a tick already sent stays, *)
(* and a tick sent while the slot is full is dropped.                      *)
(***************************************************************************)
EXTENDS Integers, FiniteSets

CONSTANTS
    Items,      \* the DealyItem objects the program creates
    Takers,     \* goroutines that call Take
    MaxTime,    \* bound: the clock stops here
    EmptyWait,  \* the 30 s Take waits on an empty queue, in clock units
    NoItem      \* a nil *DealyItem

NoFire == -1    \* the timer has fired, or has never been set

VARIABLES
    now,        \* time.Now()
    active,     \* DealyQueue.active
    heap,       \* the items in DealyQueue.queue
    idx,        \* each item's index: "new" (0, never pushed), "in", "out" (-1)
    prio,       \* each item's priority (its deadline)
    timerAt,    \* when the timer fires next, or NoFire
    tick,       \* the timer channel holds a value
    tpc,        \* each taker's place in Take: "lock", "check", "wait", "ret"
    tok,        \* Take's named result ok
    titem       \* Take's named result dealyItem

dqvars == <<now, active, heap, idx, prio, timerAt, tick, tpc, tok, titem>>

DQInit ==
    /\ now = 0 /\ active = TRUE /\ heap = {}
    /\ idx = [i \in Items |-> "new"] /\ prio = [i \in Items |-> 0]
    /\ timerAt = EmptyWait /\ tick = FALSE      \* time.NewTimer(30 s)
    /\ tpc = [t \in Takers |-> "lock"]
    /\ tok = [t \in Takers |-> FALSE] /\ titem = [t \in Takers |-> NoItem]

\* wait.Reset(d): the timer fires d from now, at once when d <= 0.
Reset(d) == timerAt' = IF d <= 0 THEN now ELSE now + d

\* The items Peek may return: the least priorities in a set of items.
Roots(S, p) == {i \in S : \A j \in S : p[i] <= p[j]}

\* Item i is the only item of least priority in S: heap.Push sifts it up
\* past every other item, heap.Fix leaves it at the root.
Least(i, S, p) == \A j \in S \ {i} : p[i] < p[j]

\* A mutation: Pop does not set the popped item's index to -1.
PopKeepsIndex(f) == heap' = heap \ {f} /\ UNCHANGED idx

\* heap.Pop: the root leaves the heap and its index becomes -1.
Pop(f) == heap' = heap \ {f} /\ idx' = [idx EXCEPT ![f] = "out"]

\* A mutation: Add pushes the item but never resets the timer.
DQAddNoReset(i, p) ==
    IF ~active
    THEN UNCHANGED <<heap, idx, prio, timerAt>>
    ELSE /\ heap' = heap \cup {i}
         /\ idx' = [idx EXCEPT ![i] = "in"]
         /\ prio' = [prio EXCEPT ![i] = p]
         /\ UNCHANGED timerAt

-----------------------------------------------------------------------------
(***************************************************************************)
(* Add(dItem): push and, if the item is now at the root, reset the timer   *)
(* to its delay.  False, and nothing changed, once the queue is closed.    *)
(***************************************************************************)
DQAdd(i, p) ==
    IF ~active
    THEN UNCHANGED <<heap, idx, prio, timerAt>>
    ELSE /\ heap' = heap \cup {i}
         /\ idx' = [idx EXCEPT ![i] = "in"]
         /\ prio' = [prio EXCEPT ![i] = p]
         /\ IF Least(i, heap', prio') THEN Reset(p - now)
                                       ELSE UNCHANGED timerAt

\* Remove(dItem): heap.Remove at the item's index; false for a closed
\* queue, a nil item, or an item whose index is -1 (popped or removed).
DQRemove(i) ==
    IF ~active \/ i = NoItem \/ idx[i] = "out"
    THEN UNCHANGED <<heap, idx>>
    ELSE /\ heap' = heap \ {i}
         /\ idx' = [idx EXCEPT ![i] = "out"]

\* Update(dItem, value, dealy): same guards as Remove, then heap.Fix with
\* the new priority and a timer reset if the item is now the root.
DQUpdate(i, p) ==
    IF ~active \/ idx[i] = "out"
    THEN UNCHANGED <<prio, timerAt>>
    ELSE /\ prio' = [prio EXCEPT ![i] = p]
         /\ \/ Least(i, heap, prio') /\ Reset(p - now)
            \/ ~Least(i, heap, prio') /\ UNCHANGED timerAt
            \* a tie with the root: Fix keeps i at the root only if it was there
            \/ /\ ~Least(i, heap, prio') /\ i \in Roots(heap, prio')
               /\ Reset(p - now)

\* Close(): if still active, queue = nil, active = false, and Reset(0) to
\* wake a taker.  A second Close changes nothing.
DQClose ==
    /\ active
    /\ heap' = {} /\ active' = FALSE
    /\ Reset(0)

-----------------------------------------------------------------------------
(***************************************************************************)
(* The locked part of one pass of Take's loop: a closed queue resets the   *)
(* timer to 0; an empty one waits 30 s; otherwise the root's delay is      *)
(* computed and, if it is due, the root is popped.  The timer is reset to  *)
(* that delay in every case.                                               *)
(***************************************************************************)
TakeLock(t) ==
    /\ tpc[t] = "lock"
    /\ tpc' = [tpc EXCEPT ![t] = "check"]
    /\ \/ ~active /\ Reset(0) /\ UNCHANGED <<heap, idx, tok, titem>>
       \/ active /\ heap = {} /\ Reset(EmptyWait)
          /\ UNCHANGED <<heap, idx, tok, titem>>
       \/ active /\ \E f \in Roots(heap, prio) :
             /\ Reset(prio[f] - now)
             /\ IF prio[f] <= now
                THEN /\ Pop(f)
                     /\ tok' = [tok EXCEPT ![t] = TRUE]
                     /\ titem' = [titem EXCEPT ![t] = f]
                ELSE UNCHANGED <<heap, idx, tok, titem>>
    /\ UNCHANGED <<now, active, prio, tick>>

\* After the lock: return if the queue is closed or an item was taken,
\* else block on <-wait.C.  (active is read without the lock.)
TakeCheck(t) ==
    /\ tpc[t] = "check"
    /\ tpc' = [tpc EXCEPT ![t] = IF ~active \/ tok[t] THEN "ret" ELSE "wait"]
    /\ UNCHANGED <<now, active, heap, idx, prio, timerAt, tick, tok, titem>>

\* <-wait.C receives the pending tick: back to the top of the loop.
TakeWake(t) ==
    /\ tpc[t] = "wait" /\ tick
    /\ tick' = FALSE
    /\ tpc' = [tpc EXCEPT ![t] = "lock"]
    /\ UNCHANGED <<now, active, heap, idx, prio, timerAt, tok, titem>>

\* The runtime fires the timer: a tick is sent unless the slot is full.
TimerFire ==
    /\ timerAt # NoFire /\ timerAt <= now
    /\ timerAt' = NoFire /\ tick' = TRUE
    /\ UNCHANGED <<now, active, heap, idx, prio, tpc, tok, titem>>

\* Time passes.
Tick ==
    /\ now < MaxTime
    /\ now' = now + 1
    /\ UNCHANGED <<active, heap, idx, prio, timerAt, tick, tpc, tok, titem>>

\* The steps of a taker inside Take.
TakeStep(t) == TakeLock(t) \/ TakeCheck(t) \/ TakeWake(t)
=============================================================================
