--------------------------- MODULE ResourceManager ---------------------------
(***************************************************************************)
(* The shutdown manager of src/global/resource.go.  Registrant goroutines *)
(* call Add, AddBeforeFree and AddAfterFree; the ListenSignal goroutine   *)
(* receives SIGINT or SIGTERM and runs destroy, which closes the           *)
(* resourcesBefore and resources lists (then SIGTERM closes                *)
(* resourcesAfter).  Only state is under the mutex: each append is a read *)
(* of the slice and a later write of it, and eachCloseResources ranges    *)
(* over the slice it was passed and returns an empty one that the caller  *)
(* writes back, so a registrant's step may fall between the two.          *)
(*                                                                         *)
(* destroy's wg is only ever waited on by the goroutine that would call   *)
(* Done, so wg.Wait returns at once; the hammer-time sleep is no step.    *)
(* A list's write-back and the read of the next list to close are one     *)
(* step: a registrant's append between them is ordered before or after it *)
(* with the same effect on the lists.                                     *)
(***************************************************************************)
EXTENDS Naturals, Sequences, SequencesExt

CONSTANTS
    Registrants,    \* goroutines registering resources
    Plan,           \* Plan[g]: the calls of g in order, [m |-> method, r |-> resource]
    Resources,
    Signals,        \* signals the OS may deliver: a subset of {"INT", "TERM"}
    MaxSignals      \* bound: signals received

\* Which list each method appends to.
ListOf == [AddBeforeFree |-> "before", Add |-> "mid", AddAfterFree |-> "after"]
Lists == {"before", "mid", "after"}

VARIABLES
    state,      \* srv.state: "INIT", "RUNNING", "SHUTTING_DOWN", "TERMINATE"
    lists,      \* resourcesBefore, resources, resourcesAfter
    mi,         \* each registrant: the index in its Plan of its current call
    mpc,        \* each registrant: "call", "read", "write" or "done"
    msnap,      \* each registrant: the slice its append read
    disable,    \* DisableGracefullyStopped
    lpc,        \* ListenSignal: "wait", "chk", "close", "done"
    sig,        \* the signal being handled, or "none"
    nsig,       \* signals received
    phase,      \* the list eachCloseResources is closing
    closing,    \* what is left of the slice it ranges over
    closes,     \* Close calls each resource has had
    atSig       \* history: each list's resources when sig was received

vars == <<state, lists, mi, mpc, msnap, disable, lpc, sig, nsig, phase,
          closing, closes, atSig>>

Init ==
    /\ state = "INIT"
    /\ lists = [l \in Lists |-> <<>>]
    /\ mi = [g \in Registrants |-> 1]
    /\ mpc = [g \in Registrants |-> IF Plan[g] = <<>> THEN "done" ELSE "call"]
    /\ msnap = [g \in Registrants |-> <<>>]
    /\ disable \in BOOLEAN
    /\ lpc = "wait" /\ sig = "none" /\ nsig = 0
    /\ phase = "before" /\ closing = <<>>
    /\ closes = [r \in Resources |-> 0]
    /\ atSig = [l \in Lists |-> {}]

Call(g) == Plan[g][mi[g]]
-----------------------------------------------------------------------------
\* Entering Add or AddBeforeFree; AddAfterFree first does
\* setState(STATE_RUNNING) under the lock.
Enter(g) ==
    /\ mpc[g] = "call"
    /\ IF Call(g).m = "AddAfterFree" THEN state' = "RUNNING" ELSE UNCHANGED state
    /\ mpc' = [mpc EXCEPT ![g] = "read"]
    /\ UNCHANGED <<lists, mi, msnap, disable, lpc, sig, nsig, phase, closing,
                   closes, atSig>>

\* append reads the slice ...
AppendRead(g) ==
    /\ mpc[g] = "read"
    /\ msnap' = [msnap EXCEPT ![g] = lists[ListOf[Call(g).m]]]
    /\ mpc' = [mpc EXCEPT ![g] = "write"]
    /\ UNCHANGED <<state, lists, mi, disable, lpc, sig, nsig, phase, closing,
                   closes, atSig>>

\* ... and the field is assigned the slice with the resource appended.
AppendWrite(g) ==
    /\ mpc[g] = "write"
    /\ lists' = [lists EXCEPT ![ListOf[Call(g).m]] = Append(msnap[g], Call(g).r)]
    /\ mi' = [mi EXCEPT ![g] = @ + 1]
    /\ mpc' = [mpc EXCEPT ![g] = IF mi[g] = Len(Plan[g]) THEN "done" ELSE "call"]
    /\ UNCHANGED <<state, msnap, disable, lpc, sig, nsig, phase, closing,
                   closes, atSig>>
-----------------------------------------------------------------------------
\* sig := <-sigs; with DisableGracefullyStopped the loop breaks at once.
Receive ==
    /\ lpc = "wait" /\ nsig < MaxSignals
    /\ \E s \in Signals : sig' = s
    /\ nsig' = nsig + 1
    /\ atSig' = [l \in Lists |-> Range(lists[l])]
    /\ lpc' = IF disable THEN "done" ELSE "chk"
    /\ UNCHANGED <<state, lists, mi, mpc, msnap, disable, phase, closing,
                   closes>>

\* Where ListenSignal goes when destroy returns: SIGINT loops, SIGTERM
\* closes resourcesAfter and breaks.
AfterDestroy ==
    IF sig = "INT"
    THEN lpc' = "wait" /\ UNCHANGED <<phase, closing>>
    ELSE lpc' = "close" /\ phase' = "after" /\ closing' = lists["after"]

destroy ==
    /\ lpc = "chk"
    /\ IF state # "RUNNING"
       THEN AfterDestroy /\ UNCHANGED state
       ELSE /\ state' = "SHUTTING_DOWN"
            /\ lpc' = "close" /\ phase' = "before" /\ closing' = lists["before"]
    /\ UNCHANGED <<lists, mi, mpc, msnap, disable, sig, nsig, closes, atSig>>

\* eachCloseResources: v.Close() on the next element (none is nil).
CloseNext ==
    /\ lpc = "close" /\ closing # <<>>
    /\ closes' = [closes EXCEPT ![Head(closing)] = @ + 1]
    /\ closing' = Tail(closing)
    /\ UNCHANGED <<state, lists, mi, mpc, msnap, disable, lpc, sig, nsig,
                   phase, atSig>>

EndClose ==
    /\ lpc = "close" /\ closing = <<>>
    /\ lists' = [lists EXCEPT ![phase] = <<>>]
    /\ CASE phase = "before" ->
              phase' = "mid" /\ closing' = lists["mid"]
              /\ UNCHANGED <<state, lpc>>
         [] phase = "mid" ->
              state' = "TERMINATE" /\ AfterDestroy
         [] phase = "after" ->
              lpc' = "done" /\ UNCHANGED <<state, phase, closing>>
    /\ UNCHANGED <<mi, mpc, msnap, disable, sig, nsig, closes, atSig>>

Next ==
    \/ \E g \in Registrants : Enter(g) \/ AppendRead(g) \/ AppendWrite(g)
    \/ Receive \/ destroy \/ CloseNext \/ EndClose

Spec == Init /\ [][Next]_vars
-----------------------------------------------------------------------------
(***************************************************************************)
(* A handled signal closes what was registered: once ListenSignal has      *)
(* finished with a SIGINT or SIGTERM (graceful stop enabled), every        *)
(* resource that was in resourcesBefore or resources when the signal came *)
(* has been closed, and after SIGTERM also every one in resourcesAfter,   *)
(* whatever the registrants appended meanwhile.                           *)
(***************************************************************************)
ShutdownClosesRegistered ==
    (lpc \in {"wait", "done"} /\ sig # "none" /\ ~disable) =>
        \A r \in atSig["before"] \cup atSig["mid"]
                 \cup (IF sig = "TERM" THEN atSig["after"] ELSE {}) :
            closes[r] >= 1

=============================================================================
