------------------------------ MODULE AtomicList ------------------------------
(***************************************************************************)
(* What the lock of src/basic/linkedlist.go promises: the list behaves as  *)
(* a sequence on which every call takes effect at one instant between its *)
(* invocation and its return (linearizability).  A thread invokes one      *)
(* operation at a time; the operation later applies to the sequence, all   *)
(* at once, and returns its result.  The sequential meaning of each        *)
(* operation is the one its method has when no other call runs.            *)
(***************************************************************************)
EXTENDS Integers, Sequences

CONSTANTS
    Threads,    \* goroutines calling the list
    Vals,       \* data values, Nil (a nil interface{}) among them
    Nil,        \* nil: Remove/Get's result for a bad index, an empty list
    Indices     \* the index arguments callers pass (out-of-range ones too)

SE == INSTANCE SequencesExt

\* The calls and their arguments.
Ops ==
    [name : {"AddLast", "AddFirst"}, v : Vals]
        \cup [name : {"AddBefore"}, i : Indices, v : Vals]
        \cup [name : {"Remove", "RemoveUntil", "Get"}, i : Indices]
        \cup [name : {"RemoveData"}, v : Vals]
        \cup [name : {"RemoveFirst", "RemoveLast", "Clear"}]

\* Results: a data value (or Nil), "true"/"false" (RemoveData's bool), "ok"
\* (nil error, or no result), "range" (the out-of-range error), "notfound".
NoResult == "ok"

VARIABLES
    lst,    \* the list, first element first
    busy,   \* busy[t]: thread t has invoked an operation that has not returned
    op,     \* op[t]: the operation thread t invoked last
    ret     \* ret[t]: what it returned

avars == <<lst, busy, op, ret>>

InRange(i, s) == 0 <= i /\ i < Len(s)

\* The list after o, run alone on s.
After(o, s) ==
    CASE o.name = "AddLast"   -> Append(s, o.v)
      [] o.name = "AddFirst"  -> <<o.v>> \o s
      [] o.name = "AddBefore" ->
             IF o.i < 0 \/ o.i > Len(s) THEN s ELSE SE!InsertAt(s, o.i + 1, o.v)
      [] o.name = "Remove"    -> IF InRange(o.i, s) THEN SE!RemoveAt(s, o.i + 1) ELSE s
      [] o.name = "RemoveData" ->
             LET js == {j \in 1..Len(s) : s[j] = o.v}
             IN  IF js = {} THEN s
                 ELSE SE!RemoveAt(s, CHOOSE j \in js : \A m \in js : j <= m)
      [] o.name = "RemoveUntil" ->
             IF InRange(o.i, s) THEN SubSeq(s, o.i + 2, Len(s)) ELSE s
      [] o.name = "RemoveFirst" -> IF s = <<>> THEN s ELSE Tail(s)
      [] o.name = "RemoveLast"  -> IF s = <<>> THEN s ELSE SubSeq(s, 1, Len(s) - 1)
      [] o.name = "Clear"       -> <<>>
      [] o.name = "Get"         -> s

\* What o returns, run alone on s.
Result(o, s) ==
    CASE o.name \in {"AddLast", "AddFirst", "Clear"} -> NoResult
      [] o.name = "AddBefore" ->
             IF o.i < 0 \/ o.i > Len(s) THEN "range" ELSE NoResult
      [] o.name \in {"Remove", "Get"} -> IF InRange(o.i, s) THEN s[o.i + 1] ELSE Nil
      [] o.name = "RemoveData"  ->
             IF \E j \in 1..Len(s) : s[j] = o.v THEN "true" ELSE "false"
      [] o.name = "RemoveUntil" -> IF InRange(o.i, s) THEN NoResult ELSE "range"
      [] o.name = "RemoveFirst" -> IF s = <<>> THEN Nil ELSE Head(s)
      [] o.name = "RemoveLast"  -> IF s = <<>> THEN Nil ELSE s[Len(s)]

Init ==
    /\ lst = <<>>
    /\ busy = [t \in Threads |-> FALSE]
    /\ op = [t \in Threads |-> [name |-> "Clear"]]
    /\ ret = [t \in Threads |-> NoResult]

\* Thread t calls o.
Invoke(t, o) ==
    /\ ~busy[t]
    /\ busy' = [busy EXCEPT ![t] = TRUE]
    /\ op' = [op EXCEPT ![t] = o]
    /\ UNCHANGED <<lst, ret>>

\* Thread t's call takes effect, all at once, and returns.
Linearize(t) ==
    /\ busy[t]
    /\ lst' = After(op[t], lst)
    /\ ret' = [ret EXCEPT ![t] = Result(op[t], lst)]
    /\ busy' = [busy EXCEPT ![t] = FALSE]
    /\ UNCHANGED op

Next == \E t \in Threads : (\E o \in Ops : Invoke(t, o)) \/ Linearize(t)

Spec == Init /\ [][Next]_avars
=============================================================================
