------------------------------ MODULE LinkedList ------------------------------
(***************************************************************************)
(* The doubly linked list of src/basic/linkedlist.go at the level of its   *)
(* pointers: nodes with data, prev and next, the first and last pointers   *)
(* and the size field, all behind one mutex.  Each method is an operator   *)
(* from the list's memory to its memory after the call; a thread runs one  *)
(* call at a time.  Every method holds the lock for its whole body and is  *)
(* one step, except AddBefore, which reads size without the lock, then     *)
(* either calls AddLast or locks and inserts: two steps.                   *)
(*                                                                         *)
(* Removed nodes are unreachable once the lock is released (no call keeps  *)
(* a node across an unlock), so a new node may reuse a removed one's name. *)
(***************************************************************************)
EXTENDS Integers, Sequences, FiniteSets

CONSTANTS
    Threads, Vals, Nil, Indices,
    MaxNodes    \* bound: nodes in the list at once

NilNode == 0
Nodes == 1..MaxNodes

VARIABLES
    mem,    \* [first, last, size, data, prev, next]: the list's memory
    pc,     \* each thread: "idle", "call" (in a method), "abLast" or
            \* "abLock" (AddBefore past its unlocked size check)
    op,     \* the call each thread is making, as in AtomicList
    ret     \* what its last call returned

vars == <<mem, pc, op, ret>>

\* f with node n's field set to x; nothing for a nil node.
Upd(f, n, x) == IF n = NilNode THEN f ELSE [f EXCEPT ![n] = x]

\* The nodes from first along next, at most MaxNodes + 1 of them.
RECURSIVE NodesFrom(_, _, _)
NodesFrom(m, n, fuel) ==
    IF n = NilNode \/ fuel = 0 THEN <<>>
    ELSE <<n>> \o NodesFrom(m, m.next[n], fuel - 1)

NodeSeq(m) == NodesFrom(m, m.first, MaxNodes + 1)

\* The data in list order: what the list holds.
Chain(m) == [j \in 1..Len(NodeSeq(m)) |-> m.data[NodeSeq(m)[j]]]

\* The lowest node not in the list: the node a new &node{} is.
FreeNode(m) ==
    LET used == {NodeSeq(m)[j] : j \in 1..Len(NodeSeq(m))}
    IN  CHOOSE n \in Nodes \ used : \A o \in Nodes \ used : n <= o

EmptyMem ==
    [first |-> NilNode, last |-> NilNode, size |-> 0,
     data |-> [n \in Nodes |-> Nil], prev |-> [n \in Nodes |-> NilNode],
     next |-> [n \in Nodes |-> NilNode]]

-----------------------------------------------------------------------------
\* k steps along next from n.
RECURSIVE Fwd(_, _, _)
Fwd(m, n, k) == IF k <= 0 THEN n ELSE Fwd(m, m.next[n], k - 1)

\* k steps along prev from n.
RECURSIVE Bwd(_, _, _)
Bwd(m, n, k) == IF k <= 0 THEN n ELSE Bwd(m, m.prev[n], k - 1)

\* A mutation: the backward search stops one node early.
getNodeOffByOne(m, no) ==
    IF no < m.size \div 2 THEN Fwd(m, m.first, no)
    ELSE Bwd(m, m.last, m.size - 2 - no)

\* getNode(no): from the front when no < size/2, else back from last
\* (size-1-no steps; none when no >= size-1, which returns last).
getNode(m, no) ==
    IF no < m.size \div 2 THEN Fwd(m, m.first, no)
    ELSE Bwd(m, m.last, m.size - 1 - no)

\* A mutation: deleteNode forgets to relink the next node's prev.
deleteNodeNoBackLink(m, n) ==
    LET p == m.prev[n]
        q == m.next[n]
    IN  [m EXCEPT !.first = IF p = NilNode THEN q ELSE m.first,
                  !.last = IF q = NilNode THEN p ELSE m.last,
                  !.next = Upd(Upd(m.next, p, q), n, NilNode),
                  !.prev = Upd(m.prev, n, NilNode),
                  !.data = [m.data EXCEPT ![n] = Nil],
                  !.size = m.size - 1]

\* deleteNode(n): unlink n from both neighbours, clear it, size - 1.
deleteNode(m, n) ==
    LET p == m.prev[n]
        q == m.next[n]
    IN  [m EXCEPT !.first = IF p = NilNode THEN q ELSE m.first,
                  !.last = IF q = NilNode THEN p ELSE m.last,
                  !.next = Upd(Upd(m.next, p, q), n, NilNode),
                  !.prev = Upd(Upd(m.prev, q, p), n, NilNode),
                  !.data = [m.data EXCEPT ![n] = Nil],
                  !.size = m.size - 1]

\* AddLast(v): a new node after last (it is also first in an empty list).
AddLastMem(m, v, nn) ==
    [m EXCEPT !.last = nn,
              !.first = IF m.last = NilNode THEN nn ELSE m.first,
              !.data = [m.data EXCEPT ![nn] = v],
              !.prev = [m.prev EXCEPT ![nn] = m.last],
              !.next = [Upd(m.next, m.last, nn) EXCEPT ![nn] = NilNode],
              !.size = m.size + 1]

\* AddFirst(v): a new node before first.
AddFirstMem(m, v, nn) ==
    [m EXCEPT !.first = nn,
              !.last = IF m.first = NilNode THEN nn ELSE m.last,
              !.data = [m.data EXCEPT ![nn] = v],
              !.next = [m.next EXCEPT ![nn] = m.first],
              !.prev = [Upd(m.prev, m.first, nn) EXCEPT ![nn] = NilNode],
              !.size = m.size + 1]

\* AddBefore's locked part: a new node between target and its prev.
InsertBeforeMem(m, target, v, nn) ==
    LET p == m.prev[target]
    IN  [m EXCEPT !.first = IF p = NilNode THEN nn ELSE m.first,
                  !.data = [m.data EXCEPT ![nn] = v],
                  !.prev = [m.prev EXCEPT ![nn] = p, ![target] = nn],
                  !.next = [Upd(m.next, p, nn) EXCEPT ![nn] = target],
                  !.size = m.size + 1]

\* RemoveFirst: first.next becomes first (or the list empties).
RemoveFirstMem(m) ==
    LET c == m.first
        q == m.next[c]
    IN  [m EXCEPT !.first = q,
                  !.last = IF q = NilNode THEN NilNode ELSE m.last,
                  !.prev = [Upd(m.prev, q, NilNode) EXCEPT ![c] = NilNode],
                  !.next = [m.next EXCEPT ![c] = NilNode],
                  !.data = [m.data EXCEPT ![c] = Nil],
                  !.size = m.size - 1]

\* RemoveLast: last.prev becomes last (or the list empties).
RemoveLastMem(m) ==
    LET c == m.last
        p == m.prev[c]
    IN  [m EXCEPT !.last = p,
                  !.first = IF p = NilNode THEN NilNode ELSE m.first,
                  !.next = [Upd(m.next, p, NilNode) EXCEPT ![c] = NilNode],
                  !.prev = [m.prev EXCEPT ![c] = NilNode],
                  !.data = [m.data EXCEPT ![c] = Nil],
                  !.size = m.size - 1]

\* RemoveUntil(index)'s loop: unlink and clear nodes from the front, up to
\* and including the one at index.
RECURSIVE RemoveUntilMem(_, _)
RemoveUntilMem(m, k) ==
    IF k < 0 \/ m.first = NilNode THEN m
    ELSE RemoveUntilMem(RemoveFirstMem(m), k - 1)

\* Clear: clear every node on the chain, then first = last = nil, size = 0.
ClearMem(m) ==
    LET on == {NodeSeq(m)[j] : j \in 1..Len(NodeSeq(m))}
    IN  [m EXCEPT !.first = NilNode, !.last = NilNode, !.size = 0,
                  !.data = [n \in Nodes |-> IF n \in on THEN Nil ELSE m.data[n]],
                  !.prev = [n \in Nodes |-> IF n \in on THEN NilNode ELSE m.prev[n]],
                  !.next = [n \in Nodes |-> IF n \in on THEN NilNode ELSE m.next[n]]]

\* RemoveData(v)'s search: the first node from first whose data is v.
FirstWith(m, v) ==
    LET s == NodeSeq(m)
        js == {j \in 1..Len(s) : m.data[s[j]] = v}
    IN  IF js = {} THEN NilNode ELSE s[CHOOSE j \in js : \A o \in js : j <= o]

-----------------------------------------------------------------------------
AL == INSTANCE AtomicList WITH lst <- Chain(mem),
                               busy <- [t \in Threads |-> pc[t] # "idle"]

Init ==
    /\ mem = EmptyMem
    /\ pc = [t \in Threads |-> "idle"]
    /\ op = [t \in Threads |-> [name |-> "Clear"]]
    /\ ret = [t \in Threads |-> AL!NoResult]

\* The calls that make a node.
Adds == {"AddLast", "AddFirst", "AddBefore"}

\* Bound: a call that may add a node starts only while every such call in
\* progress still has a free node.
Room(o) ==
    o.name \in Adds =>
        Len(NodeSeq(mem)) + Cardinality({u \in Threads :
                              pc[u] # "idle" /\ op[u].name \in Adds}) < MaxNodes

\* Thread t calls o.
Invoke(t, o) ==
    /\ pc[t] = "idle" /\ Room(o)
    /\ pc' = [pc EXCEPT ![t] = "call"]
    /\ op' = [op EXCEPT ![t] = o]
    /\ UNCHANGED <<mem, ret>>

\* Thread t's method returns r with the list's memory now m2.
Return(t, m2, r) ==
    /\ mem' = m2
    /\ ret' = [ret EXCEPT ![t] = r]
    /\ pc' = [pc EXCEPT ![t] = "idle"]
    /\ UNCHANGED op

\* Add(v) and AddLast(v), and AddBefore when its unlocked check saw
\* index == size.
AddLast(t) ==
    /\ \/ pc[t] = "call" /\ op[t].name = "AddLast"
       \/ pc[t] = "abLast"
    /\ Return(t, AddLastMem(mem, op[t].v, FreeNode(mem)), AL!NoResult)

AddFirst(t) ==
    /\ pc[t] = "call" /\ op[t].name = "AddFirst"
    /\ Return(t, AddFirstMem(mem, op[t].v, FreeNode(mem)), AL!NoResult)

\* AddBefore's first lines, outside the lock: the range check and the
\* index == size test both read size.
AddBeforeCheck(t) ==
    /\ pc[t] = "call" /\ op[t].name = "AddBefore"
    /\ IF op[t].i < 0 \/ op[t].i > mem.size
       THEN Return(t, mem, "range")
       ELSE /\ pc' = [pc EXCEPT ![t] = IF op[t].i = mem.size THEN "abLast"
                                                            ELSE "abLock"]
            /\ UNCHANGED <<mem, op, ret>>

\* AddBefore under the lock: getNode(index); nil gives "not found",
\* otherwise a new node goes before the target.
AddBeforeLocked(t) ==
    /\ pc[t] = "abLock"
    /\ LET target == getNode(mem, op[t].i)
       IN  IF target = NilNode
           THEN Return(t, mem, "notfound")
           ELSE Return(t, InsertBeforeMem(mem, target, op[t].v, FreeNode(mem)),
                          AL!NoResult)

\* Remove(index): the range check under the lock, then deleteNode(getNode).
Remove(t) ==
    /\ pc[t] = "call" /\ op[t].name = "Remove"
    /\ IF op[t].i < 0 \/ op[t].i >= mem.size
       THEN Return(t, mem, Nil)
       ELSE LET n == getNode(mem, op[t].i)
            IN  Return(t, deleteNode(mem, n), mem.data[n])

\* RemoveData(v): delete the first node holding v.
RemoveData(t) ==
    /\ pc[t] = "call" /\ op[t].name = "RemoveData"
    /\ LET n == FirstWith(mem, op[t].v)
       IN  IF n = NilNode THEN Return(t, mem, "false")
                          ELSE Return(t, deleteNode(mem, n), "true")

\* RemoveUntil(index): out of range is an error, else drop nodes 0..index.
RemoveUntil(t) ==
    /\ pc[t] = "call" /\ op[t].name = "RemoveUntil"
    /\ IF op[t].i < 0 \/ op[t].i >= mem.size
       THEN Return(t, mem, "range")
       ELSE Return(t, RemoveUntilMem(mem, op[t].i), AL!NoResult)

RemoveFirst(t) ==
    /\ pc[t] = "call" /\ op[t].name = "RemoveFirst"
    /\ IF mem.first = NilNode THEN Return(t, mem, Nil)
       ELSE Return(t, RemoveFirstMem(mem), mem.data[mem.first])

RemoveLast(t) ==
    /\ pc[t] = "call" /\ op[t].name = "RemoveLast"
    /\ IF mem.last = NilNode THEN Return(t, mem, Nil)
       ELSE Return(t, RemoveLastMem(mem), mem.data[mem.last])

Clear(t) ==
    /\ pc[t] = "call" /\ op[t].name = "Clear"
    /\ Return(t, ClearMem(mem), AL!NoResult)

\* Get(index): the range check, then getNode(index).data.
Get(t) ==
    /\ pc[t] = "call" /\ op[t].name = "Get"
    /\ Return(t, mem, IF op[t].i < 0 \/ op[t].i >= mem.size THEN Nil
                      ELSE mem.data[getNode(mem, op[t].i)])

Next ==
    \E t \in Threads :
        \/ \E o \in AL!Ops : Invoke(t, o)
        \/ AddLast(t) \/ AddFirst(t) \/ AddBeforeCheck(t) \/ AddBeforeLocked(t)
        \/ Remove(t) \/ RemoveData(t) \/ RemoveUntil(t)
        \/ RemoveFirst(t) \/ RemoveLast(t) \/ Clear(t) \/ Get(t)

Spec == Init /\ [][Next]_vars

-----------------------------------------------------------------------------
(***************************************************************************)
(* The pointers form one well-formed chain: from first, next reaches nil   *)
(* after exactly size nodes, the last of them is last, and each node's     *)
(* prev is the node before it (nil for first).  Every method leaves the    *)
(* list so when it unlocks.                                                *)
(***************************************************************************)
WellFormed ==
    LET s == NodeSeq(mem)
    IN  /\ Len(s) = mem.size
        /\ mem.last = IF s = <<>> THEN NilNode ELSE s[Len(s)]
        /\ s # <<>> => mem.next[s[Len(s)]] = NilNode
        /\ \A j \in 1..Len(s) : mem.prev[s[j]] = IF j = 1 THEN NilNode ELSE s[j - 1]

(***************************************************************************)
(* Linearizability: with the mutex around every method, the list refines   *)
(* AtomicList, each call taking effect at one instant between invocation   *)
(* and return, on the data the pointers chain together.                    *)
(***************************************************************************)
Linearizable == AL!Spec
=============================================================================
