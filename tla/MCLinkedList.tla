----------------------------- MODULE MCLinkedList -----------------------------
(* Index arguments for LinkedList: one below the range and every index of *)
(* a three-node list; index = size (AddBefore's AddLast path, the range    *)
(* errors above size) is reached on the shorter lists.                    *)
EXTENDS LinkedList

MCIndices == -1..2
=============================================================================
