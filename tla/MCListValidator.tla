--------------------------- MODULE MCListValidator ----------------------------------
(***************************************************************************)
(* Two components checked for safety in one run: the initial state picks  *)
(* whether goroutines call the methods of a basic.LinkedList               *)
(* (MCLinkedList) or Validate (MCValidator, extended here); the other     *)
(* stays in its initial state.  They share no state in the code, so the   *)
(* state space is the sum of the two, and the properties of one hold      *)
(* trivially while the other runs.  Both modules call their program       *)
(* counter pc; the list's is renamed lpc.                                 *)
(***************************************************************************)
EXTENDS MCValidator

CONSTANTS Threads, Vals, Nil, Indices, MaxNodes     \* LinkedList

VARIABLES
    mem, lpc, op, ret,      \* LinkedList
    role                    \* "list" or "validator"

LL == INSTANCE MCLinkedList WITH pc <- lpc

\* The index arguments of MCLinkedList.
MCIndices == -1..2

lvars == <<mem, lpc, op, ret>>
mvars == <<lvars, vars, role>>

SumInit == role \in {"list", "validator"} /\ LL!Init /\ Init

\* A step of the list's or of the validator's model.
LStep(act) == role = "list" /\ act /\ UNCHANGED <<vars, role>>
VStep(act) == role = "validator" /\ act /\ UNCHANGED <<lvars, role>>

SumNext == LStep(LL!Next) \/ VStep(Next)

\* Neither model has fairness: only safety is checked.
SumSpec == SumInit /\ [][SumNext]_mvars

-----------------------------------------------------------------------------
\* The list's chain stays well formed (LinkedList!WellFormed).
WellFormed == LL!WellFormed

\* Each method implements its AtomicList operation (LinkedList!Linearizable,
\* AtomicList's Spec under the list's refinement mapping).  A step that
\* leaves the list's variables alone leaves the mapped ones alone too; it
\* is tested first, so the validator's steps cost no evaluation of
\* AtomicList's Next.
Linearizable ==
    LL!AL!Init /\ [][UNCHANGED lvars \/ LL!AL!Next]_(LL!AL!avars)

\* Validate agrees with the tags: Validator!ValidateAgreesWithTags, which
\* this module extends, holds trivially while the list runs.
=============================================================================
