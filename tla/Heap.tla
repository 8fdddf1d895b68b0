-------------------------------- MODULE Heap --------------------------------
(***************************************************************************)
(* mid/heap.c: a binary heap in an array with a sentinel at index 0.  The  *)
(* sifting loops of Insert and DeleteMin are steps of their own.           *)
(***************************************************************************)
EXTENDS Integers, Sequences, Bags, FiniteSets

CONSTANTS
    Values,     \* what is entered; one of them may lie below the sentinel, as INT_MIN does
    Sentinel,   \* -INT_MAX
    MaxSize     \* bound: number_of_elements

VARIABLES
    heap, heapSize,
    todo,       \* elements main still reads
    pc,         \* "main", "up" (in Insert), "down" (in DeleteMin)
    element,    \* the parameter of Insert, or lastElement
    now,
    out         \* what was printed

vars == <<heap, heapSize, todo, pc, element, now, out>>

Init ==
    /\ heap = [k \in 0 .. MaxSize |-> IF k = 0 THEN Sentinel ELSE 0]
    /\ heapSize = 0 /\ todo \in 1 .. MaxSize /\ pc = "main"
    /\ element = 0 /\ now = 0 /\ out = <<>>

Insert ==
    /\ pc = "main" /\ todo > 0
    /\ \E v \in Values : element' = v
    /\ heapSize' = heapSize + 1 /\ todo' = todo - 1
    /\ heap' = [heap EXCEPT ![heapSize + 1] = element']
    /\ now' = heapSize + 1 /\ pc' = "up"
    /\ UNCHANGED out

AboveOrEqual == heap[now \div 2] >= element
Above == heap[now \div 2] > element

\* below the sentinel this goes on at index 0 for ever
SiftUp ==
    /\ pc = "up" /\ Above
    /\ heap' = [heap EXCEPT ![now] = heap[now \div 2]]
    /\ now' = now \div 2
    /\ UNCHANGED <<heapSize, todo, pc, element, out>>

Inserted ==
    /\ pc = "up" /\ ~Above
    /\ heap' = [heap EXCEPT ![now] = element]
    /\ pc' = "main"
    /\ UNCHANGED <<heapSize, todo, element, now, out>>

DeleteMin ==
    /\ pc = "main" /\ todo = 0 /\ heapSize > 0
    /\ out' = Append(out, heap[1])
    /\ element' = heap[heapSize] /\ heapSize' = heapSize - 1
    /\ now' = 1 /\ pc' = "down"
    /\ UNCHANGED <<heap, todo>>

Child ==
    IF 2 * now # heapSize /\ heap[2 * now + 1] < heap[2 * now] THEN 2 * now + 1 ELSE 2 * now

HasChild == 2 * now <= heapSize

SiftDown ==
    /\ pc = "down" /\ HasChild
    /\ element > heap[Child]
    /\ heap' = [heap EXCEPT ![now] = heap[Child]]
    /\ now' = Child
    /\ UNCHANGED <<heapSize, todo, pc, element, out>>

Deleted ==
    /\ pc = "down" /\ (HasChild => element <= heap[Child])
    /\ heap' = [heap EXCEPT ![now] = element]
    /\ pc' = "main"
    /\ UNCHANGED <<heapSize, todo, element, now, out>>

Step == SiftUp \/ Inserted \/ DeleteMin \/ SiftDown \/ Deleted
Next == Insert \/ Step

-----------------------------------------------------------------------------
\* While no Insert or DeleteMin is running, parents are not above their children.
HeapOrder ==
    pc = "main" => \A k \in 2 .. heapSize : heap[k \div 2] <= heap[k]

\* The elements in the array: the loops carry a hole for the element in hand.
At(k) == IF pc # "main" /\ (k = now \/ (k = 1 /\ now = 0)) THEN element ELSE heap[k]
held ==
    [v \in {At(k) : k \in 1 .. heapSize} |-> Cardinality({k \in 1 .. heapSize : At(k) = v})]

\* The heap puts and takes as the priority queue does, one element at a time.
Queue == INSTANCE PriorityQueue
IsPriorityQueue == Queue!Spec

\* Whoever inserts a value below the sentinel never comes back.
Lost == pc = "up" /\ element < Sentinel
LostForEver == [][Lost => Lost']_vars

\* Once the input is read everything is printed, or the last Insert never ends.
Printed == todo = 0 ~> (Lost \/ (heapSize = 0 /\ pc = "main"))
=============================================================================
