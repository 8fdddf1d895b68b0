--------------------------- MODULE PriorityQueue ---------------------------
(***************************************************************************)
(* What mid/heap.c promises: elements go in, and the least comes out.      *)
(***************************************************************************)
EXTENDS Integers, Sequences, Bags, FiniteSets

CONSTANTS Values

VARIABLES
    held,       \* the bag of elements
    out         \* what was printed

Init == held = EmptyBag /\ out = <<>>
Put == \E v \in Values : held' = held (+) SetToBag({v}) /\ UNCHANGED out
TakeLeast ==
    \E v \in BagToSet(held) :
        /\ \A w \in BagToSet(held) : v <= w
        /\ held' = held (-) SetToBag({v})
        /\ out' = Append(out, v)

Next == Put \/ TakeLeast
Spec == Init /\ [][Next]_<<held, out>>
=============================================================================
