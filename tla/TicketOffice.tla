---------------------------- MODULE TicketOffice ----------------------------
(***************************************************************************)
(* What the programs of unixsockets/csemulti promise together: tickets of   *)
(* three classes, each in limited supply. A client is entitled to a ticket  *)
(* of its class or, when that class is sold out, of the next one that is    *)
(* not. The office closes when the last class is sold out. Once a client    *)
(* has walked out, or the office is closing, the supply also drains away    *)
(* into phantom tickets that belong to nobody.                              *)
(***************************************************************************)
EXTENDS Naturals, Sequences

CONSTANTS Clients, Junk, MaxClients

Tiers == {"c", "s", "e"}
Rank == [c |-> 1, s |-> 2, e |-> 3]

VARIABLES
    class,     \* the class a client asks for, 0 while it has not asked
    sold,      \* the owners of the tickets of each class, in order of sale
    left,      \* some client has left
    closing    \* the office is closing

vars == <<class, sold, left, closing>>

Init ==
    /\ class = [c \in Clients |-> 0]
    /\ sold = [t \in Tiers |-> <<>>]
    /\ left = FALSE
    /\ closing = FALSE

SoldOut(t) == Len(sold[t]) >= MaxClients[t]
Owns(c, t) == \E i \in 1..Len(sold[t]) : sold[t][i] = c

Ask(c, n) ==
    /\ class[c] = 0
    /\ class' = [class EXCEPT ![c] = n]
    /\ UNCHANGED <<sold, left, closing>>

\* c gets a ticket of class t: the cheapest one left from its own class upwards
Sell(c, t) ==
    /\ class[c] \in 1..Rank[t]
    /\ ~SoldOut(t)
    /\ \A u \in Tiers : Rank[u] \in class[c]..(Rank[t] - 1) => SoldOut(u)
    /\ \A u \in Tiers : ~Owns(c, u)
    /\ sold' = [sold EXCEPT ![t] = Append(@, c)]
    /\ UNCHANGED <<class, left, closing>>

\* a ticket goes to nobody
Waste(t) ==
    /\ left \/ closing
    /\ ~SoldOut(t)
    /\ sold' = [sold EXCEPT ![t] = Append(@, Junk)]
    /\ UNCHANGED <<class, left, closing>>

Leave ==
    /\ left' = TRUE
    /\ UNCHANGED <<class, sold, closing>>

Close ==
    /\ SoldOut("e") \/ left
    /\ closing' = TRUE
    /\ UNCHANGED <<class, sold, left>>

Next ==
    \/ \E c \in Clients, n \in 1..3 : Ask(c, n)
    \/ \E c \in Clients, t \in Tiers : Sell(c, t)
    \/ \E t \in Tiers : Waste(t)
    \/ Leave
    \/ Close

Spec == Init /\ [][Next]_vars
=============================================================================
