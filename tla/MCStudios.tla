----------------------------- MODULE MCStudios -----------------------------
EXTENDS Studios

Wish(setIds, actorIds) ==
    [sets |-> Len(setIds), actors |-> Len(actorIds),
     sets_list |-> setIds, actor_list |-> actorIds]

\* (the script's sets are the director's actors, and the other way round)
MCWishes == {Wish(<<1>>, <<1>>), Wish(<<2, 1>>, <<1>>), Wish(<<>>, <<1, 2>>),
             Wish(<<1>>, <<2, 1, 3>>)}
\* set 2 is asked for in vain; nobody asks for actor 3
TwoMissing == Resources \ {<<"set", 2>>, <<"actor", 3>>}
=============================================================================
