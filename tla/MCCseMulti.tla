----------------------------- MODULE MCCseMulti -----------------------------
EXTENDS CseMulti, TLC

\* every class server has one ticket: three clients fill the chain
OneEach == [t \in Tiers |-> 1]
\* ... and two at e, so that a phantom and a client can share a server
TwoAtE == [c |-> 1, s |-> 1, e |-> 2]

ClientSymmetry == Permutations(Clients)
=============================================================================
