---------------------------- MODULE AtLeastOnce ----------------------------
(***************************************************************************)
(* What a remote service over an unreliable network promises when neither  *)
(* side remembers what was done: a call that was asked for is executed any *)
(* number of times, at any later moment, and its caller gets the result of *)
(* one of its own executions or the message that the call failed.          *)
(***************************************************************************)
EXTENDS Naturals, Sequences

CONSTANTS
    Clients,        \* the processes that call
    Lines,          \* what a call can ask for
    None,           \* no result: the call failed
    Serve(_, _),    \* [server |-> ..., up |-> ..., res |-> ...] of one execution
    Boot(_)         \* the state a restarted service begins with

VARIABLES
    server,         \* the state of the service
    asked,          \* asked[c]: what c asked for, in order
    runs,           \* runs[c][n]: the results of the executions of call n
    got             \* got[c]: the calls of c that ended, with their results

vars == <<server, asked, runs, got>>

Init ==
    /\ asked = [c \in Clients |-> <<>>]
    /\ runs = [c \in Clients |-> <<>>]
    /\ got = [c \in Clients |-> <<>>]

Ask(c) ==
    /\ Len(got[c]) = Len(asked[c])
    /\ \E l \in Lines : asked' = [asked EXCEPT ![c] = Append(@, l)]
    /\ runs' = [runs EXCEPT ![c] = Append(@, <<>>)]
    /\ UNCHANGED <<server, got>>

Execute(c) ==
    /\ UNCHANGED <<asked, got>>
    /\ \E n \in DOMAIN asked[c] :
           LET s == Serve(server, asked[c][n]) IN
           server' = s.server /\ runs' = [runs EXCEPT ![c][n] = Append(@, s.res)]

Answer(c) ==
    /\ Len(got[c]) < Len(asked[c])
    /\ \E r \in {None} \cup {runs[c][Len(asked[c])][i] :
                               i \in DOMAIN runs[c][Len(asked[c])]} :
           got' = [got EXCEPT ![c] = Append(@, r)]
    /\ UNCHANGED <<server, asked, runs>>

Restart ==
    /\ UNCHANGED <<asked, runs, got>>
    /\ server' = Boot(server)

Next == Restart \/ \E c \in Clients : Ask(c) \/ Execute(c) \/ Answer(c)

Spec == Init /\ [][Next]_vars
=============================================================================
