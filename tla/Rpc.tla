-------------------------------- MODULE Rpc --------------------------------
(***************************************************************************)
(* The ONC RPC programs of the repository over UDP: rpcgen's client stub   *)
(* (nfs_clnt.c) and server loop (nfs_svc.c), and the main programs of the  *)
(* clients around them.  What the procedures compute is a parameter.       *)
(*                                                                         *)
(* clnt_call sends the request again while no answer comes and gives up    *)
(* after TIMEOUT; an answer is recognised by its transaction id.  svc_run  *)
(* takes one datagram at a time and keeps no record of what it executed.   *)
(* A datagram in flight may arrive late, in any order, or never; a lost    *)
(* one is one that is never taken.                                         *)
(***************************************************************************)
EXTENDS Naturals, Sequences, FiniteSetsExt

CONSTANTS
    Clients,        \* client processes
    Lines,          \* what a user types: [word, args]
    Kind(_),        \* "call", "usage" or "exit": what the client does with a line
    Loops,          \* TRUE: the client reads lines until exit; FALSE: one call
    None,           \* the NULL a stub returns when the call failed
    InitServer,     \* the server's data when it is started first
    Boot(_),        \* what a new server process finds
    Serve(_, _),    \* one execution: [server |-> ..., up |-> ..., res |-> ...]
    MaxCalls,       \* bound: lines typed, all clients together
    MaxTries,       \* TIMEOUT / 5 s: transmissions of one request
    MaxStarts       \* bound: how often the server is started

VARIABLES
    server,         \* the data of the server process
    gen,            \* how often it was registered; names the port of the last one
    up,             \* is the process alive
    bound,          \* bound[c]: the gen c's handle points to, 0 before clnt_create
    state,          \* state[c]: "ready", "calling", "ended" or "crashed"
    asked,          \* asked[c]: the lines of c that became calls
    sent,           \* sent[c][n]: transmissions of call n
    log,            \* log[c]: the results the stubs of c returned, in order
    requests,       \* datagrams to the server
    replies,        \* datagrams to the clients
    runs            \* runs[c][n]: the results of the executions of call n

vars == <<server, gen, up, bound, state, asked, sent, log, requests, replies, runs>>
conn == <<gen, up, bound>>

Typed == FoldSet(LAMBDA c, n : n + Len(asked[c]), 0, Clients)
LastCall(c) == Len(asked[c])

Init ==
    /\ server = InitServer /\ gen = 0 /\ up = FALSE
    /\ bound = [c \in Clients |-> 0]
    /\ state = [c \in Clients |-> "ready"]
    /\ asked = [c \in Clients |-> <<>>]
    /\ sent = [c \in Clients |-> <<>>]
    /\ log = [c \in Clients |-> <<>>]
    /\ runs = [c \in Clients |-> <<>>]
    /\ requests = {} /\ replies = {}

(***************************************************************************)
(* The server: registration with the portmapper, then svc_run.  A new      *)
(* process has a new port, so that no datagram for an old one reaches it.  *)
(***************************************************************************)
Register ==
    /\ ~up /\ gen < MaxStarts
    /\ gen' = gen + 1 /\ up' = TRUE
    /\ server' = Boot(server)
    /\ UNCHANGED <<bound, state, asked, sent, log, requests, replies, runs>>

\* a server that leaves the datagram in the socket
DispatchPeeks(r) ==
    LET s == Serve(server, r.line) IN
    /\ up /\ r.gen = gen /\ Len(runs[r.from][r.call]) < MaxTries
    /\ server' = s.server /\ up' = s.up
    /\ runs' = [runs EXCEPT ![r.from][r.call] = Append(@, s.res)]
    /\ replies' = replies \cup {[to |-> r.from, call |-> r.call, res |-> s.res]}
    /\ UNCHANGED <<gen, bound, state, asked, sent, log, requests>>

\* svc_run executes one request and answers; a procedure that crashes does not
Dispatch(r) ==
    LET s == Serve(server, r.line) IN
    /\ up /\ r.gen = gen
    /\ server' = s.server /\ up' = s.up
    /\ requests' = requests \ {r}
    /\ runs' = [runs EXCEPT ![r.from][r.call] = Append(@, s.res)]
    /\ replies' = IF s.up
                  THEN replies \cup {[to |-> r.from, call |-> r.call, res |-> s.res]}
                  ELSE replies
    /\ UNCHANGED <<gen, bound, state, asked, sent, log>>

(***************************************************************************)
(* The client: clnt_create, then one call, or a loop over typed lines.     *)
(***************************************************************************)
clnt_create(c) ==
    /\ state[c] = "ready" /\ bound[c] = 0
    /\ IF gen = 0
       THEN state' = [state EXCEPT ![c] = "ended"] /\ UNCHANGED bound
       ELSE bound' = [bound EXCEPT ![c] = gen] /\ UNCHANGED state
    /\ UNCHANGED <<server, gen, up, asked, sent, log, requests, replies, runs>>

Request(c, l, n, t) == [from |-> c, call |-> n, line |-> l, gen |-> bound[c], try |-> t]

\* a well-formed line: the stub sends the request and waits
Call(c, l) ==
    /\ state[c] = "ready" /\ bound[c] > 0 /\ Kind(l) = "call" /\ Typed < MaxCalls
    /\ state' = [state EXCEPT ![c] = "calling"]
    /\ asked' = [asked EXCEPT ![c] = Append(@, l)]
    /\ sent' = [sent EXCEPT ![c] = Append(@, 1)]
    /\ runs' = [runs EXCEPT ![c] = Append(@, <<>>)]
    /\ requests' = requests \cup {Request(c, l, Len(asked[c]) + 1, 1)}
    /\ UNCHANGED <<server, conn, log, replies>>

\* `exit' ends the client; a usage error or an unknown word only prints
Exit(c, l) ==
    /\ state[c] = "ready" /\ bound[c] > 0 /\ Kind(l) = "exit"
    /\ state' = [state EXCEPT ![c] = "ended"]
    /\ UNCHANGED <<server, conn, asked, sent, log, requests, replies, runs>>

\* five seconds without an answer: clnt_call sends the request again
Retransmit(c) ==
    /\ state[c] = "calling" /\ sent[c][LastCall(c)] < MaxTries
    /\ requests' = requests \cup
           {Request(c, asked[c][LastCall(c)], LastCall(c), sent[c][LastCall(c)] + 1)}
    /\ sent' = [sent EXCEPT ![c][LastCall(c)] = @ + 1]
    /\ UNCHANGED <<server, conn, state, asked, log, replies, runs>>

\* only an answer with the id of the call in progress is taken
MatchesAny(c, r) == r.to = c

Matches(c, r) == r.to = c /\ r.call = LastCall(c)

Return(c, res) ==
    /\ state' = [state EXCEPT ![c] = IF Loops THEN "ready"
                                     ELSE IF res = None THEN "crashed" ELSE "ended"]
    /\ log' = [log EXCEPT ![c] = Append(@, res)]
    /\ UNCHANGED <<server, conn, asked, sent, requests, runs>>

Answered(c) ==
    /\ state[c] = "calling"
    /\ \E r \in replies : Matches(c, r) /\ Return(c, r.res) /\ replies' = replies \ {r}

\* TIMEOUT, or the refusal of a port nobody listens on any more: the stub returns
\* NULL; nfs_client.c prints "call failed" and goes on, the clients with one call
\* follow the pointer
CallFailsOnlyRefused(c) ==
    /\ state[c] = "calling"
    /\ ~(up /\ bound[c] = gen)
    /\ Return(c, None)
    /\ UNCHANGED replies

CallFails(c) ==
    /\ state[c] = "calling"
    /\ sent[c][LastCall(c)] = MaxTries \/ ~(up /\ bound[c] = gen)
    /\ Return(c, None)
    /\ UNCHANGED replies

\* clnt_call while it waits
Poll(c) == Retransmit(c) \/ Answered(c) \/ CallFails(c)

ClientStep(c) ==
    \/ clnt_create(c) \/ Poll(c)
    \/ \E l \in Lines : Call(c, l) \/ Exit(c, l)

Next ==
    \/ Register
    \/ \E r \in requests : Dispatch(r)
    \/ \E c \in Clients : ClientStep(c)

Spec == Init /\ [][Next]_vars
-----------------------------------------------------------------------------
(***************************************************************************)
(* Properties                                                              *)
(***************************************************************************)

\* The variables have their types: a client has at most one call in progress,
\* and what is in flight belongs to calls that were made.
TypeOK ==
    /\ gen \in 0 .. MaxStarts /\ up \in BOOLEAN
    /\ bound \in [Clients -> 0 .. MaxStarts]
    /\ state \in [Clients -> {"ready", "calling", "ended", "crashed"}]
    /\ \A c \in Clients :
           /\ Len(sent[c]) = Len(asked[c]) /\ Len(runs[c]) = Len(asked[c])
           /\ Len(log[c]) = Len(asked[c]) - (IF state[c] = "calling" THEN 1 ELSE 0)
           /\ \A n \in DOMAIN sent[c] : sent[c][n] \in 1 .. MaxTries
    /\ \A r \in requests : r.call \in DOMAIN asked[r.from] /\ r.gen <= gen
    /\ \A r \in replies : r.call \in DOMAIN asked[r.to]

\* The server executes a call at most once for each transmission of its request,
\* although it keeps no record of what it executed.
RunsWithinSent ==
    \A c \in Clients : \A n \in DOMAIN runs[c] : Len(runs[c][n]) <= sent[c][n]

\* A client that has one server process to itself, and whose calls were answered
\* before their first retransmission.
Quick(c) ==
    /\ gen = 1 /\ state[c] # "calling"
    /\ \A d \in Clients \ {c} : asked[d] = <<>>
    /\ \A n \in DOMAIN asked[c] : sent[c][n] = 1 /\ log[c][n] # None
=============================================================================
