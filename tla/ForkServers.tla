---------------------------- MODULE ForkServers ----------------------------
(***************************************************************************)
(* mid/inetd, mid/superserver, end/dupserver and end/selectserver: a       *)
(* server that accepts a client, forks, and has the child execute server1  *)
(* with the connection as its standard input and output.                   *)
(*                                                                         *)
(*               waits in   child closes   parent closes   parent waits    *)
(*               select     the sockets    the connection  for the child   *)
(* inetd           x             x               x                         *)
(* superserver     x             x               x               x         *)
(* dupserver                                                               *)
(* selectserver    x                                                       *)
(*                                                                         *)
(* When server1 is missing the child stays in the server's loop.           *)
(***************************************************************************)
EXTENDS Naturals, Sequences, FiniteSetsExt

CONSTANTS
    Clients,    \* client processes
    NPorts,     \* the ports of inetd and selectserver (max_clients)
    MaxProcs,   \* the processes the system allows, zombies included
    MaxFds,     \* the connections the descriptor table of a process holds
    MaxLost,    \* bound: clients that connect when server1 is missing
    Nobody      \* not a client: a descriptor of -1

VARIABLES
    kind,       \* the program
    present,    \* can server1 be executed
    badlen,     \* is the uninitialised len of accept negative
    queue,      \* queue[p]: the backlog of port p
    pc,         \* pc[q]: "none", "select", "scan", "wait", "server1" or "zombie"
    ready,      \* ready[q]: what is left of q's set of ports
    fds,        \* fds[q]: the connections q holds
    nfd,        \* nfd[q]: the connection q has as standard input
    child,      \* child[q]: the child q waits for
    client,     \* client[c]: "off", "connected", "sent", "answered" or "gone"
    signalled   \* did the user send SIGUSR1

vars == <<kind, present, badlen, queue, pc, ready, fds, nfd, child, client, signalled>>
given == <<kind, present, badlen>>

Procs == 0 .. MaxProcs - 1
Kinds == {"inetd", "superserver", "dupserver", "selectserver"}
Ports == IF kind \in {"inetd", "selectserver"} THEN 1 .. NPorts ELSE {1}
Closes == kind \in {"inetd", "superserver"}

Init ==
    /\ kind \in Kinds /\ present \in BOOLEAN /\ badlen \in BOOLEAN
    /\ badlen => Closes
    /\ queue = [p \in 1 .. NPorts |-> <<>>]
    /\ pc = [q \in Procs |-> IF q = 0 THEN "select" ELSE "none"]
    /\ ready = [q \in Procs |-> {}] /\ fds = [q \in Procs |-> {}]
    /\ nfd = [q \in Procs |-> Nobody] /\ child = [q \in Procs |-> 0]
    /\ client = [c \in Clients |-> "off"] /\ signalled = FALSE

(***************************************************************************)
(* The clients                                                             *)
(***************************************************************************)
Connect(c) ==
    /\ client[c] = "off"
    /\ present \/ Cardinality({d \in Clients : client[d] # "off"}) < MaxLost
    /\ client' = [client EXCEPT ![c] = "connected"]
    /\ \E p \in Ports : queue' = [queue EXCEPT ![p] = Append(@, c)]
    /\ UNCHANGED <<given, pc, ready, fds, nfd, child, signalled>>

Become(c, state) ==
    /\ client' = [client EXCEPT ![c] = state]
    /\ UNCHANGED <<given, queue, pc, ready, fds, nfd, child, signalled>>

Send(c) == client[c] = "connected" /\ Become(c, "sent")

\* the user ends it; only the client of inetd goes on after an answer
Leave(c) ==
    /\ client[c] \in {"connected", "sent"} \/ (client[c] = "answered" /\ kind = "inetd")
    /\ Become(c, "gone")

\* a connection that nobody holds any more ends its client
Hangup(c) ==
    /\ client[c] \in {"connected", "sent"}
    /\ \A p \in Ports : c \notin Range(queue[p])
    /\ \A q \in Procs : c \notin fds[q]
    /\ Become(c, "gone")

(***************************************************************************)
(* The server, and the children that failed to execute server1             *)
(***************************************************************************)
Listens(q) == q = 0 \/ ~Closes
Full(q) == Cardinality(fds[q]) >= MaxFds
Free == {r \in Procs : pc[r] = "none"}

\* with its sockets closed, select fails and leaves the set as it was
Select(q) ==
    /\ pc[q] = "select"
    /\ ready' = [ready EXCEPT ![q] =
           IF kind = "dupserver" \/ ~Listens(q) THEN Ports
           ELSE {p \in Ports : queue[p] # <<>>}]
    /\ ready'[q] # {}
    /\ pc' = [pc EXCEPT ![q] = "scan"]
    /\ UNCHANGED <<given, queue, fds, nfd, child, client, signalled>>

\* handler_func runs, select fails with EINTR and leaves every port in the set
handler_func ==
    /\ kind = "selectserver" /\ pc[0] = "select"
    /\ ready' = [ready EXCEPT ![0] = Ports]
    /\ pc' = [pc EXCEPT ![0] = "scan"]
    /\ signalled' = TRUE
    /\ UNCHANGED <<given, queue, fds, nfd, child, client>>

Loop(rest) == IF rest = {} THEN "select" ELSE "scan"
Waits == kind = "superserver"

\* fork, with c the accepted connection or Nobody and rest the ports still to be looked at;
\* nothing looks at a fork that failed
Fork(q, c, rest) ==
    LET conn == {c} \ {Nobody}
        after == IF Closes /\ ~(Waits /\ Free # {}) THEN fds[q] ELSE fds[q] \cup conn
        r == Min(Free)
        mine == IF kind = "inetd" THEN {} ELSE rest
        \* the loader needs a descriptor to open the libraries
        runs == IF ~present THEN Loop(mine)
                ELSE IF Cardinality(fds[q] \cup conn) >= MaxFds THEN "zombie" ELSE "server1"
    IN IF Free = {}
       THEN /\ pc' = [pc EXCEPT ![q] = Loop(rest)]
            /\ ready' = [ready EXCEPT ![q] = rest]
            /\ fds' = [fds EXCEPT ![q] = after]
            /\ UNCHANGED <<nfd, child>>
       ELSE /\ pc' = [pc EXCEPT ![q] = IF Waits THEN "wait" ELSE Loop(rest), ![r] = runs]
            /\ ready' = [ready EXCEPT ![q] = rest, ![r] = mine]
            /\ fds' = [fds EXCEPT ![q] = after,
                                  ![r] = IF runs = "zombie" THEN {} ELSE fds[q] \cup conn]
            /\ nfd' = [nfd EXCEPT ![r] = c]
            /\ child' = [child EXCEPT ![q] = r]

\* accept on the next port: it blocks when the backlog is empty; it fails at once when the
\* socket is closed or the descriptors are used up, and loses the client when len is negative
Accept(q) ==
    /\ pc[q] = "scan"
    /\ LET p == Min(ready[q])
           fails == ~Listens(q) \/ Full(q)
       IN /\ fails \/ queue[p] # <<>>
          /\ queue' = IF fails THEN queue ELSE [queue EXCEPT ![p] = Tail(@)]
          /\ Fork(q, IF fails \/ badlen THEN Nobody ELSE Head(queue[p]), ready[q] \ {p})
    /\ UNCHANGED <<given, client, signalled>>

\* wait returns, and the connection is closed
Reap(q) ==
    /\ pc[q] = "wait" /\ pc[child[q]] = "zombie"
    /\ pc' = [pc EXCEPT ![q] = "select", ![child[q]] = "none"]
    /\ fds' = [fds EXCEPT ![q] = IF q = 0 THEN {} ELSE @]
    /\ UNCHANGED <<given, queue, ready, nfd, child, client, signalled>>

(***************************************************************************)
(* server1                                                                 *)
(***************************************************************************)
Exit(r) ==
    /\ pc' = [pc EXCEPT ![r] = "zombie"]
    /\ fds' = [fds EXCEPT ![r] = {}]

\* only the server1 of inetd goes on after an answer
Answer(r) ==
    /\ pc[r] = "server1" /\ nfd[r] # Nobody /\ client[nfd[r]] = "sent"
    /\ client' = [client EXCEPT ![nfd[r]] = "answered"]
    /\ IF kind = "inetd" THEN UNCHANGED <<pc, fds>> ELSE Exit(r)
    /\ UNCHANGED <<given, queue, ready, nfd, child, signalled>>

\* the client left; or recv fails on the terminal, which inetd's server1 goes on reading
End(r) ==
    /\ pc[r] = "server1"
    /\ IF nfd[r] = Nobody THEN kind = "superserver" ELSE client[nfd[r]] = "gone"
    /\ Exit(r)
    /\ UNCHANGED <<given, queue, ready, nfd, child, client, signalled>>

ServerStep(q) == Select(q) \/ Accept(q) \/ Reap(q) \/ Answer(q) \/ End(q)
ClientStep(c) == Connect(c) \/ Send(c) \/ Leave(c) \/ Hangup(c)
Next ==
    \/ handler_func
    \/ \E q \in Procs : ServerStep(q)
    \/ \E c \in Clients : ClientStep(c)

-----------------------------------------------------------------------------
\* The variables have their types.
TypeOK ==
    /\ kind \in Kinds
    /\ pc \in [Procs -> {"none", "select", "scan", "wait", "server1", "zombie"}]
    /\ ready \in [Procs -> SUBSET (1 .. NPorts)] /\ fds \in [Procs -> SUBSET Clients]
    /\ nfd \in [Procs -> Clients \cup {Nobody}] /\ child \in [Procs -> Procs]
    /\ client \in [Clients -> {"off", "connected", "sent", "answered", "gone"}]

\* A client never has two servers at its connection, and the clients of superserver are
\* served one at a time.
OneServer ==
    \A r, s \in Procs : r # s /\ pc[r] = "server1" /\ pc[s] = "server1" =>
        kind # "superserver" /\ (nfd[r] = Nobody \/ nfd[r] # nfd[s])

\* A server that waits in select does not block in accept, unless a signal interrupted
\* select or a child that could not execute server1 serves the same ports.
Blocked(q) == pc[q] = "scan" /\ Listens(q) /\ ~Full(q) /\ queue[Min(ready[q])] = <<>>
NoBlockedAccept ==
    \A q \in Procs : Blocked(q) =>
        kind = "dupserver" \/ signalled \/ (~present /\ ~Closes)

\* who waits at p still waits, at the same place
QueueKept(p) ==
    /\ Len(queue[p]) <= Len(queue'[p])
    /\ SubSeq(queue'[p], 1, Len(queue[p])) = queue[p]

\* Connections that are never closed use up the descriptors: from then on nobody is
\* accepted, although clients can still connect.
DeafForEver ==
    [][present /\ ~Closes /\ Full(0) =>
        Full(0)' /\ \A p \in Ports : QueueKept(p)]_vars

\* Children that are never waited for use up the processes: from then on nobody gets a
\* server any more.
TableFullForEver ==
    [][kind # "superserver" /\ Free = {} => Free' = {} /\ nfd' = nfd]_vars

\* Without server1 the first client of inetd or superserver sets off forks that end only
\* when the processes are used up.
Forking == ~present /\ Closes /\ pc[1] # "none" /\ Free # {}

\* A client that is to be answered, or to leave: unless server1 is missing,
\* len was negative, a signal came, the descriptors or processes are used up, or a client
\* of superserver has connected and does not send.
Unserved(c) ==
    /\ client[c] = "sent" /\ present /\ ~badlen /\ ~signalled /\ ~Full(0) /\ Free # {}
    /\ kind = "superserver" => \A d \in Clients : client[d] # "connected"
=============================================================================
