------------------------------ MODULE Workers ------------------------------
(***************************************************************************)
(* The service programs of mid/mss, mid/tss, mid/multithreaded and         *)
(* mid/prethreaded: main accepts a connection into one variable and hands  *)
(* the ADDRESS of that variable to a new thread, which reads the           *)
(* descriptor when it gets to run; in prethreaded the threads accept for   *)
(* themselves.  The i-th connection kept has descriptor i: one that is     *)
(* refused is closed before the next accept, which gets its number again.  *)
(***************************************************************************)
EXTENDS Naturals, Sequences, Functions

CONSTANTS
    Clients,    \* client processes
    Services,   \* service programs
    Nobody,     \* no service
    Limit,      \* Limit[s]: the threads service s has room for
    Refusing,   \* the services that count them
    Pre         \* the services whose threads accept

VARIABLES
    service,    \* service[s]: "off", "starting", "up" (listening), "dead"
    backlog,    \* backlog[s]: connections not accepted yet
    conn,       \* conn[s]: the connections by descriptor
    nfd,        \* nfd[s]: the variable accept assigns (0: not yet)
    thread,     \* thread[s]: the descriptor of each thread; 0: it has not read nfd
    client,     \* client[c]: "off", "asked", "told", "talking", "gone"
    port,       \* port[c]: the service whose port c was told
    answered    \* clients that got an answer of a service

wvars == <<service, backlog, conn, nfd, thread, client, port, answered>>

WInit ==
    /\ backlog = [s \in Services |-> <<>>] /\ conn = [s \in Services |-> <<>>]
    /\ nfd = [s \in Services |-> 0] /\ thread = [s \in Services |-> <<>>]
    /\ client = [c \in Clients |-> "off"] /\ port = [c \in Clients |-> Nobody]
    /\ answered = {}

Up(s) == s \in Services /\ service[s] = "up"

(***************************************************************************)
(* The client, once it knows a port.  A send on a socket that is not       *)
(* connected, or that the peer closed, ends the process (SIGPIPE).         *)
(***************************************************************************)
Connect(c) ==
    /\ client[c] = "told"
    /\ IF Up(port[c])
       THEN /\ backlog' = [backlog EXCEPT ![port[c]] = Append(@, c)]
            /\ client' = [client EXCEPT ![c] = "talking"]
       ELSE client' = [client EXCEPT ![c] = "gone"] /\ UNCHANGED backlog
    /\ UNCHANGED <<service, conn, nfd, thread, port, answered>>

Held(c, s) == c \in Range(backlog[s]) \cup Range(conn[s])

\* the service closed the connection or is dead
Hangup(c) ==
    /\ client[c] = "talking" /\ ~Held(c, port[c])
    /\ client' = [client EXCEPT ![c] = "gone"]
    /\ UNCHANGED <<service, backlog, conn, nfd, thread, port, answered>>

\* the user interrupts it
Leave(c) ==
    /\ client[c] \in {"asked", "told", "talking"}
    /\ client' = [client EXCEPT ![c] = "gone"]
    /\ UNCHANGED <<service, backlog, conn, nfd, thread, port, answered>>

(***************************************************************************)
(* The service                                                             *)
(***************************************************************************)
Listen(s) ==
    /\ service[s] = "starting"
    /\ service' = [service EXCEPT ![s] = "up"]
    /\ UNCHANGED <<backlog, conn, nfd, thread, client, port, answered>>

AcceptElsewhere(s) ==
    /\ Up(s) /\ s \notin Pre /\ backlog[s] # <<>> /\ Len(conn[s]) = Len(thread[s])
    /\ conn' = [conn EXCEPT ![s] = Append(@, Head(backlog[s]))]
    /\ backlog' = [backlog EXCEPT ![s] = Tail(@)]
    /\ UNCHANGED <<service, nfd, thread, client, port, answered>>

\* main is in accept when every connection it keeps has a thread
Accept(s) ==
    /\ Up(s) /\ s \notin Pre /\ backlog[s] # <<>> /\ Len(conn[s]) = Len(thread[s])
    /\ conn' = [conn EXCEPT ![s] = Append(@, Head(backlog[s]))]
    /\ nfd' = [nfd EXCEPT ![s] = Len(conn[s]) + 1]
    /\ backlog' = [backlog EXCEPT ![s] = Tail(@)]
    /\ UNCHANGED <<service, thread, client, port, answered>>

HasRoom(s) == Len(thread[s]) < Limit[s]

\* Who does not count writes threads[count++] past the array in the end ...
Spawn(s) ==
    /\ Len(conn[s]) > Len(thread[s]) /\ (s \in Refusing => HasRoom(s))
    /\ thread' = [thread EXCEPT ![s] = Append(@, 0)]
    /\ UNCHANGED <<service, backlog, conn, nfd, client, port, answered>>

Refuse(s) ==
    /\ Len(conn[s]) > Len(thread[s]) /\ s \in Refusing /\ ~HasRoom(s)
    /\ conn' = [conn EXCEPT ![s] = SubSeq(@, 1, Len(@) - 1)]
    /\ UNCHANGED <<service, backlog, nfd, thread, client, port, answered>>

Reset(f, s, v) == [f EXCEPT ![s] = v]
Dies(s) ==
    /\ service' = Reset(service, s, "dead")
    /\ backlog' = Reset(backlog, s, <<>>) /\ conn' = Reset(conn, s, <<>>)
    /\ nfd' = Reset(nfd, s, 0) /\ thread' = Reset(thread, s, <<>>)
    /\ UNCHANGED <<client, port, answered>>

\* ... nothing else of the program lies there: it goes on, or faults
Overrun(s) ==
    /\ Len(conn[s]) > Len(thread[s]) /\ s \notin Refusing /\ ~HasRoom(s)
    /\ Dies(s)

FuncStartsLow(s, i) ==
    /\ thread[s][i] = 0
    /\ thread' = [thread EXCEPT ![s][i] = 1]
    /\ UNCHANGED <<service, backlog, conn, nfd, client, port, answered>>

\* int nfd = *((int *)arg)
FuncStarts(s, i) ==
    /\ thread[s][i] = 0
    /\ thread' = [thread EXCEPT ![s][i] = nfd[s]]
    /\ UNCHANGED <<service, backlog, conn, nfd, client, port, answered>>

\* one of the Limit threads of prethreaded, each of which accepts once
PreAccept(s) ==
    /\ Up(s) /\ s \in Pre /\ backlog[s] # <<>> /\ HasRoom(s)
    /\ conn' = [conn EXCEPT ![s] = Append(@, Head(backlog[s]))]
    /\ thread' = [thread EXCEPT ![s] = Append(@, Len(@) + 1)]
    /\ backlog' = [backlog EXCEPT ![s] = Tail(@)]
    /\ UNCHANGED <<service, nfd, client, port, answered>>

\* the client at the other end of the descriptor of thread i; none if it is closed
Peer(s, i) == {conn[s][d] : d \in {thread[s][i]} \cap DOMAIN conn[s]}

\* recv and send of func; to a client that is gone, the second send ends the process
Echo(s, i) ==
    \E c \in Peer(s, i) :
        /\ client[c] = "talking" /\ c \notin answered
        /\ answered' = answered \cup {c}
        /\ UNCHANGED <<service, backlog, conn, nfd, thread, client, port>>

Broken(s, i) == (\E c \in Peer(s, i) : client[c] = "gone") /\ Dies(s)

ClientStep(c) == Connect(c) \/ Hangup(c)
MainLoop(s) == Accept(s) \/ Spawn(s) \/ Refuse(s) \/ Overrun(s) \/ PreAccept(s)
Thread(s) == \E i \in DOMAIN thread[s] : FuncStarts(s, i) \/ Echo(s, i) \/ Broken(s, i)

-----------------------------------------------------------------------------
\* The variables have their types; a service that counts its threads, or makes them in
\* advance, never has one too many.
WTypeOK ==
    /\ service \in [Services -> {"off", "starting", "up", "dead"}]
    /\ \A s \in Services :
        /\ Len(thread[s]) <= Len(conn[s])
        /\ s \in Refusing \cup Pre => Len(thread[s]) <= Limit[s]
        /\ Len(conn[s]) <= Len(thread[s]) + 1
        /\ ~Up(s) => conn[s] = <<>> /\ backlog[s] = <<>>
    /\ port \in [Clients -> Services \cup {Nobody}] /\ answered \subseteq Clients

\* A thread that runs late may serve a later connection than its own, never an
\* earlier one: the newest connection with a thread that has started is served.
NeverBackwards ==
    \A s \in Services : \A i \in DOMAIN thread[s] : thread[s][i] # 0 => thread[s][i] >= i

Overtaken(s) == \E i \in DOMAIN thread[s] : thread[s][i] > i

\* While no thread of a service has read a descriptor too late, only the clients that
\* got a thread are answered, never one beyond the limit.
LimitKept ==
    \A s \in Services : Up(s) /\ ~Overtaken(s) =>
        \A c \in answered :
            (port[c] = s /\ client[c] = "talking" /\ Held(c, s)) =>
                \E i \in DOMAIN thread[s] : conn[s][i] = c

\* A client that talks to a service and is to be answered, or to end: unless a thread of
\* the service read a descriptor too late or all its threads are taken.
Full(s) == ~HasRoom(s) /\ s \in Pre
Waiting(c) == client[c] = "talking" /\ c \notin answered
Unserved(c) == Waiting(c) /\ \A s \in Services : ~Overtaken(s) /\ ~Full(s)
=============================================================================
