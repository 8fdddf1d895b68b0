-------------------------------- MODULE Tss --------------------------------
(***************************************************************************)
(* mid/tss: a main server starts a service program when a client first     *)
(* asks for it and tells every client its port.  Each service gives two    *)
(* threads in its life.  When execve fails, the child goes on as a second  *)
(* main server on the same listening socket, with its own copy of started. *)
(***************************************************************************)
EXTENDS Workers, FiniteSets

CONSTANTS
    Present,    \* the services whose program can be executed
    MaxProcs    \* bound: main server processes

Procs == 0 .. MaxProcs - 1

VARIABLES
    procs,      \* main server processes
    started,    \* started[p]: services p takes for started
    asking,     \* asking[p]: the client p deals with, or Nobody
    queue,      \* connections to port 8000
    want,       \* want[c]: the service client c asks for
    starts      \* history: starts[s], how often s was executed

tssvars == <<procs, started, asking, queue, want, starts>>

Init ==
    /\ WInit /\ service = [s \in Services |-> "off"]
    /\ procs = {0} /\ started = [p \in Procs |-> {}] /\ asking = [p \in Procs |-> Nobody]
    /\ queue = <<>> /\ want = [c \in Clients |-> Nobody] /\ starts = [s \in Services |-> 0]

\* client.c: connect to 8000 and send the index
Ask(c) ==
    /\ client[c] = "off"
    /\ client' = [client EXCEPT ![c] = "asked"]
    /\ queue' = Append(queue, c)
    /\ \E s \in Services : want' = [want EXCEPT ![c] = s]
    /\ UNCHANGED <<service, backlog, conn, nfd, thread, port, answered, procs, started,
                   asking, starts>>

\* select returns when a client waits, and the loop only accepts from the same queue:
\* where the process blocks makes no difference
Take(p) ==
    /\ p \in procs /\ asking[p] = Nobody /\ queue # <<>>
    /\ asking' = [asking EXCEPT ![p] = Head(queue)]
    /\ queue' = Tail(queue)
    /\ UNCHANGED <<wvars, procs, started, want, starts>>

Tell(c) ==
    IF client[c] = "asked"
    THEN client' = [client EXCEPT ![c] = "told"] /\ port' = [port EXCEPT ![c] = want[c]]
    ELSE UNCHANGED <<client, port>>

Known(p) ==
    /\ p \in procs /\ asking[p] # Nobody /\ want[asking[p]] \in started[p]
    /\ Tell(asking[p])
    /\ asking' = [asking EXCEPT ![p] = Nobody]
    /\ UNCHANGED <<service, backlog, conn, nfd, thread, answered, procs, started, queue,
                   want, starts>>

ForkExecAlways(p) ==
    LET s == want[asking[p]] IN
    /\ p \in procs /\ asking[p] # Nobody /\ s \in Present
    /\ starts' = [starts EXCEPT ![s] = @ + 1]
    /\ service' = [service EXCEPT ![s] = IF @ \in {"off", "dead"} THEN "starting" ELSE @]

\* fork and execve of a program that is there; a second copy cannot bind and exits
ForkExec(p) ==
    LET s == want[asking[p]] IN
    /\ p \in procs /\ asking[p] # Nobody /\ s \in Present \ started[p]
    /\ starts' = [starts EXCEPT ![s] = @ + 1]
    /\ service' = [service EXCEPT ![s] = IF @ \in {"off", "dead"} THEN "starting" ELSE @]

Mark(p, s) == [started EXCEPT ![p] = @ \cup {s}]

\* the parent sleeps and tells the client
Start(p) ==
    /\ ForkExec(p)
    /\ started' = Mark(p, want[asking[p]])
    /\ Tell(asking[p])
    /\ asking' = [asking EXCEPT ![p] = Nobody]
    /\ UNCHANGED <<backlog, conn, nfd, thread, answered, procs, queue, want>>

\* execve fails: child q, which has not marked the service, tells the client as well
Twin(p) ==
    LET s == want[asking[p]] IN
    /\ p \in procs /\ asking[p] # Nobody /\ s \notin started[p] \cup Present
    /\ LET q == Cardinality(procs) IN
        /\ q \in Procs
        /\ procs' = procs \cup {q}
        /\ started' = [Mark(p, s) EXCEPT ![q] = started[p]]
    /\ Tell(asking[p])
    /\ asking' = [asking EXCEPT ![p] = Nobody]
    /\ UNCHANGED <<service, backlog, conn, nfd, thread, answered, queue, want, starts>>

MainServer(p) == Take(p) \/ Known(p) \/ Start(p) \/ Twin(p)
Programs ==
    \/ \E c \in Clients : ClientStep(c) \/ Leave(c)
    \/ \E s \in Services : Listen(s) \/ MainLoop(s) \/ Thread(s)
Next ==
    \/ \E c \in Clients : Ask(c)
    \/ \E p \in Procs : MainServer(p)
    \/ Programs /\ UNCHANGED tssvars

-----------------------------------------------------------------------------
\* The variables have their types.
TypeOK ==
    /\ WTypeOK
    /\ 0 \in procs /\ procs \subseteq Procs /\ started \in [Procs -> SUBSET Services]
    /\ asking \in [Procs -> Clients \cup {Nobody}]

\* A program is executed once by each main server at most, and there is one main
\* server more than executions that failed.
StartsBounded == \A s \in Services : starts[s] <= Cardinality(procs)

\* A service dies when a client it serves leaves, and started is never taken back:
\* who still wants it once every main server takes it for started is never served.
Lost(c) ==
    /\ want[c] # Nobody /\ client[c] \in {"asked", "told"}
    /\ service[want[c]] = "dead" /\ \A p \in procs : want[c] \in started[p]
LostForEver ==
    [][\A c \in Clients : Lost(c) => Lost(c)' \/ client'[c] = "gone"]_<<wvars, tssvars>>

\* A client that was told no port yet: none stays so for ever.
Unanswered(c) == client[c] = "asked"
=============================================================================
