---------------------------- MODULE MCMultiplex ----------------------------
(***************************************************************************)
(* The servers with a thread or a process for each client, for TLC.  They  *)
(* share nothing: which one runs is chosen at the start.                   *)
(***************************************************************************)
EXTENDS Integers

CONSTANTS
    Clients,        \* client processes
    MssClients,     \* those of mss
    Registered,     \* the services of mss
    Started,        \* the services of tss
    Present,        \* those of them whose program is there
    Threaded,       \* multithreaded
    Prethreaded,    \* prethreaded
    MssThreads,     \* a service of mss: the size of the array threads
    Threads,        \* multithreaded and prethreaded: the size; tss: clients it takes
    Rounds,         \* mss: max_fd + 1
    max_services,   \* mss: the size of the array services
    MainServers,    \* bound: main servers of tss
    max_clients,    \* unixsockets/tss: the size of the array threads
    NPorts,         \* inetd and selectserver: max_clients
    MaxProcs,       \* the processes a forking server and its children can be
    MaxFds,         \* the connections its descriptor table holds
    MaxLost,        \* bound: clients that connect to it when server1 is missing
    Nobody          \* no client, no service

VARIABLES
    program,
    service, backlog, conn, nfd, thread, client, port, answered,
    services, readset, left, squeue, cqueue, want, sent,
    procs, started, asking, queue, wish, starts,
    ps_server, ps_mainserver, ps_queue, ps_passed, ps_conn, ps_fd, ps_thread, ps_client,
    ps_answered,
    fk_kind, fk_present, fk_badlen, fk_queue, fk_pc, fk_ready, fk_fds, fk_nfd, fk_child,
    fk_client, fk_signalled

workers == <<service, backlog, conn, nfd, thread, client, port, answered>>
mss == <<services, readset, left, squeue, cqueue, want, sent>>
tss == <<procs, started, asking, queue, wish, starts>>
pass == <<ps_server, ps_mainserver, ps_queue, ps_passed, ps_conn, ps_fd, ps_thread,
    ps_client, ps_answered>>
fork == <<fk_kind, fk_present, fk_badlen, fk_queue, fk_pc, fk_ready, fk_fds, fk_nfd,
    fk_child, fk_client, fk_signalled>>

Services == Registered \cup Started \cup Threaded \cup Prethreaded
Refusing == Started
Limit == [s \in Services |-> IF s \in Registered THEN MssThreads ELSE Threads]

ASSUME ProgramsAssumption ==
    /\ MssClients \subseteq Clients /\ Nobody \notin Clients \cup Services
    /\ Present \subseteq Started /\ Prethreaded \cap (Registered \cup Started) = {}
    /\ {MssThreads, Threads, Rounds, max_services, max_clients, MaxFds} \subseteq Nat
    /\ {MainServers, NPorts, MaxProcs} \subseteq Nat \ {0}

\* a service can register again
M == INSTANCE Mss WITH
    Clients <- MssClients, Services <- Registered, Pre <- Prethreaded
T == INSTANCE Tss WITH
    Services <- Started, Pre <- Prethreaded, MaxProcs <- MainServers, want <- wish
D == INSTANCE ThreadServers WITH
    Services <- Threaded \cup Prethreaded, Pre <- Prethreaded
P == INSTANCE PassServer WITH
    server <- ps_server, mainserver <- ps_mainserver,
    queue <- ps_queue, passed <- ps_passed, conn <- ps_conn, fd <- ps_fd,
    thread <- ps_thread, client <- ps_client, answered <- ps_answered
K == INSTANCE ForkServers WITH
    kind <- fk_kind, present <- fk_present, badlen <- fk_badlen, queue <- fk_queue,
    pc <- fk_pc, ready <- fk_ready, fds <- fk_fds, nfd <- fk_nfd, child <- fk_child,
    client <- fk_client, signalled <- fk_signalled

vars == <<program, workers, mss, tss, pass, fork>>

\* no client has asked for a service, or runs, before its program is chosen
IdleMss ==
    /\ services = <<>> /\ readset = {} /\ left = 0 /\ squeue = <<>> /\ cqueue = <<>>
    /\ want = [c \in MssClients |-> 0] /\ sent = {}
IdleTss ==
    /\ procs = {0} /\ started = [p \in T!Procs |-> {}]
    /\ asking = [p \in T!Procs |-> Nobody] /\ queue = <<>>
    /\ wish = [c \in Clients |-> Nobody] /\ starts = [s \in Started |-> 0]
IdleWorkers == D!WInit /\ service = [s \in Threaded \cup Prethreaded |-> "off"]

Init ==
    /\ \/ program = "mss" /\ M!Init /\ IdleTss
       \/ program = "tss" /\ T!Init /\ IdleMss
       \/ program = "direct" /\ D!Init /\ IdleMss /\ IdleTss
       \/ program \in {"pass", "fork"} /\ IdleWorkers /\ IdleMss /\ IdleTss
    /\ P!Init
    /\ K!Init
    /\ program # "fork" => fk_kind = "inetd" /\ fk_present /\ ~fk_badlen

InMss == program = "mss" /\ UNCHANGED <<program, tss, pass, fork>>
InTss == program = "tss" /\ UNCHANGED <<program, mss, pass, fork>>
InDirect == program = "direct" /\ UNCHANGED <<program, mss, tss, pass, fork>>
InPass == program = "pass" /\ UNCHANGED <<program, workers, mss, tss, fork>>
InFork == program = "fork" /\ UNCHANGED <<program, workers, mss, tss, pass>>

Next ==
    \/ InMss /\ M!Next
    \/ InTss /\ T!Next
    \/ InDirect /\ D!Next
    \/ InPass /\ P!Next
    \/ InFork /\ K!Next

\* the servers and every thread go on when they can; users start and leave as they like
FairSpec ==
    /\ Init /\ [][Next]_vars
    /\ WF_vars(InMss /\ M!Server)
    /\ \A p \in T!Procs : WF_vars(InTss /\ T!MainServer(p))
    /\ \A s \in Threaded \cup Prethreaded :
           /\ WF_vars(InDirect /\ (D!Listen(s) \/ D!MainLoop(s)))
           /\ WF_vars(InDirect /\ D!Thread(s))
    /\ \A c \in Clients : WF_vars(InDirect /\ D!ClientStep(c))
    /\ WF_vars(InPass /\ P!Pass) /\ WF_vars(InPass /\ P!ServerLoop)
    /\ WF_vars(InPass /\ P!Thread)
    /\ \A q \in K!Procs : WF_vars(InFork /\ K!ServerStep(q))

-----------------------------------------------------------------------------
\* Workers, PassServer: a thread that reads its descriptor late never serves an earlier
\* connection than its own; in tss, beyond the limit only a late thread answers a client;
\* threads that accept for themselves serve what they accepted, and are not more than were
\* made.  ForkServers: no connection has two servers, and accept after select blocks only
\* after a signal or a failed execution.
RightConnection ==
    /\ program = "mss" => M!NeverBackwards
    /\ program = "tss" => T!LimitKept
    /\ program = "direct" => D!WTypeOK /\ D!OwnConnection
    /\ program = "pass" => P!TypeOK /\ P!NeverBackwards
    /\ program = "fork" => K!TypeOK /\ K!OneServer /\ K!NoBlockedAccept
\* Mss, Tss: what a client was sent stays the port of its index, and a program is
\* executed at most once by each main server, those that failed executions left included.
RightService ==
    /\ program = "mss" => M!TypeOK /\ M!StillRight
    /\ program = "tss" => T!TypeOK /\ T!StartsBounded
\* Mss, Tss: a main server that waits for a client registers no service any more, and who
\* wants a dead service is never served.  ForkServers: a server that has used up its
\* descriptors or processes stays so.
LostForEver ==
    /\ M!StarvedForEver /\ T!LostForEver
    /\ K!DeafForEver /\ K!TableFullForEver
\* Someone waits: for a port, for an answer of a service whose threads did not come late
\* or, with the server of unixsockets/tss dead, for the main server to follow; or, with
\* server1 missing, children are still forked.
Waiting ==
    \/ program = "direct" /\ \E c \in Clients : D!Unserved(c)
    \/ program = "mss" /\ \E c \in MssClients : M!Unanswered(c)
    \/ program = "tss" /\ \E c \in Clients : T!Unanswered(c)
    \/ program = "pass" /\ (P!MainLags \/ \E c \in Clients : P!Unserved(c))
    \/ program = "fork" /\ (K!Forking \/ \E c \in Clients : K!Unserved(c))
\* None of that lasts for ever.
Served == []<>~Waiting
=============================================================================
