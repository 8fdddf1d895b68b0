---------------------------- MODULE BackupServer ----------------------------
(***************************************************************************)
(* Primary and backup server of unixsockets/bs.                             *)
(*                                                                          *)
(*   server.c      accepts clients, records each in cfd and serves it with  *)
(*                 a thread; on SIGUSR1 it signals the backup, passes every *)
(*                 recorded connection to it and exits                      *)
(*   backserver.c  publishes its pid in shared memory, waits; on SIGUSR1 it *)
(*                 receives the connections and serves each with a thread   *)
(*   client.c      answers what the server sends                            *)
(***************************************************************************)
EXTENDS Naturals, Sequences, FiniteSets

CONSTANTS
    Clients,      \* the client processes
    Greeting,     \* the 30 bytes of server.c:124
    Zero,         \* descriptor 0: recv_file_descriptor at EOF
    Unread,       \* a thread that has not yet loaded its argument
    MaxClients,   \* max_clients, server.c:12, backserver.c:13
    PastThreads,  \* what the linker puts behind threads[]: "pid" or "pad"
    OldSegment    \* the segment 5678 before the backup starts: "none", "stale"

\* The arrays hold MaxClients entries: one more client is out of scope here.
ASSUME BoundAssumption == /\ MaxClients \in Nat \ {0}
                          /\ IsFiniteSet(Clients)
                          /\ Cardinality(Clients) <= MaxClients
ASSUME ValuesAssumption == /\ Clients \intersect {Greeting, Zero, Unread} = {}
                           /\ Cardinality({Greeting, Zero, Unread}) = 3
ASSUME LayoutAssumption == /\ PastThreads \in {"pid", "pad"}
                           /\ OldSegment \subseteq {"none", "stale"}

VARIABLES
    cli,       \* "idle", "connected" or "refused"
    gone,      \* connected clients whose process has ended
    shm,       \* the pid in the segment 5678: "none", "stale" or "backup"
    \* server.c
    spc,       \* where main is; "handler" while handler_func runs
    up,        \* "no", "linked" to the backup, "listening" for clients
    pid,       \* the pid read from the segment: "stale" or "backup"
    backlog,   \* connections not yet accepted
    nfd,       \* the stack slot of nfd
    cfd,       \* cfd[0..clients_no-1]
    sthreads,  \* the server's threads: own client and descriptor served
    sopen,     \* client connections in the server's descriptor table
    sent,      \* i of handler_func: how much of cfd has been passed on
    ssig,      \* SIGUSR1 pending for the server
    \* backserver.c
    bpc,       \* where main is: "publish", "listen", "accept", "greet", "loop"
    bhandler,  \* handler_func: "no", "recv", "threads" or "done"
    bstart,    \* where handler_func interrupted main, "no" before
    csfd,      \* csfd[0..clients_no-1]
    bthreads,  \* clients with a thread of the backup
    bsig,      \* SIGUSR1 pending for the backup
    balive,    \* the backup is running
    chan       \* in flight from the server to the backup

cliVars == <<cli, gone>>
srvVars == <<spc, up, pid, backlog, nfd, cfd, sthreads, sopen, sent, ssig>>
bakVars == <<bpc, bhandler, bstart, csfd, bthreads, bsig, balive>>
vars == <<cliVars, srvVars, bakVars, shm, chan>>

SThreads == [own : Clients, fd : Clients \union {Zero, Unread}]

TypeOK ==
    /\ cli \in [Clients -> {"idle", "connected", "refused"}]
    /\ gone \subseteq Clients
    /\ shm \in {"none", "stale", "backup"}
    /\ spc \in {"readpid", "connect", "greet", "accept", "store", "spawn",
                "handler", "exited"}
    /\ up \in {"no", "linked", "listening"}
    /\ pid \in {"stale", "backup"}
    /\ backlog \in Seq(Clients)
    /\ nfd \in Clients \union {Zero}
    /\ spc \in {"store", "spawn"} => nfd \in Clients
    /\ cfd \in Seq(Clients) /\ Len(cfd) <= MaxClients
    /\ sthreads \in Seq(SThreads)
    /\ sopen \subseteq Clients
    /\ sent \in 0..Len(cfd)
    /\ ssig \in BOOLEAN
    /\ bpc \in {"publish", "listen", "accept", "greet", "loop"}
    /\ bhandler \in {"no", "recv", "threads", "done"}
    /\ bstart \in {"no", "listen", "accept", "greet", "loop"}
    /\ csfd \in Seq(Clients \union {Zero}) /\ Len(csfd) <= MaxClients
    /\ bthreads \subseteq Clients
    /\ bsig \in BOOLEAN
    /\ balive \in BOOLEAN
    /\ chan \in Seq(Clients \union {Greeting})

\* The segment outlives the processes: an earlier backup may have left its pid.
Init ==
    /\ cli = [c \in Clients |-> "idle"]
    /\ gone = {}
    /\ shm \in OldSegment
    /\ spc = "readpid"
    /\ up = "no"
    /\ pid = "stale"
    /\ backlog = <<>>
    /\ nfd = Zero
    /\ cfd = <<>>
    /\ sthreads = <<>>
    /\ sopen = {}
    /\ sent = 0
    /\ ssig = FALSE
    /\ bpc = "publish"
    /\ bhandler = "no"
    /\ bstart = "no"
    /\ csfd = <<>>
    /\ bthreads = {}
    /\ bsig = FALSE
    /\ balive = TRUE
    /\ chan = <<>>

Elements(seq) == {seq[i] : i \in 1..Len(seq)}

\* Somebody refers to the server end of the connection of client c.
IsOpen(c) ==
    \/ c \in Elements(backlog) \union sopen
    \/ balive /\ c \in Elements(chan) \union Elements(csfd)

Listening == up = "listening" /\ spc # "exited"

-----------------------------------------------------------------------------
(* client.c                                                                 *)

ClientConnect(c) ==
    /\ cli[c] = "idle"
    /\ Listening
    /\ cli' = [cli EXCEPT ![c] = "connected"]
    /\ backlog' = Append(backlog, c)
    /\ UNCHANGED <<gone, shm, spc, up, pid, nfd, cfd, sthreads, sopen, sent, ssig,
                   bakVars, chan>>

\* nobody listens: connect fails and error_func exits
ClientRefused(c) ==
    /\ cli[c] = "idle"
    /\ ~Listening
    /\ cli' = [cli EXCEPT ![c] = "refused"]
    /\ UNCHANGED <<gone, shm, srvVars, bakVars, chan>>

\* The user ends the client.
ClientQuit(c) ==
    /\ cli[c] = "connected" /\ c \notin gone
    /\ gone' = gone \union {c}
    /\ UNCHANGED <<cli, shm, srvVars, bakVars, chan>>

\* Nobody holds the connection: recv returns 0 and send raises SIGPIPE.
ClientHangup(c) ==
    /\ cli[c] = "connected" /\ c \notin gone
    /\ ~IsOpen(c)
    /\ gone' = gone \union {c}
    /\ UNCHANGED <<cli, shm, srvVars, bakVars, chan>>

-----------------------------------------------------------------------------
(* server.c                                                                 *)

\* The server ends: its descriptors are closed, its backlog is reset.
ServerDies ==
    /\ spc' = "exited"
    /\ sopen' = {}
    /\ backlog' = <<>>
    /\ nfd' = Zero
    /\ sthreads' = <<>>
    /\ UNCHANGED <<cliVars, shm, up, pid, cfd, sent, ssig, bakVars>>

\* without the segment, shmat fails and the read faults
ReadPid ==
    /\ spc = "readpid"
    /\ shm # "none"
    /\ pid' = shm
    /\ spc' = "connect"
    /\ UNCHANGED <<cliVars, shm, up, backlog, nfd, cfd, sthreads, sopen, sent, ssig,
                   bakVars, chan>>

ReadPidFails ==
    /\ spc = "readpid" /\ shm = "none"
    /\ ServerDies /\ UNCHANGED chan

Connect ==
    /\ spc = "connect" /\ bpc \in {"accept", "greet", "loop"}
    /\ spc' = "greet"
    /\ up' = "linked"
    /\ UNCHANGED <<cliVars, shm, pid, backlog, nfd, cfd, sthreads, sopen, sent, ssig,
                   bakVars, chan>>

ConnectFails ==
    /\ spc = "connect" /\ bpc \in {"publish", "listen"}
    /\ ServerDies /\ UNCHANGED chan

\* send the greeting, then listen
Greet ==
    /\ spc = "greet"
    /\ chan' = Append(chan, Greeting)
    /\ spc' = "accept"
    /\ up' = "listening"
    /\ UNCHANGED <<cliVars, shm, pid, backlog, nfd, cfd, sthreads, sopen, sent, ssig,
                   bakVars>>

Accept ==
    /\ spc = "accept" /\ backlog # <<>>
    /\ nfd' = Head(backlog)
    /\ backlog' = Tail(backlog)
    /\ sopen' = sopen \union {Head(backlog)}
    /\ spc' = "store"
    /\ UNCHANGED <<cliVars, shm, up, pid, cfd, sthreads, sent, ssig, bakVars, chan>>

\* cfd[clients_no++]=nfd
Store ==
    /\ spc = "store"
    /\ cfd' = Append(cfd, nfd)
    /\ spc' = "spawn"
    /\ UNCHANGED <<cliVars, shm, up, pid, backlog, nfd, sthreads, sopen, sent, ssig,
                   bakVars, chan>>

\* pthread_create(&threads[clients_no],...) after the increment: with the last
\* client the thread's id is written behind threads[], which may be pid.
Spawn ==
    /\ spc = "spawn"
    /\ sthreads' = Append(sthreads, [own |-> nfd, fd |-> Unread])
    /\ pid' = IF Len(cfd) = MaxClients /\ PastThreads = "pid" THEN "stale" ELSE pid
    /\ spc' = "accept"
    /\ UNCHANGED <<cliVars, shm, up, backlog, nfd, cfd, sopen, sent, ssig, bakVars, chan>>

\* Mutant of ThreadLoad: every thread is given cfd instead of its own client.
ThreadLoadFirst(i) ==
    /\ i \in 1..Len(sthreads) /\ sthreads[i].fd = Unread
    /\ sthreads' = [sthreads EXCEPT ![i].fd = cfd[1]]
    /\ UNCHANGED <<cliVars, shm, spc, up, pid, backlog, nfd, cfd, sopen, sent, ssig,
                   bakVars, chan>>

\* int nfd = *((int *)arg)
ThreadLoad(i) ==
    /\ i \in 1..Len(sthreads) /\ sthreads[i].fd = Unread
    /\ sthreads' = [sthreads EXCEPT ![i].fd = nfd]
    /\ UNCHANGED <<cliVars, shm, spc, up, pid, backlog, nfd, cfd, sopen, sent, ssig,
                   bakVars, chan>>

\* send to a client that has ended raises SIGPIPE: the server ends at once,
\* without its handler
ThreadBroken(i) ==
    /\ i \in 1..Len(sthreads) /\ sthreads[i].fd \in gone
    /\ ServerDies /\ UNCHANGED chan

\* The operator sends SIGUSR1 to the pid the server printed.
Operator ==
    /\ spc \in {"connect", "greet", "accept", "store", "spawn"} /\ ~ssig
    /\ ssig' = TRUE
    /\ UNCHANGED <<cliVars, shm, spc, up, pid, backlog, nfd, cfd, sthreads, sopen, sent,
                   bakVars, chan>>

\* handler_func interrupts main wherever it is; it signals the backup first
Handler ==
    /\ ssig /\ spc \in {"connect", "greet", "accept", "store", "spawn"}
    /\ ssig' = FALSE
    /\ spc' = "handler"
    /\ bsig' = (bsig \/ (pid = "backup" /\ balive))
    /\ UNCHANGED <<cliVars, shm, up, pid, backlog, nfd, cfd, sthreads, sopen, sent,
                   bpc, bhandler, bstart, csfd, bthreads, balive, chan>>

\* ... passes on the connections, up to the first -1 in cfd
HandlerSend ==
    /\ spc = "handler" /\ sent < Len(cfd) /\ balive
    /\ chan' = Append(chan, cfd[sent + 1])
    /\ sent' = sent + 1
    /\ UNCHANGED <<cliVars, shm, spc, up, pid, backlog, nfd, cfd, sthreads, sopen, ssig,
                   bakVars>>

\* Mutant of HandlerExit: the loop ends one client early.
HandlerExitShort ==
    /\ spc = "handler" /\ (sent + 1 >= Len(cfd) \/ ~balive)
    /\ ServerDies /\ UNCHANGED chan

\* ... and exits, or is ended by SIGPIPE when the backup has ended
HandlerExit ==
    /\ spc = "handler" /\ (sent = Len(cfd) \/ ~balive)
    /\ ServerDies /\ UNCHANGED chan

-----------------------------------------------------------------------------
(* backserver.c                                                             *)

\* main runs while handler_func does not interrupt it
BMain == balive /\ bhandler \in {"no", "done"}

Publish ==
    /\ BMain /\ bpc = "publish"
    /\ shm' = "backup"
    /\ bpc' = "listen"
    /\ UNCHANGED <<cliVars, srvVars, bhandler, bstart, csfd, bthreads, bsig, balive, chan>>

Listen ==
    /\ BMain /\ bpc = "listen"
    /\ bpc' = "accept"
    /\ UNCHANGED <<cliVars, srvVars, shm, bhandler, bstart, csfd, bthreads, bsig, balive, chan>>

\* accept returns once the server has connected, even if it has ended since
BAccept ==
    /\ BMain /\ bpc = "accept"
    /\ up # "no"
    /\ bpc' = "greet"
    /\ UNCHANGED <<cliVars, srvVars, shm, bhandler, bstart, csfd, bthreads, bsig, balive,
                   chan>>

\* recv(nfd,buffer,30): the greeting, or 0 at EOF. When handler_func has taken
\* the first byte of the greeting, the 30th byte is that of the first descriptor
\* if it is there already, and the descriptor is lost with it.
BGreet ==
    /\ BMain /\ bpc = "greet"
    /\ chan # <<>> \/ spc = "exited"
    /\ bpc' = "loop"
    /\ LET taken == IF bstart = "greet" THEN 2 ELSE 1
       IN  chan' = SubSeq(chan, 1 + taken, Len(chan))
    /\ UNCHANGED <<cliVars, srvVars, shm, bhandler, bstart, csfd, bthreads, bsig, balive>>

\* handler_func interrupts main wherever it is
BSignal ==
    /\ BMain /\ bsig
    /\ bsig' = FALSE
    /\ bhandler' = "recv"
    /\ bstart' = bpc
    /\ UNCHANGED <<cliVars, srvVars, shm, bpc, csfd, bthreads, balive, chan>>

\* fd=recv_file_descriptor(nfd); csfd[clients_no++]=fd. At EOF fd is 0.
BRecv ==
    /\ balive /\ bhandler = "recv" /\ Len(csfd) < MaxClients
    /\ bstart = "loop" \/ (bstart = "greet" /\ chan = <<>>)
    /\ chan # <<>> \/ spc = "exited"
    /\ csfd' = Append(csfd, IF chan = <<>> THEN Zero ELSE Head(chan))
    /\ chan' = IF chan = <<>> THEN chan ELSE Tail(chan)
    /\ UNCHANGED <<cliVars, srvVars, shm, bpc, bhandler, bstart, bthreads, bsig, balive>>

\* fd==-1: before accept nfd is descriptor 0, which is no socket; before the
\* greeting is read, the byte received is one of the greeting.
NoDescriptor == bstart \in {"listen", "accept"} \/ (bstart = "greet" /\ chan # <<>>)

BRecvDone ==
    /\ balive /\ bhandler = "recv"
    /\ NoDescriptor \/ Len(csfd) = MaxClients
    /\ bhandler' = "threads"
    /\ UNCHANGED <<cliVars, srvVars, shm, bpc, bstart, csfd, bthreads, bsig, balive, chan>>

\* Mutant of BThreads: thread_caller starts with i=1.
BThreadsFromOne ==
    /\ balive /\ bhandler = "threads"
    /\ bthreads' = Elements(SubSeq(csfd, 2, Len(csfd))) \ {Zero}
    /\ bhandler' = "done"
    /\ UNCHANGED <<cliVars, srvVars, shm, bpc, bstart, csfd, bsig, balive, chan>>

\* thread_caller: a thread for every csfd[i]>0; &csfd[i] is never overwritten
BThreads ==
    /\ balive /\ bhandler = "threads"
    /\ bthreads' = Elements(csfd) \ {Zero}
    /\ bhandler' = "done"
    /\ UNCHANGED <<cliVars, srvVars, shm, bpc, bstart, csfd, bsig, balive, chan>>

\* send to a client that has ended raises SIGPIPE: the backup ends, and with it
\* what it holds
BThreadBroken ==
    /\ balive /\ bthreads \intersect gone # {}
    /\ balive' = FALSE
    /\ chan' = <<>>
    /\ UNCHANGED <<cliVars, srvVars, shm, bpc, bhandler, bstart, csfd, bthreads, bsig>>

-----------------------------------------------------------------------------
ClientStep(c) ==
    \/ ClientConnect(c)
    \/ ClientRefused(c)
    \/ ClientQuit(c)
    \/ ClientHangup(c)

ServerMain ==
    \/ ReadPid \/ ReadPidFails
    \/ Connect \/ ConnectFails
    \/ Greet
    \/ Accept \/ Store \/ Spawn
    \/ Handler \/ HandlerSend \/ HandlerExit

ServerThread == \E i \in 1..Len(sthreads) : ThreadLoad(i) \/ ThreadBroken(i)

BackupMain ==
    \/ Publish \/ Listen \/ BAccept \/ BGreet
    \/ BSignal \/ BRecv \/ BRecvDone \/ BThreads

Next ==
    \/ \E c \in Clients : ClientStep(c)
    \/ Operator
    \/ ServerMain
    \/ ServerThread
    \/ BackupMain
    \/ BThreadBroken

Spec == Init /\ [][Next]_vars

\* The kernel schedules every process; starting and ending clients and sending
\* the signal are the users' choice.
Fairness ==
    /\ \A c \in Clients : WF_vars(ClientHangup(c))
    /\ WF_vars(ServerMain)
    /\ WF_vars(ServerThread)
    /\ WF_vars(BackupMain)
    /\ WF_vars(BThreadBroken)

FairSpec == Spec /\ Fairness
-----------------------------------------------------------------------------
(* Properties                                                               *)

\* the backup was interrupted before its main loop: it reads no descriptor
Early == bstart \in {"listen", "accept", "greet"}

\* As long as no client ends, a client the server has recorded keeps its
\* connection through the handover: some process or the socket buffer between
\* the two servers always holds it, and the server's exit does not close it.
\* (server.c:83-90 passes on before it exits, backserver.c:103-109)
NoGap == gone = {} /\ ~Early => \A i \in 1..Len(cfd) : IsOpen(cfd[i])

\* The backup's table is the server's, in the same order and complete from the
\* front; what EOF adds behind it is descriptor 0, and nothing else gets in.
\* (server.c:144, backserver.c:103-109)
SameTable ==
    \A i \in 1..Len(csfd) :
        IF i <= Len(cfd) /\ i <= sent THEN csfd[i] = cfd[i] ELSE csfd[i] = Zero

\* The backup answers clients only when the server no longer can, unless the
\* server's table was full: then it has all it waits for and starts while the
\* server may still be sending. (backserver.c:103-111: the loop is left at once
\* with max_clients descriptors, otherwise at the EOF of the server's exit)
BackupAfterServer == bthreads # {} /\ Len(cfd) < MaxClients => spc = "exited"

\* A thread of the server reads its client late, from the slot nfd of the main
\* loop, yet never serves a client accepted before its own. (server.c:59,141-146)
NoStaleThread ==
    \A i, j \in 1..Len(sthreads) :
        i < j => sthreads[j].fd # sthreads[i].own

\* While no client ends, the backup ends up serving every recorded client, if
\* the server signalled it and it had reached its main loop by then.
\* (server.c:76-91, backserver.c:99-112)
Handover ==
    \A c \in Clients :
        (spc = "handler" /\ pid = "backup" /\ c \in Elements(cfd))
            ~> (c \in bthreads \/ Early \/ gone # {})

\* What backserver.c:101 prints, "The backup server is about to begin": once
\* its handler is through, it serves the clients of the server.
BackupBegins ==
    bhandler = "done" /\ gone = {} => Elements(cfd) \subseteq bthreads

\* The handover is safe: a recorded connection stays open throughout (NoGap), the
\* backup gets the server's table as it is (SameTable) and answers nobody while the
\* server still may (BackupAfterServer).
SafeHandover == TypeOK /\ NoGap /\ SameTable /\ BackupAfterServer
=============================================================================
