------------------------------ MODULE CseMulti ------------------------------
(***************************************************************************)
(* The ticket counter of unixsockets/csemulti: five programs, one per file. *)
(*                                                                          *)
(*   client.c  asks the counter for a class of service, 1, 2 or 3           *)
(*   tc.c      the counter: accepts clients, reads the class, passes the    *)
(*             connection (an SCM_RIGHTS descriptor) to a class server      *)
(*   c.c s.c e.c  the class servers: one thread per connection up to        *)
(*             max_clients; when full, c passes the connection on to s, s   *)
(*             to e, and e signals SIGUSR1 to the counter and exits         *)
(*                                                                          *)
(* The model starts when all connections between the four servers stand     *)
(* and the 30-byte greetings are consumed (c.c:140, s.c:152-158, e.c:125-132)*)
(***************************************************************************)
EXTENDS Naturals, Sequences

CONSTANTS
    Clients,      \* the client processes (client.c)
    Junk,         \* descriptor 0: what recv_file_descriptor returns at EOF
    Unread,       \* a thread that has not yet loaded its argument
    MaxClients,   \* max_clients of c.c:8, s.c:9 and e.c:12
    SockBuf,      \* descriptors a stream socket buffers before sendmsg blocks
    Backlog,      \* listen(sfd,5), tc.c:117
    Requests,     \* service numbers that clients ask for
    SharedSlot    \* does the build give both `int fd` of s.c (e.c) one slot?

Tiers == {"c", "s", "e"}
Procs == Tiers \union {"tc"}

\* atoi(buffer), tc.c:126; every number without a case is written 0
Services == 0..3
\* a client started without its argument sends nothing: send() fails, EFAULT
NoArg == 4

ASSUME ClientsAssumption == Junk \notin Clients /\ Unread \notin Clients
                            /\ Junk # Unread
ASSUME CapacityAssumption == MaxClients \in [Tiers -> Nat \ {0}]
ASSUME BufferAssumption == SockBuf \in Nat \ {0} /\ Backlog \in Nat
ASSUME RequestsAssumption == Requests \subseteq Services \union {NoArg}
ASSUME SharedSlotAssumption == SharedSlot \in BOOLEAN

\* the connections between the servers: sfdc, sfds, sfde (tc.c:104-110),
\* sfd1 of c.c:127 and sfd1 of s.c:136
Links == {<<"tc", "c">>, <<"tc", "s">>, <<"tc", "e">>, <<"c", "s">>, <<"s", "e">>}

Rank == [c |-> 1, s |-> 2, e |-> 3]
\* Mutant of TierOf: cases 1 and 3 swapped.
TierOfSwapped(n) == CHOOSE t \in Tiers : Rank[t] = 4 - n

TierOf(n) == CHOOSE t \in Tiers : Rank[t] = n
\* where a full class server passes a connection on
Overflow == [c |-> "s", s |-> "e"]

Fds == Clients \union {Junk}
Sources == {"tc", "c", "s"}
\* the stack slot of the `int fd` that a connection from src is received in
Cell(src) == IF SharedSlot THEN "tc" ELSE src

\* own is the descriptor the thread was created for, fd the one it serves
Threads == [own : Fds, cell : Sources, fd : Fds \union {Unread}]

VARIABLES
    \* the clients
    req,       \* the argument the client was started with
    cli,       \* "idle", "connected", "sent" its service number
    gone,      \* clients whose process has ended
    \* the counter, tc.c
    backlog,   \* connections waiting to be accepted
    tcpc,      \* "accept", "recv", "dispatch", "handler" or "exited"
    tcfd,      \* nfd
    tcsrv,     \* the number in buffer, kept from one loop round to the next;
               \* NoArg: buffer (tc.c:123) was never written
    sigusr1,   \* SIGUSR1 is pending for the counter
    \* the class servers
    alive,     \* which of the four servers are running
    chan,      \* descriptors in flight on each connection
    at,        \* "poll", the source whose block runs, or "exit"
    slot,      \* the stack slots of the variables fd
    threads,   \* threads[0..clients_no-1]
    \* the kernel, and history
    open,      \* client connections in the descriptor table of each server
    class      \* the class the counter read for a client; 0 before

cliVars  == <<req, cli, gone>>
tcVars   == <<backlog, tcpc, tcfd, tcsrv, sigusr1>>
tierVars == <<at, slot, threads>>
vars == <<cliVars, tcVars, tierVars, alive, chan, open, class>>

TypeOK ==
    /\ req \in [Clients -> Services \union {NoArg}]
    /\ cli \in [Clients -> {"idle", "connected", "sent"}]
    /\ gone \subseteq Clients
    /\ backlog \in Seq(Clients)
    /\ tcpc \in {"accept", "recv", "dispatch", "handler", "exited"}
    /\ tcfd \in Fds
    /\ tcpc \in {"recv", "dispatch"} => tcfd \in Clients
    /\ tcsrv \in Services \union {NoArg}
    /\ tcpc = "dispatch" => tcsrv \in Services
    /\ sigusr1 \in BOOLEAN
    /\ alive \in [Procs -> BOOLEAN]
    /\ chan \in [Links -> Seq(Fds)]
    /\ at \in [Tiers -> Sources \union {"poll", "exit"}]
    /\ slot \in [Tiers -> [Sources -> Fds]]
    /\ threads \in [Tiers -> Seq(Threads)]
    /\ open \in [Procs -> SUBSET Clients]
    /\ class \in [Clients -> Services]

Init ==
    /\ req = [c \in Clients |-> 0]
    /\ cli = [c \in Clients |-> "idle"]
    /\ gone = {}
    /\ backlog = <<>>
    /\ tcpc = "accept"
    /\ tcfd = Junk
    /\ tcsrv = NoArg
    /\ sigusr1 = FALSE
    /\ alive = [p \in Procs |-> TRUE]
    /\ chan = [l \in Links |-> <<>>]
    /\ at = [t \in Tiers |-> "poll"]
    /\ slot = [t \in Tiers |-> [src \in Sources |-> Junk]]
    /\ threads = [t \in Tiers |-> <<>>]
    /\ open = [p \in Procs |-> {}]
    /\ class = [c \in Clients |-> 0]

clients_no(t) == Len(threads[t])
\* Mutant of Full: one client too many.
FullLate(t) == clients_no(t) > MaxClients[t]

Full(t) == clients_no(t) >= MaxClients[t]

-----------------------------------------------------------------------------
(* Processes, sockets and descriptors.                                      *)

\* Process p ends: its descriptors are closed, and what is in flight to it is
\* dropped by the kernel.
Die(p) ==
    /\ alive' = [alive EXCEPT ![p] = FALSE]
    /\ open' = [open EXCEPT ![p] = {}]
    /\ chan' = [l \in Links |-> IF l[2] = p THEN <<>> ELSE chan[l]]

\* The counter ends, with its memory and the connections it has not accepted.
TcDies ==
    /\ Die("tc")
    /\ tcpc' = "exited"
    /\ backlog' = <<>>
    /\ tcfd' = Junk
    /\ tcsrv' = NoArg
    /\ sigusr1' = FALSE
    /\ UNCHANGED <<cliVars, tierVars, class>>

\* Class server t ends, with its memory; threads[t] stays as a record of the
\* tickets it sold.
TierDies(t) ==
    /\ Die(t)
    /\ at' = [at EXCEPT ![t] = "poll"]
    /\ slot' = [slot EXCEPT ![t] = [src \in Sources |-> Junk]]
    /\ threads' = [threads EXCEPT ![t] =
                     [i \in 1..Len(@) |-> [@[i] EXCEPT !.fd = Unread]]]
    /\ UNCHANGED <<cliVars, tcVars, class>>

Elements(seq) == {seq[i] : i \in 1..Len(seq)}

\* Some process still refers to the server end of the connection of client c.
IsOpen(c) ==
    \/ c \in Elements(backlog)
    \/ \E p \in Procs : c \in open[p]
    \/ \E l \in Links : c \in Elements(chan[l])

\* send_file_descriptor: waits while the buffer of the connection is full.
send_file_descriptor(l, fd) ==
    /\ Len(chan[l]) < SockBuf
    /\ chan' = [chan EXCEPT ![l] = Append(@, fd)]

\* Mutant of Readable: the end of the sender is not noticed.
ReadableData(l) == chan[l] # <<>>

\* poll reports a connection readable when it holds data and at EOF.
Readable(l) == chan[l] # <<>> \/ ~alive[l[1]]

\* recv_file_descriptor: the descriptor in front, or recvmsg's 0 at EOF,
\* which the callers take for a descriptor.
Received(l) == IF chan[l] = <<>> THEN Junk ELSE Head(chan[l])

-----------------------------------------------------------------------------
(* client.c                                                                 *)

\* A client started for service n connects; it waits while the backlog is full.
ClientConnect(c, n) ==
    /\ cli[c] = "idle" /\ c \notin gone
    /\ alive["tc"] /\ Len(backlog) <= Backlog
    /\ req' = [req EXCEPT ![c] = n]
    /\ cli' = [cli EXCEPT ![c] = "connected"]
    /\ backlog' = Append(backlog, c)
    /\ UNCHANGED <<gone, tcpc, tcfd, tcsrv, sigusr1, tierVars, alive,
                   chan, open, class>>

\* the counter has ended: connect fails and error_func exits
ClientRefused(c) ==
    /\ cli[c] = "idle" /\ c \notin gone
    /\ ~alive["tc"]
    /\ gone' = gone \union {c}
    /\ UNCHANGED <<req, cli, tcVars, tierVars, alive, chan, open, class>>

ClientSend(c) ==
    /\ cli[c] = "connected" /\ c \notin gone
    /\ req[c] # NoArg
    /\ IsOpen(c)
    /\ cli' = [cli EXCEPT ![c] = "sent"]
    /\ UNCHANGED <<req, gone, tcVars, tierVars, alive, chan, open, class>>

\* The user ends the client.
ClientQuit(c) ==
    /\ cli[c] # "idle" /\ c \notin gone
    /\ gone' = gone \union {c}
    /\ UNCHANGED <<req, cli, tcVars, tierVars, alive, chan, open, class>>

\* No server holds the connection: recv returns 0 and the next send raises
\* SIGPIPE.
ClientHangup(c) ==
    /\ cli[c] # "idle" /\ c \notin gone
    /\ ~IsOpen(c)
    /\ gone' = gone \union {c}
    /\ UNCHANGED <<req, cli, tcVars, tierVars, alive, chan, open, class>>

-----------------------------------------------------------------------------
(* tc.c                                                                     *)

TcAccept ==
    /\ tcpc = "accept" /\ backlog # <<>>
    /\ tcfd' = Head(backlog)
    /\ backlog' = Tail(backlog)
    /\ open' = [open EXCEPT !["tc"] = @ \union {Head(backlog)}]
    /\ tcpc' = "recv"
    /\ UNCHANGED <<cliVars, tcsrv, sigusr1, tierVars, alive, chan, class>>

\* Mutant of StaleOr: the buffer is used although nothing was ever written to it.
StaleAlways(sent, n) == IF sent THEN {n} ELSE {tcsrv}

\* The number in buffer after recv: the client's if it sent one. Otherwise recv
\* returned 0 and buffer holds an earlier client's number, or, before any client
\* sent one, whatever was on the stack.
StaleOr(sent, n) ==
    IF sent THEN {n} ELSE IF tcsrv = NoArg THEN Services ELSE {tcsrv}

\* recv blocks until the client sends or ends.
TcRecv ==
    /\ tcpc = "recv"
    /\ cli[tcfd] = "sent" \/ tcfd \in gone
    /\ tcsrv' \in StaleOr(cli[tcfd] = "sent", req[tcfd])
    /\ class' = [class EXCEPT ![tcfd] = tcsrv']
    /\ tcpc' = "dispatch"
    /\ UNCHANGED <<cliVars, backlog, tcfd, sigusr1, tierVars, alive, chan, open>>

\* a number without a case: the connection stays open and is never served
TcIgnore ==
    /\ tcpc = "dispatch" /\ tcsrv = 0
    /\ tcpc' = "accept"
    /\ UNCHANGED <<cliVars, backlog, tcfd, tcsrv, sigusr1, tierVars, alive,
                   chan, open, class>>

TcDispatch ==
    /\ tcpc = "dispatch" /\ tcsrv # 0
    /\ alive[TierOf(tcsrv)]
    /\ send_file_descriptor(<<"tc", TierOf(tcsrv)>>, tcfd)
    /\ tcpc' = "accept"
    /\ UNCHANGED <<cliVars, backlog, tcfd, tcsrv, sigusr1, tierVars, alive,
                   open, class>>

\* The class server has ended: sendmsg raises SIGPIPE.
TcBroken ==
    /\ tcpc = "dispatch" /\ tcsrv # 0
    /\ ~alive[TierOf(tcsrv)]
    /\ TcDies

\* handler_func interrupts the loop wherever it is
TcSignal ==
    /\ sigusr1 /\ tcpc \in {"accept", "recv", "dispatch"}
    /\ tcpc' = "handler"
    /\ sigusr1' = FALSE
    /\ UNCHANGED <<cliVars, backlog, tcfd, tcsrv, tierVars, alive, chan, open,
                   class>>

\* ... sleeps two seconds and exits
TcExit ==
    /\ tcpc = "handler"
    /\ TcDies

-----------------------------------------------------------------------------
(* c.c, s.c and e.c: the main loop                                          *)

\* Mutant of Selected: the neighbour's connection is not polled.
SelectedCounter(t, src) == src = "tc" /\ Readable(<<src, t>>)

\* poll looks at the counter's connection first (s.c:173, e.c:146), at the
\* neighbour's only if nothing came from the counter; c.c has one connection.
Selected(t, src) ==
    /\ <<src, t>> \in Links
    /\ Readable(<<src, t>>)
    /\ src # "tc" => ~Readable(<<"tc", t>>)

\* Mutant of TierRecv: at EOF fd keeps the descriptor received last.
TierRecvKeeps(t, src) ==
    /\ alive[t] /\ at[t] = "poll"
    /\ Selected(t, src)
    /\ LET fd == Received(<<src, t>>) IN
        /\ slot' = IF fd = Junk THEN slot ELSE [slot EXCEPT ![t][Cell(src)] = fd]
        /\ open' = [open EXCEPT ![t] = @ \union ({fd} \ {Junk})]
    /\ chan' = [chan EXCEPT ![<<src, t>>] = IF @ = <<>> THEN @ ELSE Tail(@)]
    /\ at' = [at EXCEPT ![t] = src]
    /\ UNCHANGED <<cliVars, tcVars, threads, alive, class>>

TierRecv(t, src) ==
    /\ alive[t] /\ at[t] = "poll"
    /\ Selected(t, src)
    /\ LET fd == Received(<<src, t>>) IN
        /\ slot' = [slot EXCEPT ![t][Cell(src)] = fd]
        /\ open' = [open EXCEPT ![t] = @ \union ({fd} \ {Junk})]
    /\ chan' = [chan EXCEPT ![<<src, t>>] = IF @ = <<>> THEN @ ELSE Tail(@)]
    /\ at' = [at EXCEPT ![t] = src]
    /\ UNCHANGED <<cliVars, tcVars, threads, alive, class>>

\* the descriptor the running block of tier t has received
Held(t) == slot[t][Cell(at[t])]

\* pthread_create(&threads[clients_no++],NULL,func,(void *)(&fd))
TierSpawn(t) ==
    /\ alive[t] /\ at[t] \in Sources
    /\ ~Full(t)
    /\ threads' = [threads EXCEPT ![t] =
                     Append(@, [own |-> Held(t), cell |-> Cell(at[t]), fd |-> Unread])]
    /\ at' = [at EXCEPT ![t] = "poll"]
    /\ UNCHANGED <<cliVars, tcVars, slot, alive, chan, open, class>>

\* Mutants of TierForward: the descriptor is sent again and again; or the send is
\* left out.
TierForwardAgain(t) ==
    /\ t # "e"
    /\ alive[t] /\ at[t] \in Sources
    /\ Full(t)
    /\ alive[Overflow[t]]
    /\ send_file_descriptor(<<t, Overflow[t]>>, Held(t))
    /\ UNCHANGED <<cliVars, tcVars, at, slot, threads, alive, open, class>>

TierForwardDrops(t) ==
    /\ t # "e"
    /\ alive[t] /\ at[t] \in Sources
    /\ Full(t)
    /\ alive[Overflow[t]]
    /\ at' = [at EXCEPT ![t] = "poll"]
    /\ UNCHANGED <<cliVars, tcVars, slot, threads, alive, chan, open, class>>

TierForward(t) ==
    /\ t # "e"
    /\ alive[t] /\ at[t] \in Sources
    /\ Full(t)
    /\ alive[Overflow[t]]
    /\ send_file_descriptor(<<t, Overflow[t]>>, Held(t))
    /\ at' = [at EXCEPT ![t] = "poll"]
    /\ UNCHANGED <<cliVars, tcVars, slot, threads, alive, open, class>>

\* The next class server has ended: sendmsg raises SIGPIPE.
TierBroken(t) ==
    /\ t # "e"
    /\ alive[t] /\ at[t] \in Sources
    /\ Full(t)
    /\ ~alive[Overflow[t]]
    /\ TierDies(t)

\* Mutant of EKill: e signals with tickets left.
EKillAlways ==
    /\ alive["e"] /\ at["e"] \in Sources
    /\ sigusr1' = alive["tc"]
    /\ at' = [at EXCEPT !["e"] = "exit"]
    /\ UNCHANGED <<cliVars, backlog, tcpc, tcfd, tcsrv, slot, threads, alive,
                   chan, open, class>>

\* kill(pid,SIGUSR1), lost when the counter has ended
EKill ==
    /\ alive["e"] /\ at["e"] \in Sources
    /\ Full("e")
    /\ sigusr1' = alive["tc"]
    /\ at' = [at EXCEPT !["e"] = "exit"]
    /\ UNCHANGED <<cliVars, backlog, tcpc, tcfd, tcsrv, slot, threads, alive,
                   chan, open, class>>

EExit ==
    /\ alive["e"] /\ at["e"] = "exit"
    /\ TierDies("e")

-----------------------------------------------------------------------------
(* c.c, s.c and e.c: func, the thread of a connection                       *)

\* int nfd = *((int *)arg): reads the slot of the main loop as it is now
ThreadLoad(t, i) ==
    /\ alive[t] /\ i \in 1..clients_no(t)
    /\ threads[t][i].fd = Unread
    /\ threads' = [threads EXCEPT ![t][i].fd = slot[t][threads[t][i].cell]]
    /\ UNCHANGED <<cliVars, tcVars, at, slot, alive, chan, open, class>>

\* The client has ended: the thread's next send raises SIGPIPE, which ends
\* the class server with all its threads. (On descriptor 0 send only fails.)
ThreadBroken(t, i) ==
    /\ alive[t] /\ i \in 1..clients_no(t)
    /\ threads[t][i].fd \in gone
    /\ TierDies(t)

-----------------------------------------------------------------------------
ClientStep(c) ==
    \/ \E n \in Requests : ClientConnect(c, n)
    \/ ClientRefused(c)
    \/ ClientSend(c)
    \/ ClientQuit(c)
    \/ ClientHangup(c)

TcStep == TcAccept \/ TcRecv \/ TcIgnore \/ TcDispatch \/ TcBroken \/ TcSignal \/ TcExit

TierStep(t) ==
    \/ \E src \in Sources : TierRecv(t, src)
    \/ TierSpawn(t)
    \/ TierForward(t)
    \/ TierBroken(t)

ThreadStep(t) == \E i \in 1..clients_no(t) : ThreadLoad(t, i) \/ ThreadBroken(t, i)

Next ==
    \/ \E c \in Clients : ClientStep(c)
    \/ TcStep
    \/ \E t \in Tiers : TierStep(t) \/ ThreadStep(t)
    \/ EKill
    \/ EExit

Spec == Init /\ [][Next]_vars

\* Every process and every thread that can take a step takes one at last: the
\* kernel schedules them all, and no loop holds a lock. Connecting and quitting
\* are the users' choice.
Fairness ==
    /\ \A c \in Clients : WF_vars(ClientSend(c)) /\ WF_vars(ClientHangup(c))
    /\ WF_vars(TcStep)
    /\ \A t \in Tiers : WF_vars(TierStep(t))
    /\ WF_vars(EKill)
    /\ WF_vars(EExit)
    /\ \A t \in Tiers : WF_vars(ThreadStep(t))

FairSpec == Spec /\ Fairness
-----------------------------------------------------------------------------
(* Properties                                                               *)

\* Only a client with an argument sends a number (client.c:32), so the counter
\* never reads one outside Services. With TypeOK it is inductive.
SentNumber == \A c \in Clients : cli[c] = "sent" => req[c] \in Services

\* The clients in the care of tier t: on their way to it, received by its main
\* loop, or given a thread.
HeldBy(t) == IF at[t] \in Sources THEN {Held(t)} ELSE {}
Sold(t) == {threads[t][i].own : i \in 1..clients_no(t)}
InFlight(t) == UNION {Elements(chan[l]) : l \in {k \in Links : k[2] = t}}
InCare(t) == InFlight(t) \union HeldBy(t) \union Sold(t)

Placed(c, t) ==
    /\ class[c] \in 1..Rank[t]
    /\ \A u \in Tiers : Rank[u] \in class[c]..(Rank[t] - 1) => Full(u)

\* A client is only ever moved up (c to s to e), and it is at a class server
\* above the class it was sent to only if every server in between is full.
\* (c.c:148-154, s.c:178-186,194-202: the overflow test of each server)
OverflowOnlyWhenFull ==
    \A t \in Tiers : \A c \in InCare(t) \ {Junk} : Placed(c, t)

\* Where the connection of client c can be.
OnBacklog(c) == c \in Elements(backlog)
AtCounter(c) == tcpc \in {"recv", "dispatch"} /\ tcfd = c
Flies(c)     == \E l \in Links : c \in Elements(chan[l])
IsHeld(c)    == \E t \in Tiers : at[t] \in Sources /\ Held(t) = c
HasTicket(c) == \E t \in Tiers : c \in Sold(t)

OneKind ==
    \A c \in Clients :
        /\ OnBacklog(c) => ~(AtCounter(c) \/ Flies(c) \/ IsHeld(c) \/ HasTicket(c))
        /\ AtCounter(c) => ~(Flies(c) \/ IsHeld(c) \/ HasTicket(c))
        /\ Flies(c)     => ~(IsHeld(c) \/ HasTicket(c))
        /\ IsHeld(c)    => ~HasTicket(c)
OneOnBacklog ==
    \A i, j \in 1..Len(backlog) : backlog[i] = backlog[j] => i = j
OneFlies ==
    \A l, m \in Links : \A i \in 1..Len(chan[l]), j \in 1..Len(chan[m]) :
        chan[l][i] = chan[m][j] /\ chan[l][i] # Junk => l = m /\ i = j
OneHeld ==
    \A t, u \in Tiers :
        at[t] \in Sources /\ at[u] \in Sources /\ Held(t) = Held(u) /\ Held(t) # Junk
            => t = u
OneTicket ==
    \A t, u \in Tiers : \A i \in 1..clients_no(t), j \in 1..clients_no(u) :
        threads[t][i].own = threads[u][j].own /\ threads[t][i].own # Junk
            => t = u /\ i = j

\* A connection that is passed from process to process never multiplies: a
\* client is in one place only. (The slot of a main loop counts while its block
\* runs, c.c:146-154; what a thread loads from it later is not a place.)
OnePlace == OneKind /\ OneOnBacklog /\ OneFlies /\ OneHeld /\ OneTicket

\* A thread never serves a client whose ticket was sold before its own, even
\* though it reads the client's descriptor late from the stack slot of the main
\* loop (c.c:98,154; s.c:99,186,202; e.c:69,157,171).
NoStaleService ==
    \A t \in Tiers : \A i, j \in 1..clients_no(t) :
        i < j /\ threads[t][i].own # Junk => threads[t][j].fd # threads[t][i].own

\* The four programs implement the ticket office: a client is sold at most one
\* ticket, of the first class from its own upwards that is not sold out; and no
\* server counts a phantom client before a client has left or e has called the
\* counter to close. (tc.c:119-133, c.c:144-155, s.c:169-206, e.c:142-175)
Closing == sigusr1 \/ tcpc \in {"handler", "exited"}
Owners(t) == [i \in 1..clients_no(t) |-> threads[t][i].own]
Office == INSTANCE TicketOffice WITH
            sold    <- [t \in Tiers |-> Owners(t)],
            left    <- gone # {},
            closing <- Closing
ImplementsOffice == Office!Spec

\* e has been sold out to real clients
SoldOut == clients_no("e") = MaxClients["e"] /\ Junk \notin Sold("e")

\* While no client leaves, the counter announces that the tickets are full
\* (tc.c:57-62) only after each ticket of e went to a client of its own.
GenuineShutdown == tcpc = "handler" /\ gone = {} => SoldOut

\* What tc.c:59 prints, "Tickets are full the server is about to shutdown".
TicketsAreFull == tcpc = "handler" => SoldOut

\* What the proofs need besides. The counter reads the class of a client once:
Unclassified(c) == class[c] = 0
ClassOnce ==
    /\ \A c \in Clients : cli[c] = "idle" =>
            Unclassified(c) /\ ~OnBacklog(c) /\ ~AtCounter(c)
    /\ \A c \in Clients : OnBacklog(c) => Unclassified(c)
    /\ tcpc = "recv" => Unclassified(tcfd) /\ ~OnBacklog(tcfd)
    /\ tcpc = "dispatch" => class[tcfd] = tcsrv

\* who has ended, and who is about to
Ends ==
    /\ alive["tc"] <=> tcpc # "exited"
    /\ at["c"] # "exit" /\ at["s"] # "exit"
    /\ at["e"] = "exit" => Closing

\* there are no phantom clients before somebody left or e calls for the end
NoPhantomYet ==
    gone = {} /\ ~Closing =>
        /\ \A p \in Procs : alive[p]
        /\ \A t \in Tiers : Junk \notin InCare(t)

CapacityKept == \A t \in Tiers : clients_no(t) <= MaxClients[t]
GenuineClose == gone = {} /\ Closing => SoldOut

IndInv == ClassOnce /\ Ends /\ NoPhantomYet /\ CapacityKept /\ GenuineClose

AllDown == \A p \in Procs : ~alive[p]

\* When the counter ends, all class servers end and every connected client ends
\* too, although nobody tells them: EOF reads as descriptor 0, which fills the
\* class servers until e exits, and SIGPIPE ends the others. (c.c:77-78,146-154,
\* s.c:78-79,182, e.c:151-154, client.c:33-38)
ShutdownCascade ==
    ~alive["tc"] ~> (AllDown /\ \A c \in Clients : cli[c] = "idle" \/ c \in gone)

\* The end of a class server spreads up the chain: e cannot outlive s, nor s c.
\* (A server that ends leaves the one below it running: c may outlive s.)
EndSpreadsUp == \A t \in {"c", "s"} : ~alive[t] ~> ~alive[Overflow[t]]

\* While nobody leaves, a client that asks for class 1, 2 or 3 gets a ticket or
\* the counter is called to close. (tc.c:119-133 and the loops of c.c, s.c, e.c.
\* The departure of any other client may end the class server that holds c, and
\* c then waits for ever on the connection the counter keeps open.)
EveryRequestSettled ==
    \A c \in Clients :
        cli[c] = "sent" /\ req[c] \in 1..3
            ~> ((\E t \in Tiers : c \in Sold(t)) \/ gone # {} \/ Closing)
=============================================================================
