----------------------------- MODULE CseStartup -----------------------------
(***************************************************************************)
(* How the servers of unixsockets/csemulti come up: what their mains do     *)
(* before the loops that CseMulti models. Each program connects to servers  *)
(* that must already listen (it exits when they do not, and its user starts *)
(* it again), then waits for the connections it expects, in a fixed order.  *)
(* A process that has run its script is in its loop.                        *)
(***************************************************************************)
EXTENDS Naturals, Sequences

CONSTANT MaxStarts    \* how often a program is started at most
ASSUME StartsAssumption == MaxStarts \in Nat \ {0}

Procs == {"tc", "c", "s", "e"}
\* from the process that connects to the one that listens
Links == {<<"tc", "c">>, <<"tc", "s">>, <<"tc", "e">>, <<"c", "s">>, <<"s", "e">>}

Op(name, l) == [op |-> name, link |-> l]
Plain(name) == Op(name, <<"tc", "e">>)
\* bind and listen; connect; send the greeting; accept; recv the greeting
Listen(l)  == Op("listen", l)
Connect(l) == Op("connect", l)
Greet(l)   == Op("greet", l)
Accept(l)  == Op("accept", l)
Recv(l)    == Op("recv", l)

ProgramTc ==
    <<Plain("publish"),
      Connect(<<"tc", "c">>), Greet(<<"tc", "c">>),
      Connect(<<"tc", "s">>), Greet(<<"tc", "s">>),
      Connect(<<"tc", "e">>), Greet(<<"tc", "e">>)>>

ProgramC ==
    <<Connect(<<"c", "s">>), Greet(<<"c", "s">>),
      Listen(<<"tc", "c">>),
      Accept(<<"tc", "c">>), Recv(<<"tc", "c">>)>>

ProgramS ==
    <<Connect(<<"s", "e">>), Greet(<<"s", "e">>),
      Listen(<<"tc", "s">>), Listen(<<"c", "s">>),
      Accept(<<"c", "s">>), Recv(<<"c", "s">>),
      Accept(<<"tc", "s">>), Recv(<<"tc", "s">>)>>

\* Mutant of ProgramE: the counter's pid is read before the counter connects.
ProgramEPidFirst ==
    <<Listen(<<"tc", "e">>), Listen(<<"s", "e">>),
      Accept(<<"s", "e">>), Recv(<<"s", "e">>), Plain("gettspid"),
      Accept(<<"tc", "e">>), Recv(<<"tc", "e">>)>>

ProgramE ==
    <<Listen(<<"tc", "e">>), Listen(<<"s", "e">>),
      Accept(<<"s", "e">>), Recv(<<"s", "e">>),
      Accept(<<"tc", "e">>), Recv(<<"tc", "e">>),
      Plain("gettspid")>>

Program == [tc |-> ProgramTc, c |-> ProgramC, s |-> ProgramS, e |-> ProgramE]

VARIABLES
    pc,         \* the next step of each running process, 0 while it is down
    gen,        \* how often each program was started: its pid
    listening,  \* the links whose listener accepts connections
    queue,      \* connections made on a link and not yet accepted: pids
    conn,       \* the connection accepted on a link: a pid, 0 before
    greeted,    \* the connections a greeting was sent on
    shm,        \* the pid in the segment 5679, 0 before
    pid,        \* the pid e signals
    halfway     \* some counter gave up after its first connection

vars == <<pc, gen, listening, queue, conn, greeted, shm, pid, halfway>>

Pids == 0..MaxStarts

Up(p) == pc[p] # 0
InLoop(p) == pc[p] = Len(Program[p]) + 1
\* process p is about to do op
AtOp(p, op) == Up(p) /\ ~InLoop(p) /\ Program[p][pc[p]].op = op
TheLink(p) == Program[p][pc[p]].link

TypeOK ==
    /\ pc \in [Procs -> 0..9]
    /\ \A p \in Procs : pc[p] <= Len(Program[p]) + 1
    /\ gen \in [Procs -> Pids]
    /\ listening \subseteq Links
    /\ queue \in [Links -> Seq(1..MaxStarts)]
    /\ conn \in [Links -> Pids]
    /\ greeted \subseteq Links \X (1..MaxStarts)
    /\ shm \in Pids
    /\ pid \in Pids
    /\ halfway \in BOOLEAN
    /\ \A p \in Procs : AtOp(p, "recv") => conn[TheLink(p)] # 0

Init ==
    /\ pc = [p \in Procs |-> 0]
    /\ gen = [p \in Procs |-> 0]
    /\ listening = {}
    /\ queue = [l \in Links |-> <<>>]
    /\ conn = [l \in Links |-> 0]
    /\ greeted = {}
    /\ shm = 0
    /\ pid = 0
    /\ halfway = FALSE

Proceed(p) == pc' = [pc EXCEPT ![p] = @ + 1]

\* The user starts the program.
Start(p) ==
    /\ ~Up(p) /\ gen[p] < MaxStarts
    /\ pc' = [pc EXCEPT ![p] = 1]
    /\ gen' = [gen EXCEPT ![p] = @ + 1]
    /\ UNCHANGED <<listening, queue, conn, greeted, shm, pid, halfway>>

ListenStep(p) ==
    /\ AtOp(p, "listen")
    /\ listening' = listening \union {TheLink(p)}
    /\ Proceed(p)
    /\ UNCHANGED <<gen, queue, conn, greeted, shm, pid, halfway>>

\* connect returns at once: the backlog takes the connection
ConnectStep(p) ==
    /\ AtOp(p, "connect")
    /\ TheLink(p) \in listening
    /\ queue' = [queue EXCEPT ![TheLink(p)] = Append(@, gen[p])]
    /\ Proceed(p)
    /\ UNCHANGED <<gen, listening, conn, greeted, shm, pid, halfway>>

\* "connect error": error_func exits, the sockets of the process are closed
ConnectFails(p) ==
    /\ AtOp(p, "connect")
    /\ TheLink(p) \notin listening
    /\ pc' = [pc EXCEPT ![p] = 0]
    /\ LET own == {l \in Links : l[2] = p} IN
        /\ listening' = listening \ own
        /\ queue' = [l \in Links |-> IF l \in own THEN <<>> ELSE queue[l]]
        /\ conn' = [l \in Links |-> IF l \in own THEN 0 ELSE conn[l]]
    /\ halfway' = (halfway \/ (p = "tc" /\ TheLink(p) # <<"tc", "c">>))
    /\ UNCHANGED <<gen, greeted, shm, pid>>

GreetStep(p) ==
    /\ AtOp(p, "greet")
    /\ greeted' = greeted \union {<<TheLink(p), gen[p]>>}
    /\ Proceed(p)
    /\ UNCHANGED <<gen, listening, queue, conn, shm, pid, halfway>>

AcceptStep(p) ==
    /\ AtOp(p, "accept")
    /\ queue[TheLink(p)] # <<>>
    /\ conn' = [conn EXCEPT ![TheLink(p)] = Head(queue[TheLink(p)])]
    /\ queue' = [queue EXCEPT ![TheLink(p)] = Tail(@)]
    /\ Proceed(p)
    /\ UNCHANGED <<gen, listening, greeted, shm, pid, halfway>>

\* the process at the other end of link l, as accepted, still runs
PeerRuns(l) == Up(l[1]) /\ gen[l[1]] = conn[l]

\* recv returns the greeting, or 0 when the other end is closed
RecvStep(p) ==
    /\ AtOp(p, "recv")
    /\ <<TheLink(p), conn[TheLink(p)]>> \in greeted \/ ~PeerRuns(TheLink(p))
    /\ Proceed(p)
    /\ UNCHANGED <<gen, listening, queue, conn, greeted, shm, pid, halfway>>

\* tc: *shm=pid
PublishStep ==
    /\ AtOp("tc", "publish")
    /\ shm' = gen["tc"]
    /\ Proceed("tc")
    /\ UNCHANGED <<gen, listening, queue, conn, greeted, pid, halfway>>

\* e: pid=*s
gettspid ==
    /\ AtOp("e", "gettspid")
    /\ pid' = shm
    /\ Proceed("e")
    /\ UNCHANGED <<gen, listening, queue, conn, greeted, shm, halfway>>

ProcStep(p) ==
    \/ ListenStep(p)
    \/ ConnectStep(p)
    \/ ConnectFails(p)
    \/ GreetStep(p)
    \/ AcceptStep(p)
    \/ RecvStep(p)
    \/ p = "tc" /\ PublishStep
    \/ p = "e" /\ gettspid

Next == \E p \in Procs : Start(p) \/ ProcStep(p)

Spec == Init /\ [][Next]_vars

\* Every running process proceeds; starting one is the user's choice.
FairSpec == Spec /\ \A p \in Procs : WF_vars(ProcStep(p))
-----------------------------------------------------------------------------
(* Properties                                                               *)

\* e signals the counter it is connected to, or one started later, never a
\* process that is gone: the counter publishes its pid before it connects, and e
\* reads it after the greeting. (tc.c:78,109, e.c:128-132)
FreshPid == InLoop("e") => pid >= conn[<<"tc", "e">>] /\ pid > 0

\* the position of a step in the script of a process
Past(p, step) == \E i \in 1..(pc[p] - 1) : i <= Len(Program[p]) /\ Program[p][i] = step

\* A process that has connected keeps a peer: its connection waits in the
\* backlog or has been accepted, whatever failures and restarts came before,
\* because c and s connect before they listen. Only a counter that gives up
\* half-way breaks this. (c.c:127-135, s.c:136-147, tc.c:104-109)
LinksStand ==
    ~halfway => \A l \in Links :
        Past(l[1], Connect(l)) =>
            \/ conn[l] = gen[l[1]]
            \/ conn[l] = 0 /\ queue[l] # <<>> /\ Head(queue[l]) = gen[l[1]]

\* Four running servers do not wait for one another for ever: all reach their loops, or
\* one of them has exited, so that AllUp leads to AllServing or the end of one.
\* (c.c:127-141, s.c:136-158, e.c:117-132, tc.c:104-117)
AllUp == \A p \in Procs : Up(p)
AllServing == \A p \in Procs : InLoop(p)
=============================================================================
