-------------------------- MODULE MultiplexProofs --------------------------
(***************************************************************************)
(* Proofs about the servers with a thread or a process for each client,    *)
(* for any number of clients, services, threads, processes and             *)
(* descriptors: who is served by whom, what a client was sent stays right, *)
(* how often a program is executed, and what is lost for ever.             *)
(***************************************************************************)
EXTENDS MCMultiplex, SequenceTheorems, FiniteSetTheorems, WellFoundedInduction, TLAPS

\* The service programs of mss, tss and ThreadServers are one program: what holds of the
\* steps of all services holds of those of each server.
W == INSTANCE Workers WITH Pre <- Prethreaded

(***************************************************************************)
(* The inductive invariants                                                *)
(***************************************************************************)
WorkerTypes(C, S) ==
    /\ service \in [S -> {"off", "starting", "up", "dead"}]
    /\ backlog \in [S -> Seq(C)] /\ conn \in [S -> Seq(C)]
    /\ nfd \in [S -> Nat] /\ thread \in [S -> Seq(Nat)]
    /\ client \in [C -> {"off", "asked", "told", "talking", "gone"}]
    /\ port \in [C -> S \cup {Nobody}] /\ answered \subseteq C

\* main has accepted at most one connection more than it has threads, and the variable
\* accept assigns holds the descriptor of the newest connection or a later one.
ThreadsOf(s) ==
    /\ Len(thread[s]) <= Len(conn[s]) /\ Len(conn[s]) <= Len(thread[s]) + 1
    /\ s \in Refusing \cup Prethreaded => Len(thread[s]) <= Limit[s]
    /\ service[s] # "up" => conn[s] = <<>> /\ backlog[s] = <<>>
    /\ IF s \in Prethreaded
       THEN Len(conn[s]) = Len(thread[s]) /\ \A i \in 1..Len(thread[s]) : thread[s][i] = i
       ELSE /\ Len(conn[s]) <= nfd[s]
            /\ \A i \in 1..Len(thread[s]) : thread[s][i] # 0 => thread[s][i] >= i
WorkerInv(C, S) == WorkerTypes(C, S) /\ \A s \in S : ThreadsOf(s)

\* A client is at the service whose port it was told; those that were answered by a
\* service whose threads read their descriptors in time have a thread each.
InBacklog(c, s) == \E j \in 1..Len(backlog[s]) : backlog[s][j] = c
InConn(c, s) == \E j \in 1..Len(conn[s]) : conn[s][j] = c
InTime(s) == \A i \in 1..Len(thread[s]) : thread[s][i] <= i
HasThread(c, s) == \E i \in 1..Len(thread[s]) : conn[s][i] = c
Connected(C, S) ==
    /\ \A c \in C, s \in S :
           InBacklog(c, s) \/ InConn(c, s) => port[c] = s /\ client[c] \in {"talking", "gone"}
    /\ \A c \in answered : client[c] \in {"talking", "gone"}
    /\ \A c \in answered, s \in S :
           InTime(s) /\ (InBacklog(c, s) \/ InConn(c, s)) => HasThread(c, s)

MssInv ==
    /\ WorkerInv(MssClients, Registered)
    /\ services \in Seq(Registered) /\ squeue \in Seq(Registered)
    /\ Len(services) + Len(squeue) <= max_services
    /\ readset \subseteq {"ssfd", "csfd"} /\ left \in 0 .. Rounds
    /\ cqueue \in Seq(MssClients) /\ want \in [MssClients -> Nat]
    /\ sent \subseteq MssClients /\ M!StillRight
    /\ \A c \in sent : client[c] # "off"

\* The main servers that take s for started
Knowing(s) == {p \in procs : s \in started[p]}
TssInv ==
    /\ WorkerInv(Clients, Started) /\ Connected(Clients, Started)
    /\ \E k \in 1 .. MainServers : procs = 0 .. k - 1
    /\ started \in [T!Procs -> SUBSET Started] /\ asking \in [T!Procs -> Clients \cup {Nobody}]
    /\ queue \in Seq(Clients) /\ wish \in [Clients -> Started \cup {Nobody}]
    /\ starts \in [Started -> Nat]
    /\ \A j \in 1..Len(queue) : wish[queue[j]] # Nobody
    /\ \A p \in T!Procs : asking[p] # Nobody => wish[asking[p]] # Nobody
    /\ \A c \in Clients : client[c] = "told" => port[c] = wish[c]
    \* every execution was by a main server that has marked the program since
    /\ \A s \in Started : starts[s] <= Cardinality(Knowing(s))

PassInv ==
    /\ ps_queue \in Seq(Clients) /\ ps_passed \in Seq(Clients) /\ ps_conn \in Seq(Clients)
    /\ ps_thread \in Seq(Int) /\ ps_fd \in Int /\ ps_answered \subseteq Clients
    /\ ps_client \in [Clients -> {"off", "talking", "gone"}]
    /\ Len(ps_thread) <= max_clients /\ Len(ps_conn) <= Len(ps_thread)
    /\ ps_server # "up" => ps_conn = <<>> /\ ps_thread = <<>>
    \* after the end of file there are no more connections
    /\ IF ps_fd = -1 THEN ps_passed = <<>> /\ ps_mainserver = "dead"
       ELSE ps_server # "dead" => ps_fd = Len(ps_conn) /\ Len(ps_conn) = Len(ps_thread)
    /\ P!NeverBackwards

Queued(c) == \E p \in 1 .. NPorts : \E j \in 1..Len(fk_queue[p]) : fk_queue[p][j] = c
ForkTypes ==
    /\ K!TypeOK /\ fk_queue \in [1 .. NPorts -> Seq(Clients)]
    /\ fk_present \in BOOLEAN /\ fk_badlen \in BOOLEAN /\ fk_signalled \in BOOLEAN
\* Which processes run the server's loop, and whom superserver waits for
Loops ==
    /\ fk_pc[0] \in {"select", "scan", "wait"}
    /\ \A q \in K!Procs : /\ fk_pc[q] = "wait" => fk_kind = "superserver"
                          /\ fk_pc[q] = "scan" => fk_ready[q] # {}
    /\ fk_present => \A q \in K!Procs \ {0} : fk_pc[q] \in {"none", "server1", "zombie"}
    /\ ~fk_present => \A q \in K!Procs : fk_pc[q] # "server1"
    /\ fk_kind = "superserver" =>
           \A q \in K!Procs : fk_pc[q] = "server1" => fk_pc[0] = "wait" /\ fk_child[0] = q
\* A client is in one queue, once, or has been accepted.
Queues ==
    /\ \A p \in 1 .. NPorts : \A j \in 1..Len(fk_queue[p]) : fk_client[fk_queue[p][j]] # "off"
    /\ \A p, o \in 1 .. NPorts : \A j \in 1..Len(fk_queue[p]), i \in 1..Len(fk_queue[o]) :
           fk_queue[p][j] = fk_queue[o][i] => p = o /\ j = i
    /\ \A q \in K!Procs : fk_nfd[q] # Nobody =>
           fk_client[fk_nfd[q]] # "off" /\ ~Queued(fk_nfd[q])
    /\ \A q, r \in K!Procs : q # r /\ fk_pc[q] = "server1" /\ fk_pc[r] = "server1" =>
           fk_nfd[q] = Nobody \/ fk_nfd[q] # fk_nfd[r]
\* Only process 0 accepts, so that what select returned still holds.
Alone == fk_kind # "dupserver" /\ ~fk_signalled /\ (fk_present \/ K!Closes)
ReadyPorts == Alone /\ fk_pc[0] = "scan" => \A p \in fk_ready[0] : fk_queue[p] # <<>>
ForkInv == ForkTypes /\ Loops /\ Queues /\ ReadyPorts

MultiplexInv ==
    /\ program = "mss" => MssInv
    /\ program = "tss" => TssInv
    /\ program = "direct" => WorkerInv(Clients, Threaded \cup Prethreaded)
    /\ PassInv /\ ForkInv
    /\ program # "mss" => left = 0
    /\ program # "tss" => wish = [c \in Clients |-> Nobody]

-----------------------------------------------------------------------------
(***************************************************************************)
(* Sequences                                                               *)
(***************************************************************************)
LEMMA AppendFacts ==
    ASSUME NEW S, NEW q \in Seq(S), NEW x \in S
    PROVE  /\ Append(q, x) \in Seq(S) /\ Len(q) \in Nat /\ Len(Append(q, x)) = Len(q) + 1
           /\ \A i \in 1..Len(q) : Append(q, x)[i] = q[i]
           /\ Append(q, x)[Len(q) + 1] = x
  OBVIOUS

LEMMA TailFacts ==
    ASSUME NEW S, NEW q \in Seq(S), q # <<>>
    PROVE  /\ Tail(q) \in Seq(S) /\ Len(q) \in Nat /\ Len(Tail(q)) = Len(q) - 1
           /\ 1 \in 1..Len(q) /\ Head(q) = q[1] /\ Head(q) \in S
           /\ \A i \in 1..Len(Tail(q)) : i + 1 \in 1..Len(q) /\ Tail(q)[i] = q[i + 1]
  OBVIOUS

LEMMA LenFacts ==
    ASSUME NEW S, NEW q \in Seq(S)
    PROVE  /\ Len(q) \in Nat /\ DOMAIN q = 1..Len(q) /\ (q = <<>> <=> Len(q) = 0)
           /\ \A i \in 1..Len(q) : q[i] \in S
  OBVIOUS

LEMMA FrontFacts ==
    ASSUME NEW S, NEW q \in Seq(S), q # <<>>, NEW r, r = SubSeq(q, 1, Len(q) - 1)
    PROVE  /\ r \in Seq(S) /\ Len(q) \in Nat /\ Len(r) = Len(q) - 1
           /\ \A i \in 1..Len(r) : r[i] = q[i]
  <1>1. Len(q) \in Nat /\ Len(q) >= 1
    OBVIOUS
  <1>2. PICK l : l = Len(q) - 1
    OBVIOUS
  <1>3. l \in 0 .. Len(q) /\ 1 \in 1 .. Len(q) + 1
    BY <1>1, <1>2
  <1>4. SubSeq(q, 1, l) = [i \in 1 .. l |-> q[i]]
    BY <1>1, <1>2, <1>3
  <1>5. \A i \in 1 .. l : q[i] \in S
    BY <1>1, <1>2, LenFacts
  <1>6. r \in Seq(S) /\ Len(r) = l /\ \A i \in 1 .. l : r[i] = q[i]
    BY <1>1, <1>2, <1>3, <1>4, <1>5
  <1> QED
    BY <1>1, <1>2, <1>6

\* A set of numbers that is not empty has a smallest one.
LEMMA Smallest ==
    ASSUME NEW A, A \subseteq Nat, A # {}
    PROVE  \E x \in A : \A y \in A : x <= y
  <1>1. PICK x \in A : \A y \in A : ~(<<y, x>> \in OpToRel(<, Nat))
    BY NatLessThanWellFounded, WFMin
  <1>2. ASSUME NEW y \in A PROVE x <= y
    <2>1. <<y, x>> \notin OpToRel(<, Nat)
      BY <1>1
    <2>2. ~(y < x)
      BY <2>1 DEF OpToRel
    <2> QED
      BY <2>2
  <1> QED
    BY <1>2

LEMMA LimitFacts == \A s \in Services : Limit[s] \in Nat
  BY ProgramsAssumption DEF Limit

-----------------------------------------------------------------------------
(***************************************************************************)
(* The services: one lemma for each step                                   *)
(***************************************************************************)
LEMMA OneService ==
    ASSUME NEW C, NEW S, WorkerInv(C, S), NEW s \in S, WorkerTypes(C, S)', ThreadsOf(s)',
           \A t \in S \ {s} : /\ service'[t] = service[t] /\ backlog'[t] = backlog[t]
                              /\ conn'[t] = conn[t] /\ nfd'[t] = nfd[t]
                              /\ thread'[t] = thread[t]
    PROVE  WorkerInv(C, S)'
  <1>1. ASSUME NEW t \in S \ {s} PROVE ThreadsOf(t)'
    BY <1>1 DEF WorkerInv, ThreadsOf
  <1> QED
    BY <1>1 DEF WorkerInv

LEMMA SameServices ==
    ASSUME NEW C, NEW S, WorkerInv(C, S), WorkerTypes(C, S)',
           UNCHANGED <<service, backlog, conn, nfd, thread>>
    PROVE  WorkerInv(C, S)'
  BY DEF WorkerInv, ThreadsOf

LEMMA ClientWorkers ==
    ASSUME NEW C, NEW S \in SUBSET Services, WorkerInv(C, S), NEW c \in C,
           W!ClientStep(c) \/ W!Leave(c)
    PROVE  WorkerInv(C, S)'
  <1>1. CASE W!Hangup(c) \/ W!Leave(c)
    <2>1. WorkerTypes(C, S)'
      BY <1>1 DEF WorkerInv, WorkerTypes, W!Hangup, W!Leave
    <2> QED
      BY <1>1, <2>1, SameServices DEF W!Hangup, W!Leave
  <1>2. CASE W!Connect(c)
    <2>1. CASE ~W!Up(port[c])
      <3>1. WorkerTypes(C, S)'
        BY <1>2, <2>1 DEF WorkerInv, WorkerTypes, W!Connect
      <3> QED
        BY <1>2, <2>1, <3>1, SameServices DEF W!Connect
    <2>2. CASE W!Up(port[c])
      <3>1. PICK s, q : s = port[c] /\ q = backlog[s]
        OBVIOUS
      <3>2. s \in S /\ service[s] = "up"
        BY <2>2, <3>1, ProgramsAssumption DEF WorkerInv, WorkerTypes, W!Up
      <3>3. q \in Seq(C) /\ Append(q, c) \in Seq(C)
        BY <3>1, <3>2, AppendFacts DEF WorkerInv, WorkerTypes
      <3>4. /\ backlog' = [backlog EXCEPT ![s] = Append(q, c)]
            /\ client' = [client EXCEPT ![c] = "talking"]
            /\ UNCHANGED <<service, conn, nfd, thread, port, answered>>
        BY <1>2, <2>2, <3>1 DEF W!Connect
      <3>5. WorkerTypes(C, S)'
        BY <3>3, <3>4 DEF WorkerInv, WorkerTypes
      <3>6. ThreadsOf(s)'
        BY <3>2, <3>4 DEF WorkerInv, ThreadsOf
      <3> QED
        BY <3>2, <3>4, <3>5, <3>6, OneService DEF WorkerInv, WorkerTypes
    <2> QED
      BY <2>1, <2>2
  <1> QED
    BY <1>1, <1>2 DEF W!ClientStep

LEMMA ListenWorkers ==
    ASSUME NEW C, NEW S \in SUBSET Services, WorkerInv(C, S), NEW s \in S, W!Listen(s)
    PROVE  WorkerInv(C, S)'
  <1>1. /\ service' = [service EXCEPT ![s] = "up"] /\ service[s] = "starting"
        /\ UNCHANGED <<backlog, conn, nfd, thread, client, port, answered>>
    BY DEF W!Listen
  <1>2. WorkerTypes(C, S)'
    BY <1>1 DEF WorkerInv, WorkerTypes
  <1>3. ThreadsOf(s)'
    BY <1>1 DEF WorkerInv, WorkerTypes, ThreadsOf
  <1> QED
    BY <1>1, <1>2, <1>3, OneService DEF WorkerInv, WorkerTypes

LEMMA AcceptWorkers ==
    ASSUME NEW C, NEW S \in SUBSET Services, WorkerInv(C, S), NEW s \in S, W!Accept(s)
    PROVE  WorkerInv(C, S)'
  <1>1. PICK q, b, k, h : q = conn[s] /\ b = backlog[s] /\ k = Len(conn[s]) /\ h = Head(b)
    OBVIOUS
  <1>2. /\ service[s] = "up" /\ s \notin Prethreaded /\ b # <<>> /\ Len(q) = Len(thread[s])
        /\ conn' = [conn EXCEPT ![s] = Append(q, h)] /\ nfd' = [nfd EXCEPT ![s] = k + 1]
        /\ backlog' = [backlog EXCEPT ![s] = Tail(b)]
        /\ UNCHANGED <<service, thread, client, port, answered>>
    BY <1>1 DEF W!Accept, W!Up
  <1>3. q \in Seq(C) /\ b \in Seq(C) /\ thread[s] \in Seq(Nat) /\ Len(thread[s]) \in Nat
    BY <1>1, LenFacts DEF WorkerInv, WorkerTypes
  <1>4. /\ Tail(b) \in Seq(C) /\ h \in C /\ Append(q, h) \in Seq(C)
        /\ k \in Nat /\ Len(Append(q, h)) = k + 1
    BY <1>1, <1>2, <1>3, TailFacts, AppendFacts
  <1>5. WorkerTypes(C, S)'
    BY <1>2, <1>4 DEF WorkerInv, WorkerTypes
  <1>6. conn'[s] = Append(q, h) /\ nfd'[s] = k + 1 /\ thread'[s] = thread[s] /\ service'[s] = "up"
    BY <1>2 DEF WorkerInv, WorkerTypes
  <1>7. ThreadsOf(s)'
    BY <1>1, <1>2, <1>3, <1>4, <1>6 DEF WorkerInv, ThreadsOf
  <1> QED
    BY <1>2, <1>5, <1>7, OneService DEF WorkerInv, WorkerTypes

LEMMA SpawnWorkers ==
    ASSUME NEW C, NEW S \in SUBSET Services, WorkerInv(C, S), NEW s \in S, W!Spawn(s)
    PROVE  WorkerInv(C, S)'
  <1>1. PICK q, k : q = thread[s] /\ k = Len(thread[s])
    OBVIOUS
  <1>2. /\ Len(conn[s]) > k /\ (s \in Refusing => k < Limit[s])
        /\ thread' = [thread EXCEPT ![s] = Append(q, 0)]
        /\ UNCHANGED <<service, backlog, conn, nfd, client, port, answered>>
    BY <1>1 DEF W!Spawn, W!HasRoom
  <1>3. q \in Seq(Nat) /\ Len(conn[s]) \in Nat /\ nfd[s] \in Nat /\ Limit[s] \in Nat
    BY <1>1, LenFacts, LimitFacts DEF WorkerInv, WorkerTypes
  <1>4. /\ Append(q, 0) \in Seq(Nat) /\ k \in Nat /\ Len(Append(q, 0)) = k + 1
        /\ \A i \in 1..k : Append(q, 0)[i] = q[i]
        /\ Append(q, 0)[k + 1] = 0
    BY <1>1, <1>3, AppendFacts
  <1>5. WorkerTypes(C, S)'
    BY <1>2, <1>4 DEF WorkerInv, WorkerTypes
  <1>6. thread'[s] = Append(q, 0)
    BY <1>2 DEF WorkerInv, WorkerTypes
  <1>7. Len(conn[s]) <= k + 1 /\ s \notin Prethreaded /\ conn[s] # <<>> /\ service[s] = "up"
        /\ \A i \in 1..k : q[i] # 0 => q[i] >= i
    BY <1>1, <1>2, <1>3, <1>4 DEF WorkerInv, ThreadsOf
  <1>8. Len(conn[s]) = k + 1
    BY <1>2, <1>3, <1>4, <1>7
  <1>9. Len(conn[s]) <= nfd[s]
    BY <1>7 DEF WorkerInv, ThreadsOf
  <1>10. \A i \in 1..(k + 1) : Append(q, 0)[i] # 0 => Append(q, 0)[i] >= i
    BY <1>4, <1>7
  <1>11. s \in Refusing => k + 1 <= Limit[s]
    BY <1>2, <1>3, <1>4
  <1>12. PICK u : u = Append(q, 0)
    OBVIOUS
  <1>13. /\ thread'[s] = u /\ Len(u) = k + 1 /\ Len(conn[s]) = Len(u)
         /\ s \in Refusing => Len(u) <= Limit[s]
         /\ \A i \in 1..Len(u) : u[i] # 0 => u[i] >= i
    BY <1>4, <1>6, <1>8, <1>10, <1>11, <1>12
  <1>14. /\ service'[s] = "up" /\ conn'[s] = conn[s] /\ nfd'[s] = nfd[s]
         /\ Len(u) <= Len(conn[s]) /\ Len(conn[s]) <= Len(u) + 1
    BY <1>2, <1>3, <1>4, <1>7, <1>13
  <1>15. ThreadsOf(s)'
    BY <1>7, <1>9, <1>13, <1>14 DEF ThreadsOf
  <1> QED
    BY <1>2, <1>5, <1>15, OneService DEF WorkerInv, WorkerTypes

LEMMA RefuseWorkers ==
    ASSUME NEW C, NEW S \in SUBSET Services, WorkerInv(C, S), NEW s \in S, W!Refuse(s)
    PROVE  WorkerInv(C, S)'
  <1>1. PICK q, r : q = conn[s] /\ r = SubSeq(q, 1, Len(q) - 1)
    OBVIOUS
  <1>2. /\ Len(q) > Len(thread[s]) /\ conn' = [conn EXCEPT ![s] = r]
        /\ UNCHANGED <<service, backlog, nfd, thread, client, port, answered>>
    BY <1>1 DEF W!Refuse
  <1>3. q \in Seq(C) /\ Len(q) \in Nat /\ Len(thread[s]) \in Nat /\ nfd[s] \in Nat
    BY <1>1, LenFacts DEF WorkerInv, WorkerTypes
  <1>4. r \in Seq(C) /\ Len(r) = Len(q) - 1 /\ q # <<>>
    <2>1. q # <<>>
      BY <1>2, <1>3
    <2> QED
      BY <1>1, <1>3, <2>1, FrontFacts
  <1>5. WorkerTypes(C, S)'
    BY <1>2, <1>4 DEF WorkerInv, WorkerTypes
  <1>6. conn'[s] = r
    BY <1>2 DEF WorkerInv, WorkerTypes
  <1>7. /\ Len(q) <= Len(thread[s]) + 1 /\ service[s] = "up" /\ s \notin Prethreaded
        /\ Len(q) <= nfd[s] /\ (s \in Refusing \cup Prethreaded => Len(thread[s]) <= Limit[s])
        /\ \A i \in 1..Len(thread[s]) : thread[s][i] # 0 => thread[s][i] >= i
    <2>1. ThreadsOf(s)
      BY DEF WorkerInv
    <2>2. service[s] = "up" /\ Len(q) <= Len(thread[s]) + 1
      BY <1>1, <1>4, <2>1 DEF ThreadsOf
    <2>3. s \notin Prethreaded
      BY <1>1, <1>2, <1>3, <2>1 DEF ThreadsOf
    <2> QED
      BY <1>1, <2>1, <2>2, <2>3 DEF ThreadsOf
  <1>8. ThreadsOf(s)'
    BY <1>2, <1>3, <1>4, <1>6, <1>7 DEF ThreadsOf
  <1> QED
    BY <1>2, <1>5, <1>8, OneService DEF WorkerInv, WorkerTypes

LEMMA PreAcceptWorkers ==
    ASSUME NEW C, NEW S \in SUBSET Services, WorkerInv(C, S), NEW s \in S, W!PreAccept(s)
    PROVE  WorkerInv(C, S)'
  <1>1. PICK q, b, k, h, t : /\ q = conn[s] /\ b = backlog[s] /\ k = Len(thread[s]) /\ h = Head(b)
                             /\ t = thread[s]
    OBVIOUS
  <1>2. /\ service[s] = "up" /\ s \in Prethreaded /\ b # <<>> /\ k < Limit[s]
        /\ conn' = [conn EXCEPT ![s] = Append(q, h)]
        /\ thread' = [thread EXCEPT ![s] = Append(t, k + 1)]
        /\ backlog' = [backlog EXCEPT ![s] = Tail(b)]
        /\ UNCHANGED <<service, nfd, client, port, answered>>
    BY <1>1 DEF W!PreAccept, W!Up, W!HasRoom
  <1>3. q \in Seq(C) /\ b \in Seq(C) /\ t \in Seq(Nat) /\ k \in Nat /\ Limit[s] \in Nat
    BY <1>1, LenFacts, LimitFacts DEF WorkerInv, WorkerTypes
  <1>4. Tail(b) \in Seq(C) /\ h \in C
    BY <1>1, <1>2, <1>3, TailFacts
  <1>5. Append(q, h) \in Seq(C) /\ Len(Append(q, h)) = Len(q) + 1 /\ Len(q) \in Nat
    BY <1>3, <1>4, AppendFacts
  <1>6. /\ Append(t, k + 1) \in Seq(Nat) /\ Len(Append(t, k + 1)) = k + 1
        /\ \A i \in 1..k : Append(t, k + 1)[i] = t[i]
        /\ Append(t, k + 1)[k + 1] = k + 1
    BY <1>1, <1>3, AppendFacts
  <1>7. WorkerTypes(C, S)'
    BY <1>2, <1>4, <1>5, <1>6 DEF WorkerInv, WorkerTypes
  <1>8. conn'[s] = Append(q, h) /\ thread'[s] = Append(t, k + 1) /\ service'[s] = "up"
    BY <1>2 DEF WorkerInv, WorkerTypes
  <1>9. Len(q) = k /\ \A i \in 1..k : t[i] = i
    BY <1>1, <1>2 DEF WorkerInv, ThreadsOf
  <1>10. \A i \in 1..(k + 1) : Append(t, k + 1)[i] = i
    BY <1>3, <1>6, <1>9
  <1>11. k + 1 <= Limit[s]
    BY <1>2, <1>3
  <1>12. \A i \in 1..Len(Append(t, k + 1)) : Append(t, k + 1)[i] = i
    BY <1>6, <1>10
  <1>13. PICK u, d : u = Append(t, k + 1) /\ d = Append(q, h)
    OBVIOUS
  <1>14. /\ thread'[s] = u /\ conn'[s] = d /\ Len(u) = k + 1 /\ Len(d) = k + 1
         /\ \A i \in 1..Len(u) : u[i] = i
    BY <1>5, <1>6, <1>8, <1>9, <1>12, <1>13
  <1>15. Len(u) <= Limit[s] /\ Len(u) <= Len(d) /\ Len(d) <= Len(u) + 1 /\ Len(d) = Len(u)
    BY <1>3, <1>11, <1>14
  <1>16. ThreadsOf(s)'
    BY <1>2, <1>8, <1>14, <1>15 DEF ThreadsOf
  <1> QED
    BY <1>2, <1>7, <1>16, OneService DEF WorkerInv, WorkerTypes

LEMMA DiesWorkers ==
    ASSUME NEW C, NEW S \in SUBSET Services, WorkerInv(C, S), NEW s \in S, W!Dies(s)
    PROVE  WorkerInv(C, S)'
  <1>1. /\ service' = [service EXCEPT ![s] = "dead"] /\ backlog' = [backlog EXCEPT ![s] = <<>>]
        /\ conn' = [conn EXCEPT ![s] = <<>>] /\ nfd' = [nfd EXCEPT ![s] = 0]
        /\ thread' = [thread EXCEPT ![s] = <<>>] /\ UNCHANGED <<client, port, answered>>
    BY DEF W!Dies, W!Reset
  <1>2. WorkerTypes(C, S)'
    BY <1>1 DEF WorkerInv, WorkerTypes
  <1>3. /\ service'[s] = "dead" /\ backlog'[s] = <<>> /\ conn'[s] = <<>> /\ nfd'[s] = 0
        /\ thread'[s] = <<>>
    BY <1>1 DEF WorkerInv, WorkerTypes
  <1>4. ThreadsOf(s)'
    BY <1>3, LimitFacts DEF ThreadsOf
  <1> QED
    BY <1>1, <1>2, <1>4, OneService DEF WorkerInv, WorkerTypes

LEMMA ThreadWorkers ==
    ASSUME NEW C, NEW S \in SUBSET Services, WorkerInv(C, S), NEW s \in S, W!Thread(s)
    PROVE  WorkerInv(C, S)'
  <1>0. thread[s] \in Seq(Nat) /\ DOMAIN thread[s] = 1..Len(thread[s]) /\ Len(thread[s]) \in Nat
    BY LenFacts DEF WorkerInv, WorkerTypes
  <1>1. PICK i \in 1..Len(thread[s]) : W!FuncStarts(s, i) \/ W!Echo(s, i) \/ W!Broken(s, i)
    BY <1>0 DEF W!Thread
  <1>2. CASE W!FuncStarts(s, i)
    <2>1. PICK t, x : t = [thread[s] EXCEPT ![i] = x] /\ x = nfd[s]
      OBVIOUS
    <2>2. /\ thread[s][i] = 0 /\ thread' = [thread EXCEPT ![s] = t]
          /\ UNCHANGED <<service, backlog, conn, nfd, client, port, answered>>
      BY <1>2, <2>1 DEF W!FuncStarts
    <2>3. x \in Nat /\ t \in Seq(Nat) /\ Len(t) = Len(thread[s])
          /\ \A j \in 1..Len(thread[s]) : t[j] = IF j = i THEN x ELSE thread[s][j]
      BY <1>0, <2>1 DEF WorkerInv, WorkerTypes
    <2>4. WorkerTypes(C, S)'
      BY <2>2, <2>3 DEF WorkerInv, WorkerTypes
    <2>5. thread'[s] = t
      BY <2>2 DEF WorkerInv, WorkerTypes
    <2>6. s \notin Prethreaded
      BY <1>0, <2>2 DEF WorkerInv, ThreadsOf
    <2>7. Len(conn[s]) \in Nat
      BY LenFacts DEF WorkerInv, WorkerTypes
    <2>8. x >= i
      BY <1>0, <2>1, <2>3, <2>6, <2>7 DEF WorkerInv, ThreadsOf
    <2>9. ThreadsOf(s)'
      <3>1. ThreadsOf(s)
        BY DEF WorkerInv
      <3>2. \A j \in 1..Len(t) : t[j] # 0 => t[j] >= j
        BY <2>3, <2>6, <2>8, <3>1 DEF ThreadsOf
      <3> QED
        BY <2>2, <2>3, <2>5, <2>6, <3>1, <3>2 DEF ThreadsOf
    <2> QED
      BY <2>2, <2>4, <2>9, OneService DEF WorkerInv, WorkerTypes
  <1>3. CASE W!Echo(s, i)
    <2>1. PICK d \in DOMAIN conn[s] : answered' = answered \cup {conn[s][d]}
      BY <1>3 DEF W!Echo, W!Peer
    <2>2. conn[s][d] \in C
      BY <2>1, LenFacts DEF WorkerInv, WorkerTypes
    <2>3. UNCHANGED <<service, backlog, conn, nfd, thread, client, port>>
      BY <1>3 DEF W!Echo
    <2>4. WorkerTypes(C, S)'
      BY <2>1, <2>2, <2>3 DEF WorkerInv, WorkerTypes
    <2> QED
      BY <2>3, <2>4, SameServices
  <1>4. CASE W!Broken(s, i)
    BY <1>4, DiesWorkers DEF W!Broken
  <1> QED
    BY <1>1, <1>2, <1>3, <1>4

\* What the services, and the clients once they know a port, do
WorkerStep(C, S) ==
    \/ \E c \in C : W!ClientStep(c) \/ W!Leave(c)
    \/ \E s \in S : W!Listen(s) \/ W!MainLoop(s) \/ W!Thread(s)

LEMMA WorkersStep ==
    ASSUME NEW C, NEW S \in SUBSET Services, WorkerInv(C, S), WorkerStep(C, S)
    PROVE  WorkerInv(C, S)'
  <1>1. ASSUME NEW s \in S, W!MainLoop(s) PROVE WorkerInv(C, S)'
    BY <1>1, AcceptWorkers, SpawnWorkers, RefuseWorkers, PreAcceptWorkers, DiesWorkers
       DEF W!MainLoop, W!Overrun
  <1> QED
    BY <1>1, ClientWorkers, ListenWorkers, ThreadWorkers DEF WorkerStep

-----------------------------------------------------------------------------
(***************************************************************************)
(* The services of mss, of tss and of ThreadServers                        *)
(***************************************************************************)
LEMMA MssWorkers ==
    ASSUME WorkerTypes(MssClients, Registered), M!Programs
    PROVE  WorkerStep(MssClients, Registered)
  <1>0. Nobody \notin Services /\ Registered \subseteq Services /\ MssClients \subseteq Clients
    BY ProgramsAssumption DEF Services
  <1>1. ASSUME NEW c \in MssClients, M!ClientStep(c) \/ M!Leave(c)
        PROVE  W!ClientStep(c) \/ W!Leave(c)
    <2>1. CASE M!Connect(c)
      <3>1. M!Up(port[c]) <=> W!Up(port[c])
        BY <1>0 DEF WorkerTypes, M!Up, W!Up
      <3> QED
        BY <2>1, <3>1 DEF M!Connect, W!Connect, W!ClientStep
    <2>2. CASE M!Hangup(c)
      BY <2>2 DEF M!Hangup, W!Hangup, M!Held, W!Held, M!Range, W!Range, W!ClientStep
    <2>3. CASE M!Leave(c)
      BY <2>3 DEF M!Leave, W!Leave
    <2> QED
      BY <1>1, <2>1, <2>2, <2>3 DEF M!ClientStep
  <1>2. ASSUME NEW s \in Registered, M!Listen(s) \/ M!MainLoop(s)
        PROVE  W!Listen(s) \/ W!MainLoop(s)
    <2>1. M!Up(s) <=> W!Up(s)
      BY <1>0 DEF M!Up, W!Up
    <2>2. CASE M!Listen(s)
      BY <2>2 DEF M!Listen, W!Listen
    <2>3. CASE M!Accept(s)
      BY <2>1, <2>3 DEF M!Accept, W!Accept, W!MainLoop
    <2>4. CASE M!Spawn(s)
      BY <2>4 DEF M!Spawn, W!Spawn, M!HasRoom, W!HasRoom, W!MainLoop
    <2>5. CASE M!Refuse(s)
      BY <2>5 DEF M!Refuse, W!Refuse, M!HasRoom, W!HasRoom, W!MainLoop
    <2>6. CASE M!PreAccept(s)
      BY <2>1, <2>6 DEF M!PreAccept, W!PreAccept, M!HasRoom, W!HasRoom, W!MainLoop
    <2>7. CASE M!Overrun(s)
      BY <2>7 DEF M!Overrun, W!Overrun, M!HasRoom, W!HasRoom, M!Dies, W!Dies, M!Reset, W!Reset,
                  W!MainLoop
    <2> QED
      BY <1>2, <2>2, <2>3, <2>4, <2>5, <2>6, <2>7 DEF M!MainLoop
  <1>3. ASSUME NEW s \in Registered, M!Thread(s) PROVE W!Thread(s)
    <2>1. PICK i \in DOMAIN thread[s] : M!FuncStarts(s, i) \/ M!Echo(s, i) \/ M!Broken(s, i)
      BY <1>3 DEF M!Thread
    <2>2. CASE M!FuncStarts(s, i)
      BY <2>2 DEF M!FuncStarts, W!FuncStarts, W!Thread
    <2>3. M!Peer(s, i) = W!Peer(s, i)
      BY DEF M!Peer, W!Peer
    <2>4. CASE M!Echo(s, i)
      BY <2>3, <2>4 DEF M!Echo, W!Echo, W!Thread
    <2>5. CASE M!Broken(s, i)
      BY <2>3, <2>5 DEF M!Broken, W!Broken, M!Dies, W!Dies, M!Reset, W!Reset, W!Thread
    <2> QED
      BY <2>1, <2>2, <2>4, <2>5
  <1> QED
    BY <1>1, <1>2, <1>3 DEF WorkerStep, M!Programs

LEMMA TssWorkers ==
    ASSUME WorkerTypes(Clients, Started), T!Programs
    PROVE  WorkerStep(Clients, Started)
  <1>0. Nobody \notin Services /\ Started \subseteq Services /\ Clients \subseteq Clients
    BY ProgramsAssumption DEF Services
  <1>1. ASSUME NEW c \in Clients, T!ClientStep(c) \/ T!Leave(c)
        PROVE  W!ClientStep(c) \/ W!Leave(c)
    <2>1. CASE T!Connect(c)
      <3>1. T!Up(port[c]) <=> W!Up(port[c])
        BY <1>0 DEF WorkerTypes, T!Up, W!Up
      <3> QED
        BY <2>1, <3>1 DEF T!Connect, W!Connect, W!ClientStep
    <2>2. CASE T!Hangup(c)
      BY <2>2 DEF T!Hangup, W!Hangup, T!Held, W!Held, T!Range, W!Range, W!ClientStep
    <2>3. CASE T!Leave(c)
      BY <2>3 DEF T!Leave, W!Leave
    <2> QED
      BY <1>1, <2>1, <2>2, <2>3 DEF T!ClientStep
  <1>2. ASSUME NEW s \in Started, T!Listen(s) \/ T!MainLoop(s)
        PROVE  W!Listen(s) \/ W!MainLoop(s)
    <2>1. T!Up(s) <=> W!Up(s)
      BY <1>0 DEF T!Up, W!Up
    <2>2. CASE T!Listen(s)
      BY <2>2 DEF T!Listen, W!Listen
    <2>3. CASE T!Accept(s)
      BY <2>1, <2>3 DEF T!Accept, W!Accept, W!MainLoop
    <2>4. CASE T!Spawn(s)
      BY <2>4 DEF T!Spawn, W!Spawn, T!HasRoom, W!HasRoom, W!MainLoop
    <2>5. CASE T!Refuse(s)
      BY <2>5 DEF T!Refuse, W!Refuse, T!HasRoom, W!HasRoom, W!MainLoop
    <2>6. CASE T!PreAccept(s)
      BY <2>1, <2>6 DEF T!PreAccept, W!PreAccept, T!HasRoom, W!HasRoom, W!MainLoop
    <2>7. CASE T!Overrun(s)
      BY <2>7 DEF T!Overrun, W!Overrun, T!HasRoom, W!HasRoom, T!Dies, W!Dies, T!Reset, W!Reset,
                  W!MainLoop
    <2> QED
      BY <1>2, <2>2, <2>3, <2>4, <2>5, <2>6, <2>7 DEF T!MainLoop
  <1>3. ASSUME NEW s \in Started, T!Thread(s) PROVE W!Thread(s)
    <2>1. PICK i \in DOMAIN thread[s] : T!FuncStarts(s, i) \/ T!Echo(s, i) \/ T!Broken(s, i)
      BY <1>3 DEF T!Thread
    <2>2. CASE T!FuncStarts(s, i)
      BY <2>2 DEF T!FuncStarts, W!FuncStarts, W!Thread
    <2>3. T!Peer(s, i) = W!Peer(s, i)
      BY DEF T!Peer, W!Peer
    <2>4. CASE T!Echo(s, i)
      BY <2>3, <2>4 DEF T!Echo, W!Echo, W!Thread
    <2>5. CASE T!Broken(s, i)
      BY <2>3, <2>5 DEF T!Broken, W!Broken, T!Dies, W!Dies, T!Reset, W!Reset, W!Thread
    <2> QED
      BY <2>1, <2>2, <2>4, <2>5
  <1> QED
    BY <1>1, <1>2, <1>3 DEF WorkerStep, T!Programs

LEMMA DirectWorkers ==
    ASSUME WorkerTypes(Clients, (Threaded \cup Prethreaded)), D!Next, \A c \in Clients : ~D!Run(c)
    PROVE  WorkerStep(Clients, (Threaded \cup Prethreaded))
  <1>0. Nobody \notin Services /\ (Threaded \cup Prethreaded) \subseteq Services /\ Clients \subseteq Clients
    BY ProgramsAssumption DEF Services
  <1>1. ASSUME NEW c \in Clients, D!ClientStep(c) \/ D!Leave(c)
        PROVE  W!ClientStep(c) \/ W!Leave(c)
    <2>1. CASE D!Connect(c)
      <3>1. D!Up(port[c]) <=> W!Up(port[c])
        BY <1>0 DEF WorkerTypes, D!Up, W!Up
      <3> QED
        BY <2>1, <3>1 DEF D!Connect, W!Connect, W!ClientStep
    <2>2. CASE D!Hangup(c)
      BY <2>2 DEF D!Hangup, W!Hangup, D!Held, W!Held, D!Range, W!Range, W!ClientStep
    <2>3. CASE D!Leave(c)
      BY <2>3 DEF D!Leave, W!Leave
    <2> QED
      BY <1>1, <2>1, <2>2, <2>3 DEF D!ClientStep
  <1>2. ASSUME NEW s \in (Threaded \cup Prethreaded), D!Listen(s) \/ D!MainLoop(s)
        PROVE  W!Listen(s) \/ W!MainLoop(s)
    <2>1. D!Up(s) <=> W!Up(s)
      BY <1>0 DEF D!Up, W!Up
    <2>2. CASE D!Listen(s)
      BY <2>2 DEF D!Listen, W!Listen
    <2>3. CASE D!Accept(s)
      BY <2>1, <2>3 DEF D!Accept, W!Accept, W!MainLoop
    <2>4. CASE D!Spawn(s)
      BY <2>4 DEF D!Spawn, W!Spawn, D!HasRoom, W!HasRoom, W!MainLoop
    <2>5. CASE D!Refuse(s)
      BY <2>5 DEF D!Refuse, W!Refuse, D!HasRoom, W!HasRoom, W!MainLoop
    <2>6. CASE D!PreAccept(s)
      BY <2>1, <2>6 DEF D!PreAccept, W!PreAccept, D!HasRoom, W!HasRoom, W!MainLoop
    <2>7. CASE D!Overrun(s)
      BY <2>7 DEF D!Overrun, W!Overrun, D!HasRoom, W!HasRoom, D!Dies, W!Dies, D!Reset, W!Reset,
                  W!MainLoop
    <2> QED
      BY <1>2, <2>2, <2>3, <2>4, <2>5, <2>6, <2>7 DEF D!MainLoop
  <1>3. ASSUME NEW s \in (Threaded \cup Prethreaded), D!Thread(s) PROVE W!Thread(s)
    <2>1. PICK i \in DOMAIN thread[s] : D!FuncStarts(s, i) \/ D!Echo(s, i) \/ D!Broken(s, i)
      BY <1>3 DEF D!Thread
    <2>2. CASE D!FuncStarts(s, i)
      BY <2>2 DEF D!FuncStarts, W!FuncStarts, W!Thread
    <2>3. D!Peer(s, i) = W!Peer(s, i)
      BY DEF D!Peer, W!Peer
    <2>4. CASE D!Echo(s, i)
      BY <2>3, <2>4 DEF D!Echo, W!Echo, W!Thread
    <2>5. CASE D!Broken(s, i)
      BY <2>3, <2>5 DEF D!Broken, W!Broken, D!Dies, W!Dies, D!Reset, W!Reset, W!Thread
    <2> QED
      BY <2>1, <2>2, <2>4, <2>5
  <1> QED
    BY <1>1, <1>2, <1>3 DEF WorkerStep, D!Next

\* What the services' steps leave alone
LEMMA WorkerFrame ==
    ASSUME NEW C, NEW S, WorkerTypes(C, S), WorkerStep(C, S)
    PROVE  /\ port' = port
           /\ \A c \in C : client[c] # "off" <=> client'[c] # "off"
  <1>1. ASSUME NEW c \in C, W!ClientStep(c) \/ W!Leave(c)
        PROVE  /\ port' = port /\ client[c] # "off"
               /\ \E v \in {"talking", "gone"} : client' = [client EXCEPT ![c] = v]
    BY <1>1 DEF W!ClientStep, W!Connect, W!Hangup, W!Leave
  <1>2. ASSUME NEW s \in S, W!Listen(s) \/ W!MainLoop(s) \/ W!Thread(s)
        PROVE  port' = port /\ client' = client
    BY <1>2 DEF W!Listen, W!MainLoop, W!Accept, W!Spawn, W!Refuse, W!Overrun, W!PreAccept,
                W!Thread, W!FuncStarts, W!Echo, W!Broken, W!Dies
  <1> QED
    BY <1>1, <1>2 DEF WorkerStep, WorkerTypes

-----------------------------------------------------------------------------
(***************************************************************************)
(* mss                                                                     *)
(***************************************************************************)
LEMMA MssRegister ==
    ASSUME MssInv, NEW s \in Registered, M!Register(s)
    PROVE  MssInv'
  <1>1. /\ service[s] \in {"off", "dead"} /\ Len(services) + Len(squeue) < max_services
        /\ service' = [service EXCEPT ![s] = "starting"] /\ squeue' = Append(squeue, s)
        /\ UNCHANGED <<backlog, conn, nfd, thread, client, port, answered, services, readset,
                       left, cqueue, want, sent>>
    BY DEF M!Register
  <1>2. WorkerTypes(MssClients, Registered)'
    BY <1>1 DEF MssInv, WorkerInv, WorkerTypes
  <1>3. ThreadsOf(s)'
    BY <1>1 DEF MssInv, WorkerInv, WorkerTypes, ThreadsOf
  <1>4. WorkerInv(MssClients, Registered)'
    BY <1>1, <1>2, <1>3, OneService DEF MssInv, WorkerInv, WorkerTypes
  <1>5. squeue' \in Seq(Registered) /\ Len(squeue') = Len(squeue) + 1
        /\ Len(squeue) \in Nat /\ Len(services) \in Nat
    BY <1>1, AppendFacts, LenFacts DEF MssInv
  <1>6. Len(services') + Len(squeue') <= max_services
    BY <1>1, <1>5, ProgramsAssumption
  <1>7. M!StillRight'
    BY <1>1 DEF MssInv, M!StillRight
  <1> QED
    BY <1>1, <1>4, <1>5, <1>6, <1>7 DEF MssInv

LEMMA MssAsk ==
    ASSUME MssInv, NEW c \in MssClients, M!Ask(c)
    PROVE  MssInv'
  <1>1. PICK k \in 1 .. max_services : want' = [want EXCEPT ![c] = k]
    BY DEF M!Ask
  <1>2. /\ client[c] = "off" /\ client' = [client EXCEPT ![c] = "asked"]
        /\ cqueue' = Append(cqueue, c)
        /\ UNCHANGED <<service, backlog, conn, nfd, thread, port, answered, services, readset,
                       left, squeue, sent>>
    BY DEF M!Ask
  <1>3. WorkerTypes(MssClients, Registered)'
    BY <1>2 DEF MssInv, WorkerInv, WorkerTypes
  <1>4. WorkerInv(MssClients, Registered)'
    BY <1>2, <1>3, SameServices DEF MssInv
  <1>5. cqueue' \in Seq(MssClients) /\ want' \in [MssClients -> Nat]
    BY <1>1, <1>2, AppendFacts, ProgramsAssumption DEF MssInv
  <1>6. c \notin sent /\ \A d \in MssClients \ {c} : want'[d] = want[d] /\ client'[d] = client[d]
    BY <1>1, <1>2 DEF MssInv, WorkerInv, WorkerTypes
  <1>7. M!StillRight' /\ \A d \in sent' : client'[d] # "off"
    BY <1>2, <1>6 DEF MssInv, M!StillRight
  <1> QED
    BY <1>2, <1>4, <1>5, <1>7 DEF MssInv

LEMMA MssLoop ==
    ASSUME MssInv, M!Select \/ M!Continue
    PROVE  MssInv'
  <1>1. UNCHANGED <<M!wvars, services, squeue, cqueue, want, sent>>
        /\ readset' \subseteq {"ssfd", "csfd"} /\ left' \in {0, Rounds}
    BY DEF M!Select, M!Continue, MssInv
  <1>2. /\ UNCHANGED <<service, backlog, conn, nfd, thread, client, port, answered>>
        /\ UNCHANGED <<services, squeue, cqueue, want, sent>>
    BY <1>1 DEF M!wvars
  <1>3. WorkerInv(MssClients, Registered)'
    BY <1>2 DEF MssInv, WorkerInv, WorkerTypes, ThreadsOf
  <1>4. M!StillRight'
    BY <1>2 DEF MssInv, M!StillRight
  <1>5. left' \in 0 .. Rounds
    BY <1>1, ProgramsAssumption
  <1> QED
    BY <1>1, <1>2, <1>3, <1>4, <1>5 DEF MssInv

LEMMA MssAcceptService ==
    ASSUME MssInv, M!AcceptService
    PROVE  MssInv'
  <1>1. PICK h : h = Head(squeue)
    OBVIOUS
  <1>2. /\ squeue # <<>> /\ services' = Append(services, h) /\ squeue' = Tail(squeue)
        /\ readset' = readset \ {"ssfd"} /\ left > 0 /\ left' = left - 1
        /\ UNCHANGED <<M!wvars, cqueue, want, sent>>
    BY <1>1 DEF M!AcceptService
  <1>3. UNCHANGED <<service, backlog, conn, nfd, thread, client, port, answered>>
    BY <1>2 DEF M!wvars
  <1>4. squeue' \in Seq(Registered) /\ Len(squeue') = Len(squeue) - 1 /\ h \in Registered
        /\ Len(squeue) \in Nat
    BY <1>1, <1>2, TailFacts DEF MssInv
  <1>5. services' \in Seq(Registered) /\ Len(services') = Len(services) + 1
        /\ Len(services) \in Nat /\ \A i \in 1..Len(services) : services'[i] = services[i]
    BY <1>2, <1>4, AppendFacts DEF MssInv
  <1>6. WorkerInv(MssClients, Registered)'
    BY <1>3 DEF MssInv, WorkerInv, WorkerTypes, ThreadsOf
  <1>7. Len(services') + Len(squeue') <= max_services
    BY <1>4, <1>5, ProgramsAssumption DEF MssInv
  <1>8. DOMAIN services = 1..Len(services) /\ DOMAIN services' = 1..(Len(services) + 1)
    BY <1>5, LenFacts DEF MssInv
  <1>9. M!StillRight'
    BY <1>2, <1>3, <1>5, <1>8 DEF MssInv, M!StillRight
  <1>10. left' \in 0 .. Rounds
    <2>1. left \in 0 .. Rounds /\ Rounds \in Nat
      BY ProgramsAssumption DEF MssInv
    <2> QED
      BY <1>2, <2>1
  <1> QED
    BY <1>2, <1>3, <1>4, <1>5, <1>6, <1>7, <1>9, <1>10 DEF MssInv

LEMMA MssAcceptClient ==
    ASSUME MssInv, M!AcceptClient
    PROVE  MssInv'
  <1>1. PICK c : c = Head(cqueue)
    OBVIOUS
  <1>2. /\ cqueue # <<>> /\ cqueue' = Tail(cqueue) /\ left > 0 /\ left' = left - 1
        /\ UNCHANGED <<service, backlog, conn, nfd, thread, answered, services, readset,
                       squeue, want>>
    BY DEF M!AcceptClient
  <1>3. cqueue' \in Seq(MssClients) /\ c \in MssClients
    BY <1>1, <1>2, TailFacts DEF MssInv
  <1>4. left' \in 0 .. Rounds
    BY <1>2, ProgramsAssumption DEF MssInv
  <1>5. CASE client[c] = "gone"
    <2>1. UNCHANGED <<client, port, sent>>
      BY <1>1, <1>5 DEF M!AcceptClient
    <2>2. WorkerInv(MssClients, Registered)'
      BY <1>2, <2>1 DEF MssInv, WorkerInv, WorkerTypes, ThreadsOf
    <2>3. M!StillRight'
      BY <1>2, <2>1 DEF MssInv, M!StillRight
    <2> QED
      BY <1>2, <1>3, <1>4, <2>1, <2>2, <2>3 DEF MssInv
  <1>6. CASE client[c] # "gone"
    <2>1. PICK s \in M!Told(want[c]) : port' = [port EXCEPT ![c] = s]
      BY <1>1, <1>6 DEF M!AcceptClient
    <2>2. /\ client' = [client EXCEPT ![c] = "told"]
          /\ sent' = sent \cup (IF want[c] \in DOMAIN services THEN {c} ELSE {})
      BY <1>1, <1>6 DEF M!AcceptClient
    <2>3. s \in Registered \cup {Nobody} /\ (want[c] \in DOMAIN services => s = services[want[c]])
      BY LenFacts DEF MssInv, M!Told
    <2>4. WorkerTypes(MssClients, Registered)'
      BY <1>2, <1>3, <2>1, <2>2, <2>3 DEF MssInv, WorkerInv, WorkerTypes
    <2>5. WorkerInv(MssClients, Registered)'
      BY <1>2, <2>4, SameServices DEF MssInv
    <2>6. sent' \subseteq MssClients /\ \A d \in sent' : client'[d] # "off"
      BY <1>3, <2>2 DEF MssInv, WorkerInv, WorkerTypes
    <2>7. ASSUME NEW d \in sent'
          PROVE  want'[d] \in DOMAIN services' /\ port'[d] = services'[want'[d]]
      <3>1. d \in MssClients
        BY <2>6
      <3>2. CASE d = c
        BY <1>2, <1>3, <2>1, <2>2, <2>3, <2>7, <3>2 DEF MssInv, WorkerInv, WorkerTypes, M!StillRight
      <3>3. CASE d # c
        BY <1>2, <1>3, <2>1, <2>2, <2>7, <3>1, <3>3 DEF MssInv, WorkerInv, WorkerTypes, M!StillRight
      <3> QED
        BY <3>2, <3>3
    <2>8. M!StillRight'
      BY <2>7 DEF M!StillRight
    <2> QED
      BY <1>2, <1>3, <1>4, <2>5, <2>6, <2>8 DEF MssInv
  <1> QED
    BY <1>5, <1>6

LEMMA MssStep ==
    ASSUME MssInv, M!Next
    PROVE  MssInv'
  <1>1. CASE M!Programs /\ UNCHANGED M!mssvars
    <2>1. WorkerStep(MssClients, Registered)
      BY <1>1, MssWorkers DEF MssInv, WorkerInv
    <2>2. WorkerInv(MssClients, Registered)'
      BY <2>1, WorkersStep DEF MssInv, Services
    <2>3. UNCHANGED <<services, readset, left, squeue, cqueue, want, sent>>
      BY <1>1 DEF M!mssvars
    <2>4. port' = port /\ \A c \in MssClients : client[c] # "off" <=> client'[c] # "off"
      BY <2>1, WorkerFrame DEF MssInv, WorkerInv
    <2>5. M!StillRight'
      BY <2>3, <2>4 DEF MssInv, M!StillRight
    <2> QED
      BY <2>2, <2>3, <2>4, <2>5 DEF MssInv
  <1> QED
    BY <1>1, MssRegister, MssAsk, MssLoop, MssAcceptService, MssAcceptClient
       DEF M!Next, M!Server

-----------------------------------------------------------------------------
(***************************************************************************)
(* Who is connected where, and which thread answers whom                   *)
(***************************************************************************)
LEMMA ConnectedAt ==
    ASSUME NEW C, NEW S, Connected(C, S), NEW s \in S, UNCHANGED <<port, client, answered>>,
           answered \subseteq C,
           \A t \in S \ {s} : /\ backlog'[t] = backlog[t] /\ conn'[t] = conn[t]
                              /\ thread'[t] = thread[t],
           \A c \in C : InBacklog(c, s)' \/ InConn(c, s)' =>
               (InBacklog(c, s) \/ InConn(c, s)) /\ (HasThread(c, s) => HasThread(c, s)'),
           InTime(s)' => InTime(s)
    PROVE  Connected(C, S)'
  <1>1. ASSUME NEW t \in S, NEW c \in C
        PROVE  /\ InBacklog(c, t)' \/ InConn(c, t)' =>
                      (InBacklog(c, t) \/ InConn(c, t)) /\ (HasThread(c, t) => HasThread(c, t)')
               /\ InTime(t)' => InTime(t)
    <2>1. CASE t = s
      BY <2>1
    <2>2. CASE t # s
      BY <2>2 DEF InBacklog, InConn, HasThread, InTime
    <2> QED
      BY <2>1, <2>2
  <1>2. ASSUME NEW c \in C, NEW t \in S, InBacklog(c, t)' \/ InConn(c, t)'
        PROVE  port'[c] = t /\ client'[c] \in {"talking", "gone"}
    BY <1>1, <1>2 DEF Connected
  <1>3. ASSUME NEW c \in answered', NEW t \in S, InTime(t)', InBacklog(c, t)' \/ InConn(c, t)'
        PROVE  HasThread(c, t)'
    BY <1>1, <1>3 DEF Connected
  <1>4. \A c \in answered' : client'[c] \in {"talking", "gone"}
    BY DEF Connected
  <1> QED
    BY <1>2, <1>3, <1>4 DEF Connected

\* A client that has not connected is nowhere.
LEMMA ConnectedClient ==
    ASSUME NEW C, NEW S, Connected(C, S), WorkerTypes(C, S), NEW c \in C,
           UNCHANGED <<backlog, conn, thread, answered>>,
           \/ client[c] \notin {"talking", "gone"}
           \/ port'[c] = port[c] /\ client'[c] \in {"talking", "gone"},
           \A d \in C \ {c} : port'[d] = port[d] /\ client'[d] = client[d]
    PROVE  Connected(C, S)'
  <1>1. ASSUME NEW t \in S, NEW d \in C
        PROVE  /\ InBacklog(d, t)' <=> InBacklog(d, t)
               /\ InConn(d, t)' <=> InConn(d, t)
               /\ HasThread(d, t)' <=> HasThread(d, t)
               /\ InTime(t)' <=> InTime(t)
    BY DEF InBacklog, InConn, HasThread, InTime
  <1>2. \A t \in S : client[c] \notin {"talking", "gone"} =>
            ~InBacklog(c, t) /\ ~InConn(c, t) /\ c \notin answered
    BY DEF Connected
  <1>3. ASSUME NEW d \in C, NEW t \in S, InBacklog(d, t)' \/ InConn(d, t)'
        PROVE  port'[d] = t /\ client'[d] \in {"talking", "gone"}
    <2>1. InBacklog(d, t) \/ InConn(d, t)
      BY <1>1, <1>3
    <2>2. port[d] = t /\ client[d] \in {"talking", "gone"}
      BY <2>1 DEF Connected
    <2> QED
      BY <1>2, <2>1, <2>2
  <1>4. answered \subseteq C
    BY DEF WorkerTypes
  <1>5. \A d \in answered' : client'[d] \in {"talking", "gone"}
    BY <1>4 DEF Connected
  <1>6. ASSUME NEW d \in answered', NEW t \in S, InTime(t)', InBacklog(d, t)' \/ InConn(d, t)'
        PROVE  HasThread(d, t)'
    BY <1>1, <1>4, <1>6 DEF Connected
  <1> QED
    BY <1>3, <1>5, <1>6 DEF Connected

LEMMA ConnectConnected ==
    ASSUME NEW C, NEW S \in SUBSET Services, WorkerInv(C, S), Connected(C, S), NEW c \in C,
           W!ClientStep(c) \/ W!Leave(c)
    PROVE  Connected(C, S)'
  <1>1. CASE W!Hangup(c) \/ W!Leave(c) \/ (W!Connect(c) /\ ~W!Up(port[c]))
    <2>1. /\ client' = [client EXCEPT ![c] = "gone"]
          /\ UNCHANGED <<backlog, conn, thread, port, answered>>
      BY <1>1 DEF W!Hangup, W!Leave, W!Connect
    <2> QED
      BY <2>1, ConnectedClient DEF WorkerInv, WorkerTypes
  <1>2. CASE W!Connect(c) /\ W!Up(port[c])
    <2>1. PICK s, q : s = port[c] /\ q = backlog[s]
      OBVIOUS
    <2>2. s \in S
      BY <1>2, <2>1, ProgramsAssumption DEF WorkerInv, WorkerTypes, W!Up
    <2>3. /\ client[c] = "told" /\ backlog' = [backlog EXCEPT ![s] = Append(q, c)]
          /\ client' = [client EXCEPT ![c] = "talking"]
          /\ UNCHANGED <<conn, thread, port, answered>>
      BY <1>2, <2>1 DEF W!Connect
    <2>4. /\ Len(q) \in Nat /\ Len(Append(q, c)) = Len(q) + 1
          /\ \A i \in 1..Len(q) : Append(q, c)[i] = q[i]
          /\ Append(q, c)[Len(q) + 1] = c
      BY <2>1, <2>2, AppendFacts DEF WorkerInv, WorkerTypes
    <2>5. backlog'[s] = Append(q, c) /\ \A t \in S \ {s} : backlog'[t] = backlog[t]
      BY <2>2, <2>3 DEF WorkerInv, WorkerTypes
    <2>6. c \notin answered /\ \A t \in S : ~InBacklog(c, t) /\ ~InConn(c, t)
      BY <2>3 DEF Connected
    <2>7. ASSUME NEW d \in C, NEW t \in S, d # c
          PROVE  /\ InBacklog(d, t)' => InBacklog(d, t)
                 /\ InConn(d, t)' <=> InConn(d, t)
                 /\ HasThread(d, t)' <=> HasThread(d, t)
                 /\ InTime(t)' <=> InTime(t)
      <3>1. CASE t # s
        BY <2>3, <2>5, <3>1 DEF InBacklog, InConn, HasThread, InTime
      <3>2. CASE t = s
        <4>1. ASSUME NEW j \in 1..(Len(q) + 1), Append(q, c)[j] = d PROVE InBacklog(d, s)
          <5>1. j \in 1..Len(q)
            BY <2>4, <2>7, <4>1
          <5> QED
            BY <2>1, <2>4, <4>1, <5>1 DEF InBacklog
        <4>2. InBacklog(d, s)' => InBacklog(d, s)
          BY <2>4, <2>5, <4>1 DEF InBacklog
        <4> QED
          BY <2>3, <3>2, <4>2 DEF InConn, HasThread, InTime
      <3> QED
        BY <3>1, <3>2
    <2>8. ASSUME NEW t \in S, InBacklog(c, t)' \/ InConn(c, t)' PROVE t = s
      <3>1. ASSUME t # s PROVE FALSE
        BY <2>3, <2>5, <2>6, <2>8, <3>1 DEF InBacklog, InConn
      <3> QED
        BY <3>1
    <2>9. \A d \in C : client'[d] = IF d = c THEN "talking" ELSE client[d]
      BY <2>3 DEF WorkerInv, WorkerTypes
    <2>10. ASSUME NEW d \in C, NEW t \in S, InBacklog(d, t)' \/ InConn(d, t)'
           PROVE  port'[d] = t /\ client'[d] \in {"talking", "gone"}
      <3>1. CASE d = c
        BY <2>1, <2>3, <2>8, <2>9, <2>10, <3>1
      <3>2. CASE d # c
        BY <2>3, <2>7, <2>9, <2>10, <3>2 DEF Connected
      <3> QED
        BY <3>1, <3>2
    <2>11. answered \subseteq C
      BY DEF WorkerInv, WorkerTypes
    <2>12. \A d \in answered' : client'[d] \in {"talking", "gone"}
      BY <2>3, <2>9, <2>11 DEF Connected
    <2>13. ASSUME NEW d \in answered', NEW t \in S, InTime(t)', InBacklog(d, t)' \/ InConn(d, t)'
           PROVE  HasThread(d, t)'
      <3>1. d # c /\ d \in C /\ d \in answered
        BY <2>3, <2>6, <2>11
      <3> QED
        BY <2>7, <2>13, <3>1 DEF Connected
    <2> QED
      BY <2>10, <2>12, <2>13 DEF Connected
  <1> QED
    BY <1>1, <1>2 DEF W!ClientStep

LEMMA AcceptConnected ==
    ASSUME NEW C, NEW S \in SUBSET Services, WorkerInv(C, S), Connected(C, S), NEW s \in S,
           NEW t, t = thread[s] \/ (t = Append(thread[s], Len(thread[s]) + 1) /\ InTime(s)),
           backlog[s] # <<>>, Len(conn[s]) = Len(thread[s]),
           conn' = [conn EXCEPT ![s] = Append(conn[s], Head(backlog[s]))],
           backlog' = [backlog EXCEPT ![s] = Tail(backlog[s])],
           thread' = [thread EXCEPT ![s] = t],
           UNCHANGED <<client, port, answered>>
    PROVE  Connected(C, S)'
  <1>1. PICK b, q, h, k : b = backlog[s] /\ q = conn[s] /\ h = Head(b) /\ k = Len(q)
    OBVIOUS
  <1>2. b \in Seq(C) /\ b # <<>> /\ q \in Seq(C) /\ thread[s] \in Seq(Nat)
    BY <1>1 DEF WorkerInv, WorkerTypes
  <1>3. /\ Len(b) \in Nat /\ Len(Tail(b)) = Len(b) - 1 /\ 1 \in 1..Len(b) /\ h = b[1] /\ h \in C
        /\ \A i \in 1..Len(Tail(b)) : i + 1 \in 1..Len(b) /\ Tail(b)[i] = b[i + 1]
    BY <1>1, <1>2, TailFacts
  <1>4. /\ k \in Nat /\ Len(Append(q, h)) = k + 1 /\ Append(q, h)[k + 1] = h
        /\ \A i \in 1..k : Append(q, h)[i] = q[i]
    BY <1>1, <1>2, <1>3, AppendFacts
  <1>5. Len(t) \in {k, k + 1} /\ k = Len(thread[s])
    BY <1>1, <1>2, <1>4, AppendFacts
  <1>6. backlog'[s] = Tail(b) /\ conn'[s] = Append(q, h) /\ thread'[s] = t
    BY <1>1 DEF WorkerInv, WorkerTypes
  <1>7. ASSUME NEW c \in C
        PROVE  InBacklog(c, s)' \/ InConn(c, s)' =>
                   (InBacklog(c, s) \/ InConn(c, s)) /\ (HasThread(c, s) => HasThread(c, s)')
    <2>1. InBacklog(c, s)' => InBacklog(c, s)
      BY <1>1, <1>3, <1>6 DEF InBacklog
    <2>2. ASSUME NEW j \in 1..(k + 1), Append(q, h)[j] = c PROVE InBacklog(c, s) \/ InConn(c, s)
      <3>1. CASE j = k + 1
        BY <1>1, <1>3, <1>4, <2>2, <3>1 DEF InBacklog
      <3>2. CASE j # k + 1
        <4>1. j \in 1..k
          BY <1>4, <3>2
        <4> QED
          BY <1>1, <1>4, <2>2, <4>1 DEF InConn
      <3> QED
        BY <3>1, <3>2
    <2>3. InConn(c, s)' => InBacklog(c, s) \/ InConn(c, s)
      BY <1>4, <1>6, <2>2 DEF InConn
    <2>4. ASSUME NEW i \in 1..k, q[i] = c
          PROVE  i \in 1..Len(t) /\ Append(q, h)[i] = c
      BY <1>4, <1>5, <2>4
    <2>5. HasThread(c, s) => HasThread(c, s)'
      BY <1>1, <1>5, <1>6, <2>4 DEF HasThread
    <2> QED
      BY <2>1, <2>3, <2>5
  <1>8. InTime(s)' => InTime(s)
    BY <1>6 DEF InTime
  <1> QED
    BY <1>7, <1>8, ConnectedAt DEF WorkerInv, WorkerTypes

LEMMA SpawnConnected ==
    ASSUME NEW C, NEW S \in SUBSET Services, WorkerInv(C, S), Connected(C, S), NEW s \in S,
           W!Spawn(s) \/ W!Refuse(s)
    PROVE  Connected(C, S)'
  <1>0. conn[s] \in Seq(C) /\ Len(conn[s]) \in Nat /\ thread[s] \in Seq(Nat) /\ Len(thread[s]) \in Nat
    BY LenFacts DEF WorkerInv, WorkerTypes
  <1>1. CASE W!Spawn(s)
    <2>1. PICK q, k : q = thread[s] /\ k = Len(thread[s])
      OBVIOUS
    <2>2. /\ thread' = [thread EXCEPT ![s] = Append(q, 0)]
          /\ UNCHANGED <<service, backlog, conn, nfd, client, port, answered>>
      BY <1>1, <2>1 DEF W!Spawn
    <2>3. k \in Nat /\ Len(Append(q, 0)) = k + 1 /\ \A i \in 1..k : Append(q, 0)[i] = q[i]
      BY <1>0, <2>1, AppendFacts
    <2>4. thread'[s] = Append(q, 0)
      BY <2>2 DEF WorkerInv, WorkerTypes
    <2>5. InTime(s)' => InTime(s)
      BY <2>1, <2>3, <2>4 DEF InTime
    <2>6. ASSUME NEW c \in C
          PROVE  /\ InBacklog(c, s)' <=> InBacklog(c, s)
                 /\ InConn(c, s)' <=> InConn(c, s)
                 /\ HasThread(c, s) => HasThread(c, s)'
      <3>1. \A i \in 1..k : i \in 1..(k + 1)
        BY <2>3
      <3> QED
        BY <2>1, <2>2, <2>3, <2>4, <3>1 DEF InBacklog, InConn, HasThread
    <2> QED
      BY <2>2, <2>5, <2>6, ConnectedAt DEF WorkerInv, WorkerTypes
  <1>2. CASE W!Refuse(s)
    <2>1. PICK q, r : q = conn[s] /\ r = SubSeq(q, 1, Len(q) - 1)
      OBVIOUS
    <2>2. /\ Len(q) > Len(thread[s]) /\ conn' = [conn EXCEPT ![s] = r]
          /\ UNCHANGED <<service, backlog, thread, client, port, answered>>
      BY <1>2, <2>1 DEF W!Refuse
    <2>3. q # <<>>
      BY <1>0, <2>1, <2>2
    <2>4. Len(r) = Len(q) - 1 /\ \A i \in 1..Len(r) : r[i] = q[i]
      BY <1>0, <2>1, <2>3, FrontFacts
    <2>5. conn'[s] = r
      BY <2>2 DEF WorkerInv, WorkerTypes
    <2>6. \A i \in 1..Len(r) : i \in 1..Len(q)
      BY <1>0, <2>1, <2>4
    <2>7. \A i \in 1..Len(thread[s]) : i \in 1..Len(r)
      BY <1>0, <2>1, <2>2, <2>4
    <2>8. ASSUME NEW c \in C
          PROVE  /\ InBacklog(c, s)' <=> InBacklog(c, s)
                 /\ InConn(c, s)' => InConn(c, s)
                 /\ HasThread(c, s) => HasThread(c, s)'
      <3>1. InConn(c, s)' => InConn(c, s)
        BY <2>1, <2>4, <2>5, <2>6 DEF InConn
      <3>2. HasThread(c, s) => HasThread(c, s)'
        BY <2>1, <2>2, <2>4, <2>5, <2>7 DEF HasThread
      <3> QED
        BY <2>2, <3>1, <3>2 DEF InBacklog
    <2>9. InTime(s)' => InTime(s)
      BY <2>2 DEF InTime
    <2> QED
      BY <2>2, <2>8, <2>9, ConnectedAt DEF WorkerInv, WorkerTypes
  <1> QED
    BY <1>1, <1>2

LEMMA DiesConnected ==
    ASSUME NEW C, NEW S \in SUBSET Services, WorkerInv(C, S), Connected(C, S), NEW s \in S,
           W!Dies(s)
    PROVE  Connected(C, S)'
  <1>1. /\ backlog' = [backlog EXCEPT ![s] = <<>>] /\ conn' = [conn EXCEPT ![s] = <<>>]
        /\ thread' = [thread EXCEPT ![s] = <<>>] /\ UNCHANGED <<client, port, answered>>
        /\ service' = [service EXCEPT ![s] = "dead"]
    BY DEF W!Dies, W!Reset
  <1>2. backlog'[s] = <<>> /\ conn'[s] = <<>>
    BY <1>1 DEF WorkerInv, WorkerTypes
  <1>3. ASSUME NEW t \in S, NEW e \in C, InBacklog(e, t)' \/ InConn(e, t)'
        PROVE  /\ t # s
               /\ InBacklog(e, t) \/ InConn(e, t)
               /\ HasThread(e, t) <=> HasThread(e, t)'
               /\ InTime(t) <=> InTime(t)'
    <2>1. t # s
      BY <1>2, <1>3 DEF InBacklog, InConn
    <2>2. backlog'[t] = backlog[t] /\ conn'[t] = conn[t] /\ thread'[t] = thread[t]
      BY <1>1, <2>1 DEF WorkerInv, WorkerTypes
    <2> QED
      BY <1>3, <2>1, <2>2 DEF InBacklog, InConn, HasThread, InTime
  <1>4. answered \subseteq C
    BY DEF WorkerInv, WorkerTypes
  <1>5. \A e \in answered' : client'[e] \in {"talking", "gone"}
    BY <1>1 DEF Connected
  <1>6. \A e \in C, t \in S : InBacklog(e, t)' \/ InConn(e, t)' =>
             port'[e] = t /\ client'[e] \in {"talking", "gone"}
    BY <1>1, <1>3 DEF Connected
  <1>7. ASSUME NEW e \in answered', NEW t \in S, InTime(t)', InBacklog(e, t)' \/ InConn(e, t)'
        PROVE  HasThread(e, t)'
    BY <1>1, <1>3, <1>4, <1>7 DEF Connected
  <1> QED
    BY <1>5, <1>6, <1>7 DEF Connected

LEMMA ThreadConnected ==
    ASSUME NEW C, NEW S \in SUBSET Services, WorkerInv(C, S), Connected(C, S), NEW s \in S,
           W!Thread(s)
    PROVE  Connected(C, S)'
  <1>0. /\ thread[s] \in Seq(Nat) /\ DOMAIN thread[s] = 1..Len(thread[s]) /\ Len(thread[s]) \in Nat
        /\ conn[s] \in Seq(C) /\ DOMAIN conn[s] = 1..Len(conn[s]) /\ Len(conn[s]) \in Nat
    BY LenFacts DEF WorkerInv, WorkerTypes
  <1>1. PICK i \in 1..Len(thread[s]) : W!FuncStarts(s, i) \/ W!Echo(s, i) \/ W!Broken(s, i)
    BY <1>0 DEF W!Thread
  <1>2. CASE W!FuncStarts(s, i)
    <2>1. PICK t, x : t = [thread[s] EXCEPT ![i] = x] /\ x = nfd[s]
      OBVIOUS
    <2>2. /\ thread[s][i] = 0 /\ thread' = [thread EXCEPT ![s] = t]
          /\ UNCHANGED <<service, backlog, conn, nfd, client, port, answered>>
      BY <1>2, <2>1 DEF W!FuncStarts
    <2>3. x \in Nat /\ t \in Seq(Nat) /\ Len(t) = Len(thread[s])
          /\ \A j \in 1..Len(thread[s]) : t[j] = IF j = i THEN x ELSE thread[s][j]
      BY <1>0, <2>1 DEF WorkerInv, WorkerTypes
    <2>4. thread'[s] = t
      BY <2>2 DEF WorkerInv, WorkerTypes
    <2>5. ASSUME InTime(s)', NEW j \in 1..Len(thread[s]) PROVE thread[s][j] <= j
      <3>1. CASE j = i
        BY <2>2, <3>1
      <3>2. CASE j # i
        BY <2>3, <2>4, <2>5, <3>2 DEF InTime
      <3> QED
        BY <3>1, <3>2
    <2>6. InTime(s)' => InTime(s)
      BY <2>5 DEF InTime
    <2>7. ASSUME NEW c \in C
          PROVE  /\ InBacklog(c, s)' <=> InBacklog(c, s)
                 /\ InConn(c, s)' <=> InConn(c, s)
                 /\ HasThread(c, s) => HasThread(c, s)'
      BY <2>2, <2>3, <2>4 DEF InBacklog, InConn, HasThread
    <2> QED
      BY <2>2, <2>6, <2>7, ConnectedAt DEF WorkerInv, WorkerTypes
  <1>3. CASE W!Echo(s, i)
    <2>1. PICK c, d : d \in DOMAIN conn[s] /\ d = thread[s][i] /\ c = conn[s][d]
                        /\ answered' = answered \cup {c} /\ client[c] = "talking"
      BY <1>3 DEF W!Echo, W!Peer
    <2>2. c \in C
      BY <1>0, <2>1, LenFacts
    <2>3. UNCHANGED <<service, backlog, conn, nfd, thread, client, port>>
      BY <1>3 DEF W!Echo
    <2>4. InConn(c, s)
      BY <1>0, <2>1 DEF InConn
    <2>5. ASSUME InTime(s) PROVE HasThread(c, s)
      <3>1. d \in Nat /\ d # 0
        BY <1>0, <2>1
      <3>2. d >= i
        <4>1. CASE s \in Prethreaded
          BY <1>0, <2>1, <4>1 DEF WorkerInv, ThreadsOf
        <4>2. CASE s \notin Prethreaded
          BY <2>1, <3>1, <4>2 DEF WorkerInv, ThreadsOf
        <4> QED
          BY <4>1, <4>2
      <3>3. d <= i
        BY <2>1, <2>5 DEF InTime
      <3>4. d = i
        BY <1>0, <3>1, <3>2, <3>3
      <3> QED
        BY <2>1, <3>4 DEF HasThread
    <2>6. ASSUME NEW t \in S, NEW e \in C
          PROVE  /\ InBacklog(e, t)' <=> InBacklog(e, t)
                 /\ InConn(e, t)' <=> InConn(e, t)
                 /\ HasThread(e, t)' <=> HasThread(e, t)
                 /\ InTime(t)' <=> InTime(t)
      BY <2>3 DEF InBacklog, InConn, HasThread, InTime
    <2>7. \A t \in S : InBacklog(c, t) \/ InConn(c, t) => t = s
      BY <2>2, <2>4 DEF Connected
    <2>8. answered' \subseteq C /\ answered \subseteq C
      BY <2>1, <2>2 DEF WorkerInv, WorkerTypes
    <2>9. ASSUME NEW e \in answered', NEW t \in S, InTime(t)', InBacklog(e, t)' \/ InConn(e, t)'
          PROVE  HasThread(e, t)'
      <3>1. e \in C /\ InTime(t) /\ (InBacklog(e, t) \/ InConn(e, t))
        BY <2>6, <2>8, <2>9
      <3>2. CASE e = c
        BY <2>5, <2>6, <2>7, <3>1, <3>2
      <3>3. CASE e # c
        BY <2>1, <2>6, <2>9, <3>1, <3>3 DEF Connected
      <3> QED
        BY <3>2, <3>3
    <2>10. \A e \in answered' : client'[e] \in {"talking", "gone"}
      BY <2>1, <2>3 DEF Connected
    <2>11. \A e \in C, t \in S : InBacklog(e, t)' \/ InConn(e, t)' =>
               port'[e] = t /\ client'[e] \in {"talking", "gone"}
      BY <2>3, <2>6 DEF Connected
    <2> QED
      BY <2>9, <2>10, <2>11 DEF Connected
  <1>4. CASE W!Broken(s, i)
    BY <1>4, DiesConnected DEF W!Broken
  <1> QED
    BY <1>1, <1>2, <1>3, <1>4

LEMMA ConnectedStep ==
    ASSUME NEW C, NEW S \in SUBSET Services, WorkerInv(C, S), Connected(C, S), WorkerStep(C, S)
    PROVE  Connected(C, S)'
  <1>1. ASSUME NEW s \in S, W!Listen(s) PROVE Connected(C, S)'
    <2>1. UNCHANGED <<backlog, conn, thread, client, port, answered>>
      BY <1>1 DEF W!Listen
    <2> QED
      BY <2>1 DEF Connected, InBacklog, InConn, HasThread, InTime
  <1>2. ASSUME NEW s \in S, W!Accept(s) PROVE Connected(C, S)'
    <2>1. /\ backlog[s] # <<>> /\ Len(conn[s]) = Len(thread[s])
          /\ conn' = [conn EXCEPT ![s] = Append(conn[s], Head(backlog[s]))]
          /\ backlog' = [backlog EXCEPT ![s] = Tail(backlog[s])]
          /\ UNCHANGED <<thread, client, port, answered>>
      BY <1>2 DEF W!Accept
    <2>2. thread' = [thread EXCEPT ![s] = thread[s]]
      BY <2>1 DEF WorkerInv, WorkerTypes
    <2> QED
      BY <2>1, <2>2, AcceptConnected
  <1>3. ASSUME NEW s \in S, W!PreAccept(s) PROVE Connected(C, S)'
    <2>1. /\ backlog[s] # <<>> /\ s \in Prethreaded
          /\ conn' = [conn EXCEPT ![s] = Append(conn[s], Head(backlog[s]))]
          /\ thread' = [thread EXCEPT ![s] = Append(thread[s], Len(thread[s]) + 1)]
          /\ backlog' = [backlog EXCEPT ![s] = Tail(backlog[s])]
          /\ UNCHANGED <<client, port, answered>>
      BY <1>3 DEF W!PreAccept
    <2>2. Len(conn[s]) = Len(thread[s]) /\ \A i \in 1..Len(thread[s]) : thread[s][i] = i
      BY <2>1 DEF WorkerInv, ThreadsOf
    <2>3. Len(thread[s]) \in Nat
      BY LenFacts DEF WorkerInv, WorkerTypes
    <2>4. InTime(s)
      BY <2>2, <2>3 DEF InTime
    <2> QED
      BY <2>1, <2>2, <2>4, AcceptConnected
  <1> QED
    BY <1>1, <1>2, <1>3, ConnectConnected, SpawnConnected, ThreadConnected, DiesConnected
       DEF WorkerStep, W!MainLoop, W!Overrun

-----------------------------------------------------------------------------
(***************************************************************************)
(* tss                                                                     *)
(***************************************************************************)
LEMMA ProcsFacts ==
    ASSUME TssInv
    PROVE  \E k \in 1 .. MainServers :
               /\ procs = 0 .. k - 1 /\ IsFiniteSet(procs) /\ Cardinality(procs) = k
               /\ T!Cardinality(procs) = k /\ procs \subseteq T!Procs /\ 0 \in procs
  <1>1. PICK k \in 1 .. MainServers : procs = 0 .. k - 1
    BY DEF TssInv
  <1>2. k \in Nat /\ k >= 1 /\ MainServers \in Nat /\ k <= MainServers
    BY ProgramsAssumption
  <1>3. IsFiniteSet(procs) /\ Cardinality(procs) = k
    <2>1. IsFiniteSet(0 .. k - 1) /\ Cardinality(0 .. k - 1) = k - 1 - 0 + 1
      BY <1>2, FS_Interval
    <2> QED
      BY <1>1, <1>2, <2>1
  <1>4. T!Cardinality(procs) = Cardinality(procs)
    BY DEF T!Cardinality, Cardinality
  <1>5. procs \subseteq T!Procs /\ 0 \in procs
    BY <1>1, <1>2 DEF T!Procs
  <1> QED
    BY <1>1, <1>3, <1>4, <1>5

\* What the services' variables keep when a client is told a port and at most one service
\* is started
LEMMA TssTold ==
    ASSUME TssInv, NEW c \in Clients, T!Tell(c), wish[c] # Nobody, NEW s \in Started,
           \/ service' = service
           \/ service[s] \in {"off", "dead"} /\ service' = [service EXCEPT ![s] = "starting"],
           UNCHANGED <<backlog, conn, nfd, thread, answered, wish>>
    PROVE  /\ WorkerInv(Clients, Started)' /\ Connected(Clients, Started)'
           /\ \A d \in Clients : client'[d] = "told" => port'[d] = wish'[d]
  <1>0. /\ WorkerInv(Clients, Started) /\ Connected(Clients, Started)
        /\ service' \in [Started -> {"off", "starting", "up", "dead"}]
        /\ \A t \in Started \ {s} : service'[t] = service[t]
    <2>1. service \in [Started -> {"off", "starting", "up", "dead"}]
      BY DEF TssInv, WorkerInv, WorkerTypes
    <2> QED
      BY <2>1 DEF TssInv
  <1>1. CASE client[c] = "asked"
    <2>1. client' = [client EXCEPT ![c] = "told"] /\ port' = [port EXCEPT ![c] = wish[c]]
      BY <1>1 DEF T!Tell
    <2>2. WorkerTypes(Clients, Started)'
      <3>1. wish[c] \in Started
        BY DEF TssInv
      <3> QED
        BY <1>0, <2>1, <3>1 DEF WorkerInv, WorkerTypes
    <2>3. ThreadsOf(s)'
      BY DEF TssInv, WorkerInv, WorkerTypes, ThreadsOf
    <2>4. WorkerInv(Clients, Started)'
      BY <1>0, <2>2, <2>3, OneService
    <2>5. \A d \in Clients \ {c} : port'[d] = port[d] /\ client'[d] = client[d]
      BY <2>1 DEF TssInv, WorkerInv, WorkerTypes
    <2>6. Connected(Clients, Started)'
      BY <1>1, <2>5, ConnectedClient DEF TssInv, WorkerInv
    <2>7. client'[c] = "told" /\ port'[c] = wish[c]
      BY <2>1 DEF TssInv, WorkerInv, WorkerTypes
    <2> QED
      BY <2>4, <2>5, <2>6, <2>7 DEF TssInv
  <1>2. CASE client[c] # "asked"
    <2>1. client' = client /\ port' = port
      BY <1>2 DEF T!Tell
    <2>2. WorkerTypes(Clients, Started)'
      BY <1>0, <2>1 DEF WorkerInv, WorkerTypes
    <2>3. ThreadsOf(s)'
      BY DEF TssInv, WorkerInv, WorkerTypes, ThreadsOf
    <2>4. WorkerInv(Clients, Started)'
      BY <1>0, <2>2, <2>3, OneService
    <2>5. Connected(Clients, Started)'
      BY <1>0, <2>1 DEF Connected, InBacklog, InConn, HasThread, InTime
    <2> QED
      BY <2>1, <2>4, <2>5 DEF TssInv
  <1> QED
    BY <1>1, <1>2

LEMMA TssAsk ==
    ASSUME TssInv, NEW c \in Clients, T!Ask(c)
    PROVE  TssInv'
  <1>1. PICK s \in Started : wish' = [wish EXCEPT ![c] = s]
    BY DEF T!Ask
  <1>2. /\ client[c] = "off" /\ client' = [client EXCEPT ![c] = "asked"]
        /\ queue' = Append(queue, c)
        /\ UNCHANGED <<service, backlog, conn, nfd, thread, port, answered, procs, started,
                       asking, starts>>
    BY DEF T!Ask
  <1>3. WorkerTypes(Clients, Started)'
    BY <1>2 DEF TssInv, WorkerInv, WorkerTypes
  <1>4. WorkerInv(Clients, Started)'
    BY <1>2, <1>3, SameServices DEF TssInv
  <1>5. \A d \in Clients \ {c} : port'[d] = port[d] /\ client'[d] = client[d] /\ wish'[d] = wish[d]
    BY <1>1, <1>2 DEF TssInv, WorkerInv, WorkerTypes
  <1>6. Connected(Clients, Started)'
    BY <1>2, <1>5, ConnectedClient DEF TssInv, WorkerInv
  <1>7. s # Nobody /\ wish'[c] = s /\ client'[c] = "asked" /\ wish' \in [Clients -> Started \cup {Nobody}]
    BY <1>1, <1>2, ProgramsAssumption DEF TssInv, WorkerInv, WorkerTypes, Services
  <1>8. /\ queue' \in Seq(Clients) /\ Len(queue') = Len(queue) + 1 /\ Len(queue) \in Nat
        /\ queue'[Len(queue) + 1] = c /\ \A j \in 1..Len(queue) : queue'[j] = queue[j]
    BY <1>2, AppendFacts DEF TssInv
  <1>9. ASSUME NEW j \in 1..Len(queue') PROVE wish'[queue'[j]] # Nobody
    <2>1. CASE queue'[j] = c
      BY <1>7, <2>1
    <2>2. CASE queue'[j] # c
      <3>1. j \in 1..Len(queue) /\ queue'[j] = queue[j]
        BY <1>8, <2>2
      <3>2. queue[j] \in Clients
        BY <3>1, LenFacts DEF TssInv
      <3> QED
        BY <1>5, <2>2, <3>1, <3>2 DEF TssInv
    <2> QED
      BY <2>1, <2>2
  <1>10. \A p \in T!Procs : asking'[p] # Nobody => wish'[asking'[p]] # Nobody
    <2>1. ASSUME NEW p \in T!Procs, asking[p] # Nobody PROVE wish'[asking[p]] # Nobody
      <3>1. asking[p] \in Clients
        BY <2>1 DEF TssInv
      <3> QED
        BY <1>5, <1>7, <2>1, <3>1 DEF TssInv
    <2> QED
      BY <1>2, <2>1
  <1>11. \A d \in Clients : client'[d] = "told" => port'[d] = wish'[d]
    BY <1>5, <1>7 DEF TssInv
  <1>12. \A t \in Started : starts'[t] <= Cardinality(Knowing(t))'
    BY <1>2 DEF TssInv, Knowing
  <1> QED
    BY <1>2, <1>4, <1>6, <1>7, <1>8, <1>9, <1>10, <1>11, <1>12 DEF TssInv

LEMMA TssTake ==
    ASSUME TssInv, NEW p \in T!Procs, T!Take(p)
    PROVE  TssInv'
  <1>1. PICK h : h = Head(queue)
    OBVIOUS
  <1>2. /\ queue # <<>> /\ asking' = [asking EXCEPT ![p] = h] /\ queue' = Tail(queue)
        /\ UNCHANGED <<T!wvars, procs, started, wish, starts>>
    BY <1>1 DEF T!Take
  <1>3. UNCHANGED <<service, backlog, conn, nfd, thread, client, port, answered>>
    BY <1>2 DEF T!wvars
  <1>4. /\ queue' \in Seq(Clients) /\ Len(queue) \in Nat /\ 1 \in 1..Len(queue) /\ h = queue[1]
        /\ h \in Clients
        /\ \A i \in 1..Len(queue') : i + 1 \in 1..Len(queue) /\ queue'[i] = queue[i + 1]
    BY <1>1, <1>2, TailFacts DEF TssInv
  <1>5. WorkerInv(Clients, Started)' /\ Connected(Clients, Started)'
    BY <1>3 DEF TssInv, WorkerInv, WorkerTypes, ThreadsOf, Connected, InBacklog, InConn,
                HasThread, InTime
  <1>6. wish[h] # Nobody /\ \A i \in 1..Len(queue') : wish'[queue'[i]] # Nobody
    BY <1>2, <1>4 DEF TssInv
  <1>7. asking' \in [T!Procs -> Clients \cup {Nobody}]
    BY <1>2, <1>4 DEF TssInv
  <1>8. \A r \in T!Procs : asking'[r] # Nobody => wish'[asking'[r]] # Nobody
    BY <1>2, <1>6 DEF TssInv
  <1>9. \A t \in Started : starts'[t] <= Cardinality(Knowing(t))'
    BY <1>2 DEF TssInv, Knowing
  <1> QED
    BY <1>2, <1>3, <1>4, <1>5, <1>6, <1>7, <1>8, <1>9 DEF TssInv

LEMMA TssKnown ==
    ASSUME TssInv, NEW p \in T!Procs, T!Known(p)
    PROVE  TssInv'
  <1>1. PICK c : c = asking[p]
    OBVIOUS
  <1>2. /\ c # Nobody /\ T!Tell(c) /\ asking' = [asking EXCEPT ![p] = Nobody]
        /\ UNCHANGED <<service, backlog, conn, nfd, thread, answered, procs, started, queue,
                       wish, starts>>
    BY <1>1 DEF T!Known
  <1>3. c \in Clients /\ wish[c] # Nobody /\ wish[c] \in Started
    BY <1>1, <1>2 DEF TssInv
  <1>4. /\ WorkerInv(Clients, Started)' /\ Connected(Clients, Started)'
        /\ \A d \in Clients : client'[d] = "told" => port'[d] = wish'[d]
    BY <1>2, <1>3, TssTold
  <1>5. /\ asking' \in [T!Procs -> Clients \cup {Nobody}]
        /\ \A r \in T!Procs : asking'[r] # Nobody => wish'[asking'[r]] # Nobody
    BY <1>2 DEF TssInv
  <1>6. \A t \in Started : starts'[t] <= Cardinality(Knowing(t))'
    BY <1>2 DEF TssInv, Knowing
  <1> QED
    BY <1>2, <1>4, <1>5, <1>6 DEF TssInv

LEMMA TssStart ==
    ASSUME TssInv, NEW p \in T!Procs, T!Start(p)
    PROVE  TssInv'
  <1>1. PICK c, s : c = asking[p] /\ s = wish[c]
    OBVIOUS
  <1>2. /\ p \in procs /\ c # Nobody /\ s \in Present /\ s \notin started[p] /\ T!Tell(c)
        /\ starts' = [starts EXCEPT ![s] = starts[s] + 1]
        /\ service' = [service EXCEPT ![s] = IF service[s] \in {"off", "dead"} THEN "starting"
                                             ELSE service[s]]
        /\ started' = [started EXCEPT ![p] = started[p] \cup {s}]
        /\ asking' = [asking EXCEPT ![p] = Nobody]
        /\ UNCHANGED <<backlog, conn, nfd, thread, answered, procs, queue, wish>>
    BY <1>1 DEF T!Start, T!ForkExec, T!Mark
  <1>3. c \in Clients /\ s # Nobody /\ s \in Started
    BY <1>1, <1>2, ProgramsAssumption DEF TssInv
  <1>4. /\ WorkerInv(Clients, Started)' /\ Connected(Clients, Started)'
        /\ \A d \in Clients : client'[d] = "told" => port'[d] = wish'[d]
    <2>1. CASE service[s] \in {"off", "dead"}
      <3>1. service' = [service EXCEPT ![s] = "starting"]
        BY <1>2, <2>1
      <3> QED
        BY <1>1, <1>2, <1>3, <2>1, <3>1, TssTold
    <2>2. CASE service[s] \notin {"off", "dead"}
      <3>1. service' = service
        BY <1>2, <2>2 DEF TssInv, WorkerInv, WorkerTypes
      <3> QED
        BY <1>1, <1>2, <1>3, <3>1, TssTold
    <2> QED
      BY <2>1, <2>2
  <1>5. /\ asking' \in [T!Procs -> Clients \cup {Nobody}]
        /\ \A r \in T!Procs : asking'[r] # Nobody => wish'[asking'[r]] # Nobody
    BY <1>2 DEF TssInv
  <1>6. started' \in [T!Procs -> SUBSET Started] /\ starts' \in [Started -> Nat]
    BY <1>2, <1>3 DEF TssInv
  <1>7. ASSUME NEW t \in Started PROVE starts'[t] <= Cardinality(Knowing(t))'
    <2>1. IsFiniteSet(Knowing(t)) /\ starts[t] <= Cardinality(Knowing(t)) /\ starts[t] \in Nat
      BY ProcsFacts, FS_Subset DEF TssInv, Knowing
    <2>2. CASE t = s
      <3>1. p \notin Knowing(t) /\ Knowing(t)' = Knowing(t) \cup {p}
        BY <1>2, <2>2 DEF Knowing, TssInv
      <3>2. Cardinality(Knowing(t) \cup {p}) = Cardinality(Knowing(t)) + 1
            /\ Cardinality(Knowing(t)) \in Nat
        BY <2>1, <3>1, FS_AddElement, FS_CardinalityType
      <3>3. starts'[t] = starts[t] + 1
        BY <1>2, <1>3, <2>2 DEF TssInv
      <3> QED
        BY <2>1, <3>1, <3>2, <3>3
    <2>3. CASE t # s
      <3>1. Knowing(t)' = Knowing(t)
        BY <1>2, <2>3 DEF Knowing, TssInv
      <3>2. starts'[t] = starts[t]
        BY <1>2, <2>3 DEF TssInv
      <3> QED
        BY <2>1, <3>1, <3>2
    <2> QED
      BY <2>2, <2>3
  <1> QED
    BY <1>2, <1>4, <1>5, <1>6, <1>7 DEF TssInv

LEMMA TssTwin ==
    ASSUME TssInv, NEW p \in T!Procs, T!Twin(p)
    PROVE  TssInv'
  <1>1. PICK c, s, q : c = asking[p] /\ s = wish[c] /\ q = T!Cardinality(procs)
    OBVIOUS
  <1>2. /\ p \in procs /\ c # Nobody /\ s \notin started[p] \cup Present /\ T!Tell(c)
        /\ q \in T!Procs /\ procs' = procs \cup {q}
        /\ started' = [[started EXCEPT ![p] = started[p] \cup {s}] EXCEPT ![q] = started[p]]
        /\ asking' = [asking EXCEPT ![p] = Nobody]
        /\ UNCHANGED <<service, backlog, conn, nfd, thread, answered, queue, wish, starts>>
    BY <1>1 DEF T!Twin, T!Mark
  <1>3. c \in Clients /\ s # Nobody /\ s \in Started
    BY <1>1, <1>2 DEF TssInv
  <1>4. /\ WorkerInv(Clients, Started)' /\ Connected(Clients, Started)'
        /\ \A d \in Clients : client'[d] = "told" => port'[d] = wish'[d]
    BY <1>1, <1>2, <1>3, TssTold
  <1>5. /\ asking' \in [T!Procs -> Clients \cup {Nobody}]
        /\ \A r \in T!Procs : asking'[r] # Nobody => wish'[asking'[r]] # Nobody
    BY <1>2 DEF TssInv
  <1>6. started' \in [T!Procs -> SUBSET Started]
    BY <1>2, <1>3 DEF TssInv
  <1>7. PICK k \in 1 .. MainServers : procs = 0 .. k - 1 /\ q = k /\ IsFiniteSet(procs)
    BY <1>1, ProcsFacts
  <1>8. k + 1 \in 1 .. MainServers /\ procs' = 0 .. (k + 1) - 1 /\ q \notin procs
    <2>1. MainServers \in Nat /\ k \in Nat /\ q = k /\ procs = 0 .. k - 1
      BY <1>7, ProgramsAssumption
    <2>2. k <= MainServers - 1 /\ k >= 1
      BY <1>2, <1>7, <2>1 DEF T!Procs
    <2>3. procs' = (0 .. k - 1) \cup {k} /\ (k + 1) - 1 = k
      BY <1>2, <2>1
    <2>4. (0 .. k - 1) \cup {k} = 0 .. k
      BY <2>1
    <2> QED
      BY <2>1, <2>2, <2>3, <2>4
  <1>9. IsFiniteSet(procs')
    BY <1>2, <1>7, FS_AddElement
  <1>10. ASSUME NEW t \in Started PROVE starts'[t] <= Cardinality(Knowing(t))'
    <2>1. Knowing(t)' = {r \in procs' : t \in started'[r]}
      BY DEF Knowing
    <2>2. Knowing(t) \subseteq Knowing(t)'
      <3>1. ASSUME NEW r \in procs, t \in started[r] PROVE r \in procs' /\ t \in started'[r]
        <4>1. r # q /\ r \in T!Procs
          BY <1>8, ProcsFacts
        <4> QED
          BY <1>2, <3>1, <4>1 DEF TssInv
      <3> QED
        BY <2>1, <3>1 DEF Knowing
    <2>3. IsFiniteSet(Knowing(t)')
      BY <1>9, <2>1, FS_Subset
    <2>4. Cardinality(Knowing(t)) <= Cardinality(Knowing(t)') /\ IsFiniteSet(Knowing(t))
      BY <2>2, <2>3, FS_Subset
    <2>5. Cardinality(Knowing(t)) \in Nat /\ Cardinality(Knowing(t)') \in Nat
      BY <2>3, <2>4, FS_CardinalityType
    <2>6. starts'[t] = starts[t] /\ starts[t] \in Nat /\ starts[t] <= Cardinality(Knowing(t))
      BY <1>2 DEF TssInv
    <2> QED
      BY <2>4, <2>5, <2>6
  <1> QED
    BY <1>2, <1>4, <1>5, <1>6, <1>8, <1>10 DEF TssInv

LEMMA TssStep ==
    ASSUME TssInv, T!Next
    PROVE  TssInv'
  <1>1. CASE T!Programs /\ UNCHANGED T!tssvars
    <2>1. WorkerStep(Clients, Started)
      BY <1>1, TssWorkers DEF TssInv, WorkerInv
    <2>2. WorkerInv(Clients, Started)' /\ Connected(Clients, Started)'
      BY <2>1, WorkersStep, ConnectedStep DEF TssInv, Services
    <2>3. UNCHANGED <<procs, started, asking, queue, wish, starts>>
      BY <1>1 DEF T!tssvars
    <2>4. port' = port /\ \A c \in Clients : client'[c] = "told" => client[c] = "told"
      <3>1. ASSUME NEW c \in Clients, W!ClientStep(c) \/ W!Leave(c)
            PROVE  \A d \in Clients : client'[d] = "told" => client[d] = "told"
        BY <3>1 DEF W!ClientStep, W!Connect, W!Hangup, W!Leave, TssInv, WorkerInv, WorkerTypes
      <3>2. ASSUME NEW s \in Started, W!Listen(s) \/ W!MainLoop(s) \/ W!Thread(s)
            PROVE  client' = client
        BY <3>2 DEF W!Listen, W!MainLoop, W!Accept, W!Spawn, W!Refuse, W!Overrun, W!PreAccept,
                    W!Thread, W!FuncStarts, W!Echo, W!Broken, W!Dies
      <3> QED
        BY <2>1, <3>1, <3>2, WorkerFrame DEF WorkerStep, TssInv, WorkerInv
    <2>5. \A t \in Started : starts'[t] <= Cardinality(Knowing(t))'
      BY <2>3 DEF TssInv, Knowing
    <2> QED
      BY <2>2, <2>3, <2>4, <2>5 DEF TssInv
  <1> QED
    BY <1>1, TssAsk, TssTake, TssKnown, TssStart, TssTwin DEF T!Next, T!MainServer

-----------------------------------------------------------------------------
(***************************************************************************)
(* ThreadServers and PassServer                                            *)
(***************************************************************************)
LEMMA DirectStep ==
    ASSUME WorkerInv(Clients, Threaded \cup Prethreaded), D!Next
    PROVE  WorkerInv(Clients, Threaded \cup Prethreaded)'
  <1>1. CASE \E c \in Clients : D!Run(c)
    <2>1. PICK c \in Clients, s \in Threaded \cup Prethreaded :
              /\ client' = [client EXCEPT ![c] = "told"] /\ port' = [port EXCEPT ![c] = s]
              /\ UNCHANGED <<service, backlog, conn, nfd, thread, answered>>
      BY <1>1 DEF D!Run
    <2>2. WorkerTypes(Clients, Threaded \cup Prethreaded)'
      BY <2>1 DEF WorkerInv, WorkerTypes
    <2> QED
      BY <2>1, <2>2, SameServices
  <1>2. CASE \A c \in Clients : ~D!Run(c)
    <2>1. WorkerStep(Clients, Threaded \cup Prethreaded)
      BY <1>2, DirectWorkers DEF WorkerInv
    <2> QED
      BY <2>1, WorkersStep DEF Services
  <1> QED
    BY <1>1, <1>2

LEMMA PassClients ==
    ASSUME PassInv, NEW c \in Clients, P!Run(c) \/ P!Leave(c) \/ P!Hangup(c)
    PROVE  PassInv'
  <1>1. UNCHANGED <<ps_server, ps_mainserver, ps_passed, ps_conn, ps_fd, ps_thread, ps_answered>>
    BY DEF P!Run, P!Leave, P!Hangup
  <1>2. ps_queue' \in Seq(Clients) /\ ps_client' \in [Clients -> {"off", "talking", "gone"}]
    <2>1. ps_queue \in Seq(Clients) /\ Append(ps_queue, c) \in Seq(Clients)
      BY AppendFacts DEF PassInv
    <2>2. ps_queue' \in {ps_queue, Append(ps_queue, c)}
      BY DEF P!Run, P!Leave, P!Hangup
    <2>3. ps_client' \in [Clients -> {"off", "talking", "gone"}]
      BY DEF P!Run, P!Leave, P!Hangup, PassInv
    <2> QED
      BY <2>1, <2>2, <2>3
  <1>3. P!NeverBackwards'
    BY <1>1 DEF PassInv, P!NeverBackwards
  <1> QED
    BY <1>1, <1>2, <1>3 DEF PassInv

LEMMA PassServers ==
    ASSUME PassInv, P!StartServer \/ P!StartMain \/ P!Pass \/ P!StopMain
    PROVE  PassInv'
  <1>1. UNCHANGED <<ps_conn, ps_fd, ps_thread, ps_client, ps_answered>>
    BY DEF P!StartServer, P!StartMain, P!Pass, P!StopMain
  <1>2. P!NeverBackwards'
    BY <1>1 DEF PassInv, P!NeverBackwards
  <1>3. CASE P!StartServer
    BY <1>1, <1>2, <1>3 DEF PassInv, P!StartServer
  <1>4. CASE P!StartMain
    BY <1>1, <1>2, <1>4 DEF PassInv, P!StartMain
  <1>5. CASE P!StopMain
    <2>1. ps_queue' \in Seq(Clients)
      BY <1>5 DEF P!StopMain
    <2> QED
      BY <1>1, <1>2, <1>5, <2>1 DEF PassInv, P!StopMain
  <1>6. CASE P!Pass
    <2>1. PICK h : h = Head(ps_queue)
      OBVIOUS
    <2>2. Tail(ps_queue) \in Seq(Clients) /\ h \in Clients
      BY <1>6, <2>1, TailFacts DEF PassInv, P!Pass
    <2>3. /\ ps_mainserver = "up" /\ ps_server' = ps_server
          /\ \/ ps_mainserver' = "dead" /\ ps_queue' = <<>> /\ ps_passed' = ps_passed
             \/ /\ ps_passed' = Append(ps_passed, h) /\ ps_queue' = Tail(ps_queue)
                /\ ps_mainserver' = "up"
      BY <1>6, <2>1 DEF P!Pass, P!send_file_descriptor
    <2>4. ps_queue' \in Seq(Clients) /\ ps_passed' \in Seq(Clients)
      <3>1. ps_passed \in Seq(Clients) /\ Append(ps_passed, h) \in Seq(Clients)
        BY <2>2, AppendFacts DEF PassInv
      <3>2. <<>> \in Seq(Clients)
        OBVIOUS
      <3> QED
        BY <2>2, <2>3, <3>1, <3>2
    <2>5. ps_fd # -1
      BY <2>3 DEF PassInv
    <2> QED
      BY <1>1, <1>2, <2>3, <2>4, <2>5 DEF PassInv
  <1> QED
    BY <1>3, <1>4, <1>5, <1>6

LEMMA PassReceive ==
    ASSUME PassInv, P!ServerLoop
    PROVE  PassInv'
  <1>0. /\ ps_thread \in Seq(Int) /\ Len(ps_thread) \in Nat /\ DOMAIN ps_thread = 1..Len(ps_thread)
        /\ ps_conn \in Seq(Clients) /\ Len(ps_conn) \in Nat
    BY LenFacts DEF PassInv
  <1>1. PICK k, t : k = Len(ps_thread) /\ t = Append(ps_thread, 0)
    OBVIOUS
  <1>2. /\ ps_server = "up" /\ ps_thread' = t /\ k < max_clients
        /\ UNCHANGED <<ps_server, ps_mainserver, ps_queue, ps_client, ps_answered>>
    <2>1. /\ ps_server = "up" /\ ps_thread' = t /\ ~P!Overflow
          /\ UNCHANGED <<ps_server, ps_mainserver, ps_queue, ps_client, ps_answered>>
      BY <1>1 DEF P!ServerLoop, P!Receive, P!EndOfFile
    <2>2. k \in Nat /\ max_clients \in Nat
      BY <1>0, <1>1, ProgramsAssumption
    <2>3. ~(k >= max_clients)
      BY <1>1, <2>1 DEF P!Overflow
    <2> QED
      BY <2>1, <2>2, <2>3
  <1>3. /\ t \in Seq(Int) /\ Len(t) = k + 1 /\ t[k + 1] = 0 /\ \A i \in 1..k : t[i] = ps_thread[i]
        /\ k \in Nat /\ DOMAIN t = 1..(k + 1)
    <2>1. t \in Seq(Int) /\ Len(t) = k + 1 /\ t[k + 1] = 0 /\ \A i \in 1..k : t[i] = ps_thread[i]
      BY <1>0, <1>1, AppendFacts
    <2> QED
      BY <1>0, <1>1, <2>1, LenFacts
  <1>4. \A i \in 1..k : ps_thread[i] > 0 => ps_thread[i] >= i
    BY <1>0, <1>1 DEF PassInv, P!NeverBackwards
  <1>5. \A i \in 1..(k + 1) : t[i] > 0 => t[i] >= i
    BY <1>3, <1>4
  <1>6. P!NeverBackwards'
    BY <1>2, <1>3, <1>5 DEF P!NeverBackwards
  <1>7. Len(t) <= max_clients
    BY <1>2, <1>3, ProgramsAssumption
  <1>8. CASE P!Receive
    <2>1. PICK h, n : h = Head(ps_passed) /\ n = Len(ps_conn)
      OBVIOUS
    <2>2. /\ ps_passed # <<>> /\ ps_conn' = Append(ps_conn, h) /\ ps_passed' = Tail(ps_passed)
          /\ ps_fd' = n + 1
      BY <1>8, <2>1 DEF P!Receive
    <2>3. ps_passed' \in Seq(Clients) /\ h \in Clients
      BY <2>1, <2>2, TailFacts DEF PassInv
    <2>4. ps_conn' \in Seq(Clients) /\ Len(ps_conn') = n + 1 /\ n \in Nat
      BY <1>0, <2>1, <2>2, <2>3, AppendFacts
    <2>5. n = k
      BY <1>1, <1>2, <2>1, <2>2 DEF PassInv
    <2>6. ps_fd' # -1 /\ ps_fd' = Len(ps_conn') /\ Len(ps_conn') = Len(ps_thread') /\ ps_fd' \in Int
      BY <1>2, <1>3, <2>2, <2>4, <2>5
    <2>7. Len(ps_conn') <= Len(ps_thread')
      BY <2>4, <2>6
    <2> QED
      BY <1>2, <1>3, <1>6, <1>7, <2>3, <2>4, <2>6, <2>7 DEF PassInv
  <1>9. CASE P!EndOfFile
    <2>1. /\ ps_mainserver = "dead" /\ ps_passed = <<>> /\ ps_fd' = -1
          /\ UNCHANGED <<ps_passed, ps_conn>>
      BY <1>9 DEF P!EndOfFile
    <2>2. Len(ps_conn') <= Len(ps_thread')
      BY <1>0, <1>1, <1>2, <1>3, <2>1 DEF PassInv
    <2> QED
      BY <1>2, <1>3, <1>6, <1>7, <2>1, <2>2 DEF PassInv
  <1> QED
    BY <1>8, <1>9 DEF P!ServerLoop

LEMMA PassDies ==
    ASSUME PassInv, P!Dies
    PROVE  PassInv'
  <1>1. /\ ps_server' = "dead" /\ ps_passed' = <<>> /\ ps_conn' = <<>> /\ ps_thread' = <<>>
        /\ UNCHANGED <<ps_mainserver, ps_queue, ps_fd, ps_client, ps_answered>>
    BY DEF P!Dies
  <1>2. P!NeverBackwards'
    BY <1>1 DEF P!NeverBackwards
  <1>3. Len(ps_thread') <= max_clients /\ Len(ps_conn') <= Len(ps_thread')
    BY <1>1, ProgramsAssumption
  <1> QED
    BY <1>1, <1>2, <1>3 DEF PassInv

LEMMA PassThread ==
    ASSUME PassInv, P!Thread
    PROVE  PassInv'
  <1>0. /\ ps_thread \in Seq(Int) /\ Len(ps_thread) \in Nat /\ DOMAIN ps_thread = 1..Len(ps_thread)
        /\ ps_conn \in Seq(Clients) /\ Len(ps_conn) \in Nat /\ DOMAIN ps_conn = 1..Len(ps_conn)
    BY LenFacts DEF PassInv
  <1>1. PICK i \in 1..Len(ps_thread) : P!FuncStarts(i) \/ P!Send(i) \/ P!Broken(i)
    BY <1>0 DEF P!Thread
  <1>2. CASE P!FuncStarts(i)
    <2>1. PICK t : t = [ps_thread EXCEPT ![i] = ps_fd]
      OBVIOUS
    <2>2. /\ ps_thread' = t
          /\ UNCHANGED <<ps_server, ps_mainserver, ps_queue, ps_passed, ps_conn, ps_fd,
                         ps_client, ps_answered>>
      BY <1>2, <2>1 DEF P!FuncStarts
    <2>3. /\ t \in Seq(Int) /\ Len(t) = Len(ps_thread) /\ DOMAIN t = 1..Len(ps_thread)
          /\ \A j \in 1..Len(ps_thread) : t[j] = IF j = i THEN ps_fd ELSE ps_thread[j]
      <3>1. ps_fd \in Int
        BY DEF PassInv
      <3>2. /\ t \in Seq(Int) /\ Len(t) = Len(ps_thread)
            /\ \A j \in 1..Len(ps_thread) : t[j] = IF j = i THEN ps_fd ELSE ps_thread[j]
        BY <1>0, <2>1, <3>1
      <3> QED
        BY <3>2, LenFacts
    <2>4. ps_server = "up"
      <3>1. ps_thread # <<>>
        BY <1>0
      <3> QED
        BY <3>1 DEF PassInv
    <2>5. ps_fd > 0 => ps_fd >= i
      <3>1. CASE ps_fd = -1
        BY <3>1
      <3>2. CASE ps_fd # -1
        <4>1. ps_fd = Len(ps_thread)
          BY <2>4, <3>2 DEF PassInv
        <4> QED
          BY <1>0, <4>1
      <3> QED
        BY <3>1, <3>2
    <2>6. \A j \in 1..Len(ps_thread) : ps_thread[j] > 0 => ps_thread[j] >= j
      BY <1>0 DEF PassInv, P!NeverBackwards
    <2>7. \A j \in 1..Len(ps_thread) : t[j] > 0 => t[j] >= j
      BY <2>3, <2>5, <2>6
    <2>8. P!NeverBackwards'
      BY <2>2, <2>3, <2>7 DEF P!NeverBackwards
    <2> QED
      BY <2>2, <2>3, <2>4, <2>8 DEF PassInv
  <1>3. CASE P!Send(i)
    <2>1. PICK d \in DOMAIN ps_conn : ps_answered' = ps_answered \cup {ps_conn[d]}
      BY <1>3 DEF P!Send, P!Peer
    <2>2. UNCHANGED <<ps_server, ps_mainserver, ps_queue, ps_passed, ps_conn, ps_fd, ps_thread,
                      ps_client>>
      BY <1>3 DEF P!Send
    <2>3. ps_answered' \subseteq Clients
      <3>1. ps_conn[d] \in Clients
        BY <1>0, LenFacts
      <3> QED
        BY <2>1, <3>1 DEF PassInv
    <2>4. P!NeverBackwards'
      BY <2>2 DEF PassInv, P!NeverBackwards
    <2> QED
      BY <2>2, <2>3, <2>4 DEF PassInv
  <1>4. CASE P!Broken(i)
    BY <1>4, PassDies DEF P!Broken
  <1> QED
    BY <1>1, <1>2, <1>3, <1>4

LEMMA PassStep ==
    ASSUME PassInv, P!Next
    PROVE  PassInv'
  BY PassClients, PassServers, PassReceive, PassDies, PassThread DEF P!Next, P!Overrun

-----------------------------------------------------------------------------
(***************************************************************************)
(* ForkServers                                                             *)
(***************************************************************************)
LEMMA MinFacts ==
    ASSUME NEW A, A \subseteq Nat, A # {}
    PROVE  K!Min(A) \in A
  <1>1. PICK x \in A : \A y \in A : x <= y
    BY Smallest
  <1> QED
    BY <1>1 DEF K!Min

LEMMA ProcFacts == 0 \in K!Procs /\ K!Procs \subseteq Nat /\ 1 \in 1 .. NPorts
                    /\ K!Ports \subseteq 1 .. NPorts /\ K!Ports # {} /\ Nobody \notin Clients
  <1>1. NPorts \in Nat /\ NPorts >= 1 /\ MaxProcs \in Nat /\ MaxProcs >= 1
    BY ProgramsAssumption
  <1>2. 1 \in 1 .. NPorts /\ 0 \in K!Procs /\ K!Procs \subseteq Nat
    BY <1>1 DEF K!Procs
  <1>3. K!Ports = 1 .. NPorts \/ K!Ports = {1}
    BY DEF K!Ports
  <1> QED
    BY <1>2, <1>3, ProgramsAssumption

\* What holds whatever the queues are
LEMMA QueuesKept ==
    ASSUME ForkTypes, Queues, fk_queue' = fk_queue, fk_nfd' = fk_nfd,
           \A c \in Clients : fk_client[c] # "off" => fk_client'[c] # "off",
           \A q \in K!Procs : fk_pc'[q] = "server1" => fk_pc[q] = "server1"
    PROVE  Queues'
  <1>1. \A p \in 1 .. NPorts : \A j \in 1..Len(fk_queue[p]) : fk_queue[p][j] \in Clients
    BY LenFacts DEF ForkTypes
  <1>2. \A q \in K!Procs : fk_nfd[q] \in Clients \cup {Nobody}
    BY DEF ForkTypes, K!TypeOK
  <1>3. \A p \in 1 .. NPorts : \A j \in 1..Len(fk_queue'[p]) : fk_client'[fk_queue'[p][j]] # "off"
    BY <1>1 DEF Queues
  <1>4. \A q \in K!Procs : fk_nfd'[q] # Nobody =>
            fk_client'[fk_nfd'[q]] # "off" /\ ~Queued(fk_nfd[q])
    BY <1>2 DEF Queues
  <1>5. \A c : Queued(c)' <=> Queued(c)
    BY DEF Queued
  <1>6. \A q \in K!Procs : fk_nfd'[q] # Nobody =>
            fk_client'[fk_nfd'[q]] # "off" /\ ~Queued(fk_nfd[q])'
    BY <1>4, <1>5
  <1>7. \A q, r \in K!Procs : q # r /\ fk_pc'[q] = "server1" /\ fk_pc'[r] = "server1" =>
           fk_nfd'[q] = Nobody \/ fk_nfd'[q] # fk_nfd'[r]
    BY DEF Queues
  <1> QED
    BY <1>3, <1>6, <1>7 DEF Queues, Queued

LEMMA ForkClients ==
    ASSUME ForkInv, NEW c \in Clients, K!Send(c) \/ K!Leave(c) \/ K!Hangup(c)
    PROVE  ForkInv'
  <1>1. PICK v \in {"sent", "gone"} :
            /\ fk_client' = [fk_client EXCEPT ![c] = v]
            /\ UNCHANGED <<fk_kind, fk_present, fk_badlen, fk_queue, fk_pc, fk_ready, fk_fds,
                           fk_nfd, fk_child, fk_signalled>>
    BY DEF K!Send, K!Leave, K!Hangup, K!Become, K!given
  <1>2. ForkTypes'
    BY <1>1 DEF ForkInv, ForkTypes, K!TypeOK
  <1>3. Loops'
    BY <1>1 DEF ForkInv, Loops
  <1>4. Queues'
    BY <1>1, QueuesKept DEF ForkInv, ForkTypes, K!TypeOK
  <1>5. ReadyPorts'
    BY <1>1 DEF ForkInv, ReadyPorts, Alone, K!Closes
  <1> QED
    BY <1>2, <1>3, <1>4, <1>5 DEF ForkInv

LEMMA ForkSelect ==
    ASSUME ForkInv, NEW q \in K!Procs, K!Select(q) \/ (K!handler_func /\ q = 0)
    PROVE  ForkInv'
  <1>1. PICK A \in SUBSET (1 .. NPorts) :
            /\ A # {} /\ fk_pc[q] = "select" /\ fk_pc' = [fk_pc EXCEPT ![q] = "scan"]
            /\ fk_ready' = [fk_ready EXCEPT ![q] = A]
            /\ fk_signalled' \in BOOLEAN
            /\ \/ fk_signalled' = TRUE
               \/ /\ fk_signalled' = fk_signalled
                  /\ A = IF fk_kind = "dupserver" \/ ~K!Listens(q) THEN K!Ports
                         ELSE {p \in K!Ports : fk_queue[p] # <<>>}
            /\ UNCHANGED <<fk_kind, fk_present, fk_badlen, fk_queue, fk_fds, fk_nfd, fk_child,
                           fk_client>>
    <2>1. CASE K!Select(q)
      <3>1. PICK A : A = IF fk_kind = "dupserver" \/ ~K!Listens(q) THEN K!Ports
                         ELSE {p \in K!Ports : fk_queue[p] # <<>>}
        OBVIOUS
      <3>2. A \in SUBSET (1 .. NPorts)
        BY <3>1, ProcFacts
      <3>3. fk_ready' = [fk_ready EXCEPT ![q] = A] /\ fk_ready'[q] # {}
        BY <2>1, <3>1 DEF K!Select
      <3>4. A # {}
        BY <3>3 DEF ForkInv, ForkTypes, K!TypeOK
      <3> QED
        BY <2>1, <3>1, <3>2, <3>3, <3>4 DEF K!Select, K!given, ForkInv, ForkTypes
    <2>2. CASE K!handler_func /\ q = 0
      BY <2>2, ProcFacts DEF K!handler_func, K!given
    <2> QED
      BY <2>1, <2>2
  <1>2. ForkTypes'
    BY <1>1 DEF ForkInv, ForkTypes, K!TypeOK
  <1>3. \A r \in K!Procs : /\ fk_pc'[r] = IF r = q THEN "scan" ELSE fk_pc[r]
                           /\ fk_ready'[r] = IF r = q THEN A ELSE fk_ready[r]
    BY <1>1 DEF ForkInv, ForkTypes, K!TypeOK
  <1>4. Loops'
    <2>1. fk_pc'[0] \in {"select", "scan", "wait"}
      BY <1>3, ProcFacts DEF ForkInv, Loops
    <2>2. \A r \in K!Procs : /\ fk_pc'[r] = "wait" => fk_kind = "superserver"
                             /\ fk_pc'[r] = "scan" => fk_ready'[r] # {}
      BY <1>1, <1>3 DEF ForkInv, Loops
    <2>3. fk_present => \A r \in K!Procs \ {0} : fk_pc'[r] \in {"none", "server1", "zombie"}
      BY <1>1, <1>3 DEF ForkInv, Loops
    <2>4. ~fk_present => \A r \in K!Procs : fk_pc'[r] # "server1"
      BY <1>3 DEF ForkInv, Loops
    <2>5. fk_kind = "superserver" =>
              \A r \in K!Procs : fk_pc'[r] = "server1" => fk_pc'[0] = "wait" /\ fk_child[0] = r
      BY <1>1, <1>3, ProcFacts DEF ForkInv, Loops
    <2> QED
      BY <1>1, <2>1, <2>2, <2>3, <2>4, <2>5 DEF Loops
  <1>5. Queues'
    BY <1>1, <1>3, QueuesKept DEF ForkInv
  <1>6. ReadyPorts'
    <2>1. CASE q = 0
      BY <1>1, <1>3, <2>1 DEF ReadyPorts, Alone, K!Listens
    <2>2. CASE q # 0
      BY <1>1, <1>3, <2>2, ProcFacts DEF ForkInv, ReadyPorts, Alone, K!Closes
    <2> QED
      BY <2>1, <2>2
  <1> QED
    BY <1>2, <1>4, <1>5, <1>6 DEF ForkInv

LEMMA ForkExit ==
    ASSUME ForkInv, NEW r \in K!Procs, K!Answer(r) \/ K!End(r)
    PROVE  ForkInv'
  <1>1. /\ fk_pc[r] = "server1"
        /\ \/ fk_pc' = fk_pc /\ fk_fds' = fk_fds
           \/ /\ fk_pc' = [fk_pc EXCEPT ![r] = "zombie"]
              /\ fk_fds' = [fk_fds EXCEPT ![r] = {}]
        /\ UNCHANGED <<fk_kind, fk_present, fk_badlen, fk_queue, fk_ready, fk_nfd, fk_child,
                       fk_signalled>>
    BY DEF K!Answer, K!End, K!Exit, K!given
  <1>2. /\ fk_client' \in [Clients -> {"off", "connected", "sent", "answered", "gone"}]
        /\ \A c \in Clients : fk_client[c] # "off" => fk_client'[c] # "off"
    BY DEF K!Answer, K!End, ForkInv, ForkTypes, K!TypeOK
  <1>3. /\ fk_pc' \in [K!Procs -> {"none", "select", "scan", "wait", "server1", "zombie"}]
        /\ fk_fds' \in [K!Procs -> SUBSET Clients]
    BY <1>1 DEF ForkInv, ForkTypes, K!TypeOK
  <1>4. ForkTypes'
    BY <1>1, <1>2, <1>3 DEF ForkInv, ForkTypes, K!TypeOK
  <1>5. \A s \in K!Procs : fk_pc'[s] = fk_pc[s] \/ (s = r /\ fk_pc'[s] = "zombie")
    BY <1>1 DEF ForkInv, ForkTypes, K!TypeOK
  <1>6. r # 0 /\ fk_pc'[0] = fk_pc[0]
    BY <1>1, <1>5, ProcFacts DEF ForkInv, Loops
  <1>7. Loops'
    BY <1>1, <1>5, <1>6 DEF ForkInv, Loops
  <1>8. Queues'
    BY <1>1, <1>2, <1>5, QueuesKept DEF ForkInv
  <1>9. ReadyPorts'
    BY <1>1, <1>6 DEF ForkInv, ReadyPorts, Alone, K!Closes
  <1> QED
    BY <1>4, <1>7, <1>8, <1>9 DEF ForkInv

LEMMA ForkReap ==
    ASSUME ForkInv, NEW q \in K!Procs, K!Reap(q)
    PROVE  ForkInv'
  <1>1. PICK r : r = fk_child[q]
    OBVIOUS
  <1>2. /\ fk_pc[q] = "wait" /\ fk_pc[r] = "zombie"
        /\ fk_pc' = [[fk_pc EXCEPT ![q] = "select"] EXCEPT ![r] = "none"]
        /\ fk_fds' = [fk_fds EXCEPT ![q] = IF q = 0 THEN {} ELSE fk_fds[q]]
        /\ UNCHANGED <<fk_kind, fk_present, fk_badlen, fk_queue, fk_ready, fk_nfd, fk_child,
                       fk_client, fk_signalled>>
    BY <1>1 DEF K!Reap, K!given
  <1>3. r \in K!Procs /\ r # q
    BY <1>1, <1>2 DEF ForkInv, ForkTypes, K!TypeOK
  <1>4. ForkTypes'
    BY <1>2, <1>3 DEF ForkInv, ForkTypes, K!TypeOK
  <1>5. \A s \in K!Procs : fk_pc'[s] = IF s = q THEN "select" ELSE IF s = r THEN "none" ELSE fk_pc[s]
    BY <1>2, <1>3 DEF ForkInv, ForkTypes, K!TypeOK
  <1>6. fk_kind = "superserver" /\ r # 0
    BY <1>2, ProcFacts DEF ForkInv, Loops
  <1>7. fk_present => q = 0
    BY <1>2 DEF ForkInv, Loops
  <1>8. \A s \in K!Procs : fk_pc'[s] # "server1"
    <2>1. ASSUME NEW s \in K!Procs, fk_pc'[s] = "server1" PROVE FALSE
      <3>1. fk_pc[s] = "server1" /\ s # r
        BY <1>5, <2>1
      <3>2. fk_present
        BY <3>1 DEF ForkInv, Loops, ForkTypes
      <3>3. q = 0 /\ fk_child[0] = s
        BY <1>6, <1>7, <3>1, <3>2 DEF ForkInv, Loops
      <3> QED
        BY <1>1, <3>1, <3>3
    <2> QED
      BY <2>1
  <1>9. Loops'
    <2>1. fk_pc'[0] \in {"select", "scan", "wait"}
      BY <1>5, <1>6, ProcFacts DEF ForkInv, Loops
    <2>2. \A s \in K!Procs : /\ fk_pc'[s] = "wait" => fk_kind = "superserver"
                             /\ fk_pc'[s] = "scan" => fk_ready'[s] # {}
      <3>1. ASSUME NEW s \in K!Procs, fk_pc'[s] = "scan" PROVE fk_ready'[s] # {}
        <4>1. fk_pc[s] = "scan" /\ fk_ready'[s] = fk_ready[s]
          BY <1>2, <1>5, <3>1
        <4> QED
          BY <4>1 DEF ForkInv, Loops
      <3> QED
        BY <1>6, <3>1
    <2>3. fk_present => \A s \in K!Procs \ {0} : fk_pc'[s] \in {"none", "server1", "zombie"}
      BY <1>5, <1>7 DEF ForkInv, Loops
    <2> QED
      BY <1>2, <1>8, <2>1, <2>2, <2>3 DEF Loops
  <1>10. Queues'
    BY <1>2, <1>8, QueuesKept DEF ForkInv
  <1>11. ReadyPorts'
    BY <1>2, <1>5, <1>6, ProcFacts DEF ForkInv, ReadyPorts, Alone, K!Closes
  <1> QED
    BY <1>4, <1>9, <1>10, <1>11 DEF ForkInv

LEMMA ForkConnect ==
    ASSUME ForkInv, NEW c \in Clients, K!Connect(c)
    PROVE  ForkInv'
  <1>1. PICK p \in K!Ports : fk_queue' = [fk_queue EXCEPT ![p] = Append(fk_queue[p], c)]
    BY DEF K!Connect
  <1>2. PICK b : b = fk_queue[p]
    OBVIOUS
  <1>3. /\ fk_client[c] = "off" /\ fk_client' = [fk_client EXCEPT ![c] = "connected"]
        /\ fk_queue' = [fk_queue EXCEPT ![p] = Append(b, c)]
        /\ UNCHANGED <<fk_kind, fk_present, fk_badlen, fk_pc, fk_ready, fk_fds, fk_nfd, fk_child,
                       fk_signalled>>
    BY <1>1, <1>2 DEF K!Connect, K!given
  <1>4. p \in 1 .. NPorts /\ b \in Seq(Clients)
    BY <1>2, ProcFacts DEF ForkInv, ForkTypes
  <1>5. /\ Append(b, c) \in Seq(Clients) /\ Len(b) \in Nat /\ Len(Append(b, c)) = Len(b) + 1
        /\ \A i \in 1..Len(b) : Append(b, c)[i] = b[i]
        /\ Append(b, c)[Len(b) + 1] = c
    BY <1>4, AppendFacts
  <1>6. ForkTypes'
    BY <1>3, <1>4, <1>5 DEF ForkInv, ForkTypes, K!TypeOK
  <1>7. Loops'
    BY <1>3 DEF ForkInv, Loops
  <1>8. \A d \in Clients : fk_client'[d] = IF d = c THEN "connected" ELSE fk_client[d]
    BY <1>3 DEF ForkInv, ForkTypes, K!TypeOK
  <1>9. fk_queue'[p] = Append(b, c) /\ \A o \in (1 .. NPorts) \ {p} : fk_queue'[o] = fk_queue[o]
    BY <1>3, <1>4 DEF ForkInv, ForkTypes
  \* where the elements of the queues come from
  <1>10. ASSUME NEW o \in 1 .. NPorts, NEW j \in 1..Len(fk_queue'[o])
         PROVE  \/ o = p /\ j = Len(b) + 1 /\ fk_queue'[o][j] = c
                \/ /\ j \in 1..Len(fk_queue[o]) /\ fk_queue'[o][j] = fk_queue[o][j]
                   /\ fk_queue[o][j] \in Clients /\ fk_queue[o][j] # c
    <2>1. \A i \in 1..Len(fk_queue[o]) : fk_queue[o][i] \in Clients /\ fk_queue[o][i] # c
      BY <1>3, LenFacts DEF ForkInv, ForkTypes, Queues
    <2>2. CASE o = p
      BY <1>2, <1>5, <1>9, <1>10, <2>1, <2>2
    <2>3. CASE o # p
      BY <1>9, <1>10, <2>1, <2>3
    <2> QED
      BY <2>2, <2>3
  <1>11. Queues'
    <2>1. \A o \in 1 .. NPorts : \A j \in 1..Len(fk_queue'[o]) : fk_client'[fk_queue'[o][j]] # "off"
      BY <1>8, <1>10 DEF ForkInv, Queues
    <2>2. ASSUME NEW o \in 1 .. NPorts, NEW u \in 1 .. NPorts, NEW j \in 1..Len(fk_queue'[o]),
                 NEW i \in 1..Len(fk_queue'[u]), fk_queue'[o][j] = fk_queue'[u][i]
          PROVE  o = u /\ j = i
      <3>1. CASE fk_queue'[o][j] = c
        <4>0. PICK m : m = Len(b) + 1
          OBVIOUS
        <4>1. o = p /\ j = m
          BY <1>10, <3>1, <4>0
        <4>2. u = p /\ i = m
          <5>1. fk_queue'[u][i] = c
            BY <2>2, <3>1
          <5>2. \/ u = p /\ i = Len(b) + 1 /\ fk_queue'[u][i] = c
                \/ /\ i \in 1..Len(fk_queue[u]) /\ fk_queue'[u][i] = fk_queue[u][i]
                   /\ fk_queue[u][i] \in Clients /\ fk_queue[u][i] # c
            BY <1>10
          <5> QED
            BY <4>0, <5>1, <5>2
        <4>3. o = u
          BY <4>1, <4>2
        <4>4. j = i
          BY <4>1, <4>2
        <4> QED
          BY <4>3, <4>4
      <3>2. CASE fk_queue'[o][j] # c
        <4>1. /\ j \in 1..Len(fk_queue[o]) /\ fk_queue'[o][j] = fk_queue[o][j]
              /\ i \in 1..Len(fk_queue[u]) /\ fk_queue'[u][i] = fk_queue[u][i]
          BY <1>10, <2>2, <3>2
        <4>2. fk_queue[o][j] = fk_queue[u][i]
          BY <2>2, <4>1
        <4>3. \A v, w \in 1 .. NPorts : \A k \in 1..Len(fk_queue[v]), l \in 1..Len(fk_queue[w]) :
                  fk_queue[v][k] = fk_queue[w][l] => v = w /\ k = l
          BY DEF ForkInv, Queues
        <4> QED
          BY <4>1, <4>2, <4>3
      <3> QED
        BY <3>1, <3>2
    <2>3. ASSUME NEW q \in K!Procs, fk_nfd'[q] # Nobody
          PROVE  /\ fk_client'[fk_nfd'[q]] # "off"
                 /\ \A o \in 1 .. NPorts : \A j \in 1..Len(fk_queue'[o]) :
                        fk_queue'[o][j] # fk_nfd'[q]
      <3>1. /\ fk_nfd[q] \in Clients /\ fk_client[fk_nfd[q]] # "off" /\ ~Queued(fk_nfd[q])
            /\ fk_nfd[q] # c
        <4>1. fk_nfd[q] # Nobody
          BY <1>3, <2>3
        <4>2. fk_nfd[q] \in Clients
          BY <4>1 DEF ForkInv, ForkTypes, K!TypeOK
        <4>3. fk_client[fk_nfd[q]] # "off" /\ ~Queued(fk_nfd[q])
          BY <4>1 DEF ForkInv, Queues
        <4> QED
          BY <1>3, <4>2, <4>3
      <3>2. \A o \in 1 .. NPorts : \A j \in 1..Len(fk_queue'[o]) : fk_queue'[o][j] # fk_nfd[q]
        BY <1>10, <3>1 DEF Queued
      <3> QED
        BY <1>3, <1>8, <3>1, <3>2
    <2>4. \A q, r \in K!Procs : q # r /\ fk_pc'[q] = "server1" /\ fk_pc'[r] = "server1" =>
              fk_nfd'[q] = Nobody \/ fk_nfd'[q] # fk_nfd'[r]
      BY <1>3 DEF ForkInv, Queues
    <2> QED
      BY <2>1, <2>2, <2>3, <2>4 DEF Queues, Queued
  <1>12. ReadyPorts'
    <2>1. \A o \in 1 .. NPorts : fk_queue[o] # <<>> => fk_queue'[o] # <<>>
      <3>1. Append(b, c) # <<>>
        BY <1>5
      <3> QED
        BY <1>9, <3>1
    <2>2. fk_ready[0] \subseteq 1 .. NPorts
      BY ProcFacts DEF ForkInv, ForkTypes, K!TypeOK
    <2> QED
      BY <1>3, <2>1, <2>2 DEF ForkInv, ReadyPorts, Alone, K!Closes
  <1> QED
    BY <1>6, <1>7, <1>11, <1>12 DEF ForkInv

\* What Fork does, whatever becomes of the child
NoChild(q, rest) ==
    /\ K!Free = {} /\ fk_pc' = [fk_pc EXCEPT ![q] = K!Loop(rest)]
    /\ fk_ready' = [fk_ready EXCEPT ![q] = rest] /\ UNCHANGED <<fk_nfd, fk_child>>
ForkedAny(q, c, rest) ==
    \E r \in K!Free, mine \in SUBSET rest : \E runs :
        /\ r \in K!Procs /\ r # q
        /\ ~fk_present => runs = K!Loop(mine)
        /\ fk_present => runs \in {"zombie", "server1"}
        /\ fk_pc' = [[fk_pc EXCEPT ![q] = IF fk_kind = "superserver" THEN "wait" ELSE K!Loop(rest)]
                     EXCEPT ![r] = runs]
        /\ fk_ready' = [[fk_ready EXCEPT ![q] = rest] EXCEPT ![r] = mine]
        /\ fk_nfd' = [fk_nfd EXCEPT ![r] = c]
        /\ fk_child' = [fk_child EXCEPT ![q] = r]

LEMMA ForkCases ==
    ASSUME ForkTypes, NEW q \in K!Procs, fk_pc[q] = "scan", NEW c \in Clients \cup {Nobody},
           NEW rest \in SUBSET (1 .. NPorts), K!Fork(q, c, rest)
    PROVE  /\ fk_fds' \in [K!Procs -> SUBSET Clients]
           /\ c = Nobody /\ fk_kind # "superserver" => fk_fds'[q] = fk_fds[q]
           /\ fk_ready'[q] = rest
           /\ NoChild(q, rest) \/ ForkedAny(q, c, rest)
  <1>1. PICK a, m : /\ m = {c} \ {Nobody}
                    /\ a = IF K!Closes /\ ~(K!Waits /\ K!Free # {}) THEN fk_fds[q]
                           ELSE fk_fds[q] \cup m
    OBVIOUS
  <1>2. m \subseteq Clients /\ a \subseteq Clients /\ (c = Nobody => a = fk_fds[q])
    <2>1. fk_fds[q] \subseteq Clients
      BY DEF ForkTypes, K!TypeOK
    <2> QED
      BY <1>1, <2>1
  <1>3. CASE K!Free = {}
    <2>1. /\ fk_pc' = [fk_pc EXCEPT ![q] = K!Loop(rest)]
          /\ fk_ready' = [fk_ready EXCEPT ![q] = rest]
          /\ fk_fds' = [fk_fds EXCEPT ![q] = a] /\ UNCHANGED <<fk_nfd, fk_child>>
      BY <1>1, <1>3 DEF K!Fork
    <2> QED
      BY <1>2, <1>3, <2>1 DEF ForkTypes, K!TypeOK, NoChild
  <1>4. CASE K!Free # {}
    <2>1. PICK r, mine, runs :
              /\ r = K!Min(K!Free)
              /\ mine = IF fk_kind = "inetd" THEN {} ELSE rest
              /\ runs = IF ~fk_present THEN K!Loop(mine)
                        ELSE IF K!Cardinality(fk_fds[q] \cup m) >= MaxFds THEN "zombie"
                        ELSE "server1"
      OBVIOUS
    <2>2. /\ fk_pc' = [fk_pc EXCEPT ![q] = IF K!Waits THEN "wait" ELSE K!Loop(rest), ![r] = runs]
          /\ fk_ready' = [fk_ready EXCEPT ![q] = rest, ![r] = mine]
          /\ fk_fds' = [fk_fds EXCEPT ![q] = a,
                                      ![r] = IF runs = "zombie" THEN {} ELSE fk_fds[q] \cup m]
          /\ fk_nfd' = [fk_nfd EXCEPT ![r] = c]
          /\ fk_child' = [fk_child EXCEPT ![q] = r]
      BY <1>1, <1>4, <2>1 DEF K!Fork
    <2>3. r \in K!Free
      BY <1>4, <2>1, MinFacts, ProcFacts DEF K!Free
    <2>4. r \in K!Procs /\ r # q
      BY <2>3 DEF K!Free
    <2>5. mine \in SUBSET rest
      BY <2>1
    <2>6. (~fk_present => runs = K!Loop(mine)) /\ (fk_present => runs \in {"zombie", "server1"})
      BY <2>1
    <2>7. fk_fds' \in [K!Procs -> SUBSET Clients] /\ (c = Nobody => fk_fds'[q] = fk_fds[q])
      <3>1. fk_fds \in [K!Procs -> SUBSET Clients]
        BY DEF ForkTypes, K!TypeOK
      <3>2. (IF runs = "zombie" THEN {} ELSE fk_fds[q] \cup m) \in SUBSET Clients
        BY <1>2, <3>1
      <3> QED
        BY <1>2, <2>2, <2>4, <3>1, <3>2
    <2>8. fk_ready'[q] = rest
      BY <2>2, <2>4 DEF ForkTypes, K!TypeOK
    <2> QED
      BY <2>2, <2>3, <2>4, <2>5, <2>6, <2>7, <2>8 DEF K!Waits, ForkedAny
  <1> QED
    BY <1>3, <1>4

LEMMA AcceptCases ==
    ASSUME ForkTypes, Loops, NEW q \in K!Procs, K!Accept(q)
    PROVE  \E p \in fk_ready[q], c \in Clients \cup {Nobody} :
               /\ fk_pc[q] = "scan" /\ p \in 1 .. NPorts
               /\ K!Fork(q, c, fk_ready[q] \ {p})
               /\ \/ (~K!Listens(q) \/ K!Full(q)) /\ c = Nobody /\ fk_queue' = fk_queue
                  \/ /\ K!Listens(q) /\ ~K!Full(q) /\ fk_queue[p] # <<>>
                     /\ c \in {Nobody, Head(fk_queue[p])}
                     /\ fk_queue' = [fk_queue EXCEPT ![p] = Tail(fk_queue[p])]
               /\ UNCHANGED <<fk_kind, fk_present, fk_badlen, fk_client, fk_signalled>>
  <1>1. PICK p, fails, c :
            /\ p = K!Min(fk_ready[q]) /\ fails = (~K!Listens(q) \/ K!Full(q))
            /\ c = IF fails \/ fk_badlen THEN Nobody ELSE Head(fk_queue[p])
    OBVIOUS
  <1>2. /\ fk_pc[q] = "scan" /\ (fails \/ fk_queue[p] # <<>>)
        /\ fk_queue' = IF fails THEN fk_queue ELSE [fk_queue EXCEPT ![p] = Tail(fk_queue[p])]
        /\ K!Fork(q, c, fk_ready[q] \ {p})
        /\ UNCHANGED <<fk_kind, fk_present, fk_badlen, fk_client, fk_signalled>>
    BY <1>1 DEF K!Accept, K!given
  <1>3. fk_ready[q] # {} /\ fk_ready[q] \subseteq 1 .. NPorts
    BY <1>2 DEF Loops, ForkTypes, K!TypeOK
  <1>4. fk_ready[q] \subseteq Nat
    BY <1>3
  <1>5. p \in fk_ready[q] /\ p \in 1 .. NPorts
    BY <1>1, <1>3, <1>4, MinFacts
  <1>6. fk_queue[p] # <<>> => Head(fk_queue[p]) \in Clients
    BY <1>5, TailFacts DEF ForkTypes
  <1>7. c \in Clients \cup {Nobody}
    BY <1>1, <1>2, <1>6
  <1>8. CASE fails
    BY <1>1, <1>2, <1>5, <1>7, <1>8
  <1>9. CASE ~fails
    BY <1>1, <1>2, <1>5, <1>7, <1>9
  <1> QED
    BY <1>8, <1>9

\* How the processes change: r is the child, or nobody.
ForkedChild(q, c, rest, r, u, runs, mine) ==
    /\ u \in {"select", "scan", "wait"} /\ (u = "wait" => fk_kind = "superserver")
    /\ (u = "scan" => rest # {})
    /\ \A s \in K!Procs :
           /\ fk_pc'[s] = IF s = q THEN u ELSE IF s = r THEN runs ELSE fk_pc[s]
           /\ fk_ready'[s] = IF s = q THEN rest ELSE IF s = r THEN mine ELSE fk_ready[s]
           /\ fk_nfd'[s] = IF s = r THEN c ELSE fk_nfd[s]
    /\ r # q /\ (r \in K!Procs => fk_pc[r] = "none")
    /\ fk_present => runs \in {"zombie", "server1"}
    /\ ~fk_present => runs \in {"select", "scan"} /\ (runs = "scan" => mine # {})
    /\ r \in K!Procs => fk_child'[q] = r /\ (fk_kind = "superserver" => u = "wait")

LEMMA AcceptFork ==
    ASSUME ForkInv, NEW q \in K!Procs, K!Accept(q)
    PROVE  ForkInv'
  <1>1. PICK p \in fk_ready[q], c \in Clients \cup {Nobody} :
               /\ fk_pc[q] = "scan" /\ p \in 1 .. NPorts
               /\ K!Fork(q, c, fk_ready[q] \ {p})
               /\ \/ (~K!Listens(q) \/ K!Full(q)) /\ c = Nobody /\ fk_queue' = fk_queue
                  \/ /\ K!Listens(q) /\ ~K!Full(q) /\ fk_queue[p] # <<>>
                     /\ c \in {Nobody, Head(fk_queue[p])}
                     /\ fk_queue' = [fk_queue EXCEPT ![p] = Tail(fk_queue[p])]
               /\ UNCHANGED <<fk_kind, fk_present, fk_badlen, fk_client, fk_signalled>>
    BY AcceptCases DEF ForkInv
  <1>2. PICK rest : rest = fk_ready[q] \ {p}
    OBVIOUS
  <1>3. rest \in SUBSET (1 .. NPorts)
    BY <1>2 DEF ForkInv, ForkTypes, K!TypeOK
  <1>4. K!Loop(rest) \in {"select", "scan"} /\ (K!Loop(rest) = "scan" => rest # {})
        /\ \A mine : /\ K!Loop(mine) \in {"select", "scan"}
                     /\ K!Loop(mine) = "scan" => mine # {}
    BY DEF K!Loop
  <1>5. fk_present => q = 0
    BY <1>1 DEF ForkInv, Loops
  <1>6. PICK r, u, runs, mine : ForkedChild(q, c, rest, r, u, runs, mine) /\ ForkTypes'
    <2>1. /\ fk_fds' \in [K!Procs -> SUBSET Clients]
          /\ NoChild(q, rest) \/ ForkedAny(q, c, rest)
      <3>1. K!Fork(q, c, rest) /\ fk_pc[q] = "scan" /\ ForkTypes
        BY <1>1, <1>2 DEF ForkInv
      <3> QED
        BY <1>3, <3>1, ForkCases
    <2>2. fk_queue' \in [1 .. NPorts -> Seq(Clients)]
      <3>1. fk_queue[p] # <<>> => Tail(fk_queue[p]) \in Seq(Clients)
        BY <1>1, TailFacts DEF ForkInv, ForkTypes
      <3> QED
        BY <1>1, <3>1 DEF ForkInv, ForkTypes
    <2>3. /\ fk_pc \in [K!Procs -> {"none", "select", "scan", "wait", "server1", "zombie"}]
          /\ fk_ready \in [K!Procs -> SUBSET (1 .. NPorts)]
          /\ fk_nfd \in [K!Procs -> Clients \cup {Nobody}] /\ fk_child \in [K!Procs -> K!Procs]
      BY DEF ForkInv, ForkTypes, K!TypeOK
    <2>4. ASSUME fk_pc' \in [K!Procs -> {"none", "select", "scan", "wait", "server1", "zombie"}],
                 fk_ready' \in [K!Procs -> SUBSET (1 .. NPorts)],
                 fk_nfd' \in [K!Procs -> Clients \cup {Nobody}],
                 fk_child' \in [K!Procs -> K!Procs]
          PROVE  ForkTypes'
      BY <1>1, <2>1, <2>2, <2>4 DEF ForkInv, ForkTypes, K!TypeOK
    <2>5. CASE NoChild(q, rest)
      <3>1. /\ fk_pc' \in [K!Procs -> {"none", "select", "scan", "wait", "server1", "zombie"}]
            /\ fk_ready' \in [K!Procs -> SUBSET (1 .. NPorts)]
        BY <1>3, <1>4, <2>3, <2>5 DEF NoChild
      <3>2. ForkTypes'
        BY <2>3, <2>4, <2>5, <3>1 DEF NoChild
      <3>3. PICK r : r \notin K!Procs
        <4>1. -1 \notin K!Procs
          BY ProcFacts
        <4> QED
          BY <4>1
      <3>4. PICK runs : runs = IF fk_present THEN "zombie" ELSE "select"
        OBVIOUS
      <3>5. \A s \in K!Procs :
                /\ fk_pc'[s] = IF s = q THEN K!Loop(rest) ELSE IF s = r THEN runs ELSE fk_pc[s]
                /\ fk_ready'[s] = IF s = q THEN rest ELSE IF s = r THEN {} ELSE fk_ready[s]
                /\ fk_nfd'[s] = IF s = r THEN c ELSE fk_nfd[s]
        BY <2>3, <2>5, <3>3 DEF NoChild
      <3> QED
        <4>1. ForkedChild(q, c, rest, r, K!Loop(rest), runs, {})
          BY <1>4, <2>5, <3>3, <3>4, <3>5 DEF ForkedChild
        <4> QED
          BY <3>2, <4>1
    <2>6. CASE ForkedAny(q, c, rest)
      <3>1. PICK r \in K!Free, mine \in SUBSET rest : \E runs :
                    /\ r \in K!Procs /\ r # q
                    /\ ~fk_present => runs = K!Loop(mine)
                    /\ fk_present => runs \in {"zombie", "server1"}
                    /\ fk_pc' = [[fk_pc EXCEPT ![q] = IF fk_kind = "superserver" THEN "wait"
                                                      ELSE K!Loop(rest)]
                                 EXCEPT ![r] = runs]
                    /\ fk_ready' = [[fk_ready EXCEPT ![q] = rest] EXCEPT ![r] = mine]
                    /\ fk_nfd' = [fk_nfd EXCEPT ![r] = c]
                    /\ fk_child' = [fk_child EXCEPT ![q] = r]
        BY <2>6 DEF ForkedAny
      <3>2. PICK runs :
                    /\ r \in K!Procs /\ r # q
                    /\ ~fk_present => runs = K!Loop(mine)
                    /\ fk_present => runs \in {"zombie", "server1"}
                    /\ fk_pc' = [[fk_pc EXCEPT ![q] = IF fk_kind = "superserver" THEN "wait"
                                                      ELSE K!Loop(rest)]
                                 EXCEPT ![r] = runs]
                    /\ fk_ready' = [[fk_ready EXCEPT ![q] = rest] EXCEPT ![r] = mine]
                    /\ fk_nfd' = [fk_nfd EXCEPT ![r] = c]
                    /\ fk_child' = [fk_child EXCEPT ![q] = r]
        BY <3>1
      <3>3. PICK u : u = IF fk_kind = "superserver" THEN "wait" ELSE K!Loop(rest)
        OBVIOUS
      <3>4. /\ u \in {"select", "scan", "wait"} /\ (u = "wait" => fk_kind = "superserver")
            /\ (u = "scan" => rest # {}) /\ (fk_kind = "superserver" => u = "wait")
            /\ runs \in {"select", "scan", "zombie", "server1"} /\ mine \subseteq 1 .. NPorts
            /\ ~fk_present => runs \in {"select", "scan"} /\ (runs = "scan" => mine # {})
        BY <1>3, <1>4, <3>2, <3>3
      <3>5. /\ fk_pc' \in [K!Procs -> {"none", "select", "scan", "wait", "server1", "zombie"}]
            /\ fk_ready' \in [K!Procs -> SUBSET (1 .. NPorts)]
            /\ fk_nfd' \in [K!Procs -> Clients \cup {Nobody}]
            /\ fk_child' \in [K!Procs -> K!Procs]
        BY <1>3, <2>3, <3>2, <3>3, <3>4
      <3>6. ForkTypes'
        BY <2>4, <3>5
      <3>7. fk_pc[r] = "none" /\ fk_child'[q] = r
        BY <2>3, <3>2 DEF K!Free
      <3>8. \A s \in K!Procs :
                /\ fk_pc'[s] = IF s = q THEN u ELSE IF s = r THEN runs ELSE fk_pc[s]
                /\ fk_ready'[s] = IF s = q THEN rest ELSE IF s = r THEN mine ELSE fk_ready[s]
                /\ fk_nfd'[s] = IF s = r THEN c ELSE fk_nfd[s]
        BY <2>3, <3>2, <3>3
      <3> QED
        <4>1. ForkedChild(q, c, rest, r, u, runs, mine)
          BY <3>2, <3>4, <3>7, <3>8 DEF ForkedChild
        <4> QED
          BY <3>6, <4>1
    <2> QED
      BY <2>1, <2>5, <2>6
  <1>7. r # 0
    BY <1>6, ProcFacts DEF ForkInv, Loops, ForkedChild
  <1>8. fk_kind = "superserver" => \A s \in K!Procs : fk_pc[s] # "server1"
    <2>1. ASSUME fk_kind = "superserver", NEW s \in K!Procs, fk_pc[s] = "server1" PROVE FALSE
      <3>1. fk_present /\ fk_pc[0] = "wait"
        BY <2>1 DEF ForkInv, Loops, ForkTypes
      <3> QED
        BY <1>1, <1>5, <3>1
    <2> QED
      BY <2>1
  <1>9. Loops'
    <2>1. fk_pc'[0] \in {"select", "scan", "wait"}
      BY <1>6, <1>7, ProcFacts DEF ForkInv, Loops, ForkedChild
    <2>2. ASSUME NEW s \in K!Procs
          PROVE  /\ fk_pc'[s] = "wait" => fk_kind = "superserver"
                 /\ fk_pc'[s] = "scan" => fk_ready'[s] # {}
      <3>1. /\ fk_pc[s] = "wait" => fk_kind = "superserver"
            /\ fk_pc[s] = "scan" => fk_ready[s] # {}
        BY DEF ForkInv, Loops
      <3>2. fk_present \in BOOLEAN
        BY DEF ForkInv, ForkTypes
      <3> QED
        BY <1>6, <3>1, <3>2 DEF ForkedChild
    <2>3. fk_present => \A s \in K!Procs \ {0} : fk_pc'[s] \in {"none", "server1", "zombie"}
      BY <1>5, <1>6 DEF ForkInv, Loops, ForkedChild
    <2>4. ~fk_present => \A s \in K!Procs : fk_pc'[s] # "server1"
      BY <1>6 DEF ForkInv, Loops, ForkedChild
    <2>5. ASSUME fk_kind = "superserver", NEW s \in K!Procs, fk_pc'[s] = "server1"
          PROVE  fk_pc'[0] = "wait" /\ fk_child'[0] = s
      <3>1. s = r
        BY <1>6, <1>8, <2>5 DEF ForkedChild
      <3>2. fk_present
        BY <2>4, <2>5 DEF ForkInv, ForkTypes
      <3> QED
        BY <1>5, <1>6, <2>5, <3>1, <3>2 DEF ForkedChild
    <2> QED
      BY <1>1, <2>1, <2>2, <2>3, <2>4, <2>5 DEF Loops
  \* where the elements of the queues come from
  <1>10. PICK k \in {0, 1} :
             /\ \A o \in 1 .. NPorts : \A j \in 1..Len(fk_queue'[o]) :
                    /\ j + (IF o = p THEN k ELSE 0) \in 1..Len(fk_queue[o])
                    /\ fk_queue'[o][j] = fk_queue[o][j + (IF o = p THEN k ELSE 0)]
             /\ c # Nobody => k = 1 /\ 1 \in 1..Len(fk_queue[p]) /\ c = fk_queue[p][1]
             /\ \A o \in 1 .. NPorts : o # p => fk_queue'[o] = fk_queue[o]
    <2>0. \A o \in 1 .. NPorts : Len(fk_queue'[o]) \in Nat
      BY <1>6, LenFacts DEF ForkTypes
    <2>1. CASE fk_queue' = fk_queue /\ c = Nobody
      <3>1. \A o \in 1 .. NPorts : \A j \in 1..Len(fk_queue'[o]) : j + 0 = j
        BY <2>0
      <3> QED
        BY <2>1, <3>1
    <2>2. CASE /\ fk_queue[p] # <<>> /\ c \in {Nobody, Head(fk_queue[p])}
               /\ fk_queue' = [fk_queue EXCEPT ![p] = Tail(fk_queue[p])]
      <3>1. PICK b : b = fk_queue[p]
        OBVIOUS
      <3>2. b \in Seq(Clients) /\ b # <<>>
        BY <1>1, <2>2, <3>1 DEF ForkInv, ForkTypes
      <3>3. /\ 1 \in 1..Len(b) /\ Head(b) = b[1]
            /\ \A i \in 1..Len(Tail(b)) : i + 1 \in 1..Len(b) /\ Tail(b)[i] = b[i + 1]
        BY <3>2, TailFacts
      <3>4. fk_queue'[p] = Tail(b) /\ \A o \in 1 .. NPorts : o # p => fk_queue'[o] = fk_queue[o]
        BY <1>1, <2>2, <3>1 DEF ForkInv, ForkTypes
      <3>5. ASSUME NEW o \in 1 .. NPorts, NEW j \in 1..Len(fk_queue'[o])
            PROVE  /\ j + (IF o = p THEN 1 ELSE 0) \in 1..Len(fk_queue[o])
                   /\ fk_queue'[o][j] = fk_queue[o][j + (IF o = p THEN 1 ELSE 0)]
        <4>1. CASE o = p
          BY <3>1, <3>3, <3>4, <3>5, <4>1
        <4>2. CASE o # p
          <5>1. j \in 1..Len(fk_queue[o]) /\ fk_queue'[o][j] = fk_queue[o][j] /\ j + 0 = j
            BY <2>0, <3>4, <3>5, <4>2
          <5> QED
            BY <4>2, <5>1
        <4> QED
          BY <4>1, <4>2
      <3>6. c # Nobody => 1 \in 1..Len(fk_queue[p]) /\ c = fk_queue[p][1]
        BY <2>2, <3>1, <3>3
      <3> QED
        BY <3>4, <3>5, <3>6
    <2> QED
      BY <1>1, <2>1, <2>2
  <1>11. Queues'
    <2>0. /\ \A o \in 1 .. NPorts : \A j \in 1..Len(fk_queue[o]) : fk_client[fk_queue[o][j]] # "off"
          /\ \A o, v \in 1 .. NPorts : \A j \in 1..Len(fk_queue[o]), i \in 1..Len(fk_queue[v]) :
                 fk_queue[o][j] = fk_queue[v][i] => o = v /\ j = i
          /\ \A s \in K!Procs : fk_nfd[s] # Nobody =>
                 fk_client[fk_nfd[s]] # "off" /\ ~Queued(fk_nfd[s])
          /\ \A s, t \in K!Procs : s # t /\ fk_pc[s] = "server1" /\ fk_pc[t] = "server1" =>
                 fk_nfd[s] = Nobody \/ fk_nfd[s] # fk_nfd[t]
      BY DEF ForkInv, Queues
    <2>1. \A o \in 1 .. NPorts : \A j \in 1..Len(fk_queue'[o]) : fk_client'[fk_queue'[o][j]] # "off"
      BY <1>1, <1>10, <2>0
    <2>2. ASSUME NEW o \in 1 .. NPorts, NEW v \in 1 .. NPorts, NEW j \in 1..Len(fk_queue'[o]),
                 NEW i \in 1..Len(fk_queue'[v]), fk_queue'[o][j] = fk_queue'[v][i]
          PROVE  o = v /\ j = i
      <3>1. PICK a, d : a = j + (IF o = p THEN k ELSE 0) /\ d = i + (IF v = p THEN k ELSE 0)
        OBVIOUS
      <3>2. /\ a \in 1..Len(fk_queue[o]) /\ fk_queue'[o][j] = fk_queue[o][a]
            /\ d \in 1..Len(fk_queue[v]) /\ fk_queue'[v][i] = fk_queue[v][d]
        BY <1>10, <3>1
      <3>3. o = v /\ a = d
        <4>1. fk_queue[o][a] = fk_queue[v][d]
          BY <2>2, <3>2
        <4>2. \A w, x \in 1 .. NPorts : \A y \in 1..Len(fk_queue[w]), z \in 1..Len(fk_queue[x]) :
                  fk_queue[w][y] = fk_queue[x][z] => w = x /\ y = z
          BY <2>0
        <4>3. \A y \in 1..Len(fk_queue[o]), z \in 1..Len(fk_queue[v]) :
                  fk_queue[o][y] = fk_queue[v][z] => o = v /\ y = z
          BY <4>2
        <4> QED
          BY <3>2, <4>1, <4>3
      <3>4. j \in Nat /\ i \in Nat
        BY <1>6, LenFacts DEF ForkTypes
      <3> QED
        BY <3>1, <3>3, <3>4
    <2>3. c # Nobody =>
              /\ fk_client[c] # "off" /\ Queued(c)
              /\ \A o \in 1 .. NPorts : \A j \in 1..Len(fk_queue'[o]) : fk_queue'[o][j] # c
      <3>1. ASSUME c # Nobody, NEW o \in 1 .. NPorts, NEW j \in 1..Len(fk_queue'[o]),
                   fk_queue'[o][j] = c
            PROVE  FALSE
        <4>1. PICK a : a = j + (IF o = p THEN k ELSE 0)
          OBVIOUS
        <4>2. a \in 1..Len(fk_queue[o]) /\ fk_queue[o][a] = c
          BY <1>10, <3>1, <4>1
        <4>3. k = 1 /\ 1 \in 1..Len(fk_queue[p]) /\ c = fk_queue[p][1] /\ p \in 1 .. NPorts
          BY <1>1, <1>10, <3>1
        <4>5. o = p /\ a = 1
          BY <2>0, <4>2, <4>3
        <4>4. j \in Nat /\ j >= 1
          BY <1>6, LenFacts DEF ForkTypes
        <4> QED
          BY <4>1, <4>3, <4>4, <4>5
      <3>2. c # Nobody => fk_client[c] # "off" /\ Queued(c)
        BY <1>1, <1>10, <2>0 DEF Queued
      <3> QED
        BY <3>1, <3>2
    <2>4. ASSUME NEW s \in K!Procs, fk_nfd'[s] # Nobody
          PROVE  /\ fk_client'[fk_nfd'[s]] # "off"
                 /\ \A o \in 1 .. NPorts : \A j \in 1..Len(fk_queue'[o]) :
                        fk_queue'[o][j] # fk_nfd'[s]
      <3>1. CASE s = r
        BY <1>1, <1>6, <2>3, <2>4, <3>1 DEF ForkedChild
      <3>2. CASE s # r
        <4>1. fk_nfd'[s] = fk_nfd[s]
          BY <1>6, <3>2 DEF ForkedChild
        <4>2. fk_client[fk_nfd[s]] # "off" /\ ~Queued(fk_nfd[s])
          BY <2>0, <2>4, <4>1
        <4>3. \A o \in 1 .. NPorts : \A j \in 1..Len(fk_queue[o]) : fk_queue[o][j] # fk_nfd[s]
          BY <4>2 DEF Queued
        <4>4. ASSUME NEW o \in 1 .. NPorts, NEW j \in 1..Len(fk_queue'[o])
              PROVE  fk_queue'[o][j] # fk_nfd[s]
          <5>1. PICK a : a = j + (IF o = p THEN k ELSE 0)
            OBVIOUS
          <5>2. a \in 1..Len(fk_queue[o]) /\ fk_queue'[o][j] = fk_queue[o][a]
            BY <1>10, <5>1
          <5> QED
            BY <4>3, <5>2
        <4> QED
          BY <1>1, <4>1, <4>2, <4>4
      <3> QED
        BY <3>1, <3>2
    <2>5. ASSUME NEW s \in K!Procs, NEW t \in K!Procs, s # t,
                 fk_pc'[s] = "server1", fk_pc'[t] = "server1"
          PROVE  fk_nfd'[s] = Nobody \/ fk_nfd'[s] # fk_nfd'[t]
      <3>1. s # q /\ t # q
        BY <1>6, <2>5 DEF ForkedChild
      <3>2. CASE s # r /\ t # r
        BY <1>6, <2>0, <2>5, <3>1, <3>2 DEF ForkedChild
      <3>3. \A w \in K!Procs : fk_nfd[w] # Nobody => fk_nfd[w] # c
        BY <2>0, <2>3
      <3>4. CASE s = r
        BY <1>6, <2>5, <3>3, <3>4 DEF ForkedChild
      <3>5. CASE t = r
        BY <1>6, <2>5, <3>3, <3>5 DEF ForkedChild
      <3> QED
        BY <3>2, <3>4, <3>5
    <2> QED
      BY <2>1, <2>2, <2>4, <2>5 DEF Queues, Queued
  <1>12. ReadyPorts'
    <2>1. SUFFICES ASSUME Alone, fk_pc'[0] = "scan", NEW o \in fk_ready'[0]
                   PROVE  fk_queue'[o] # <<>>
      BY <1>1 DEF ReadyPorts, Alone, K!Closes
    <2>2. CASE q = 0
      <3>1. o \in fk_ready[0] /\ o # p /\ o \in 1 .. NPorts
        BY <1>2, <1>3, <1>6, <2>1, <2>2, ProcFacts DEF ForkedChild
      <3> QED
        BY <1>1, <1>10, <2>1, <2>2, <3>1 DEF ForkInv, ReadyPorts
    <2>3. CASE q # 0
      <3>1. K!Closes
        BY <1>5, <2>1, <2>3 DEF Alone
      <3>2. fk_queue' = fk_queue
        BY <1>1, <2>3, <3>1 DEF K!Listens
      <3>3. fk_pc[0] = "scan" /\ fk_ready'[0] = fk_ready[0]
        BY <1>6, <1>7, <2>1, <2>3, ProcFacts DEF ForkedChild
      <3> QED
        BY <2>1, <3>2, <3>3 DEF ForkInv, ReadyPorts
    <2> QED
      BY <2>2, <2>3
  <1> QED
    BY <1>6, <1>9, <1>11, <1>12 DEF ForkInv

LEMMA ForkStep ==
    ASSUME ForkInv, K!Next
    PROVE  ForkInv'
  BY ForkClients, ForkSelect, ForkExit, ForkReap, ForkConnect, AcceptFork, ProcFacts
     DEF K!Next, K!ServerStep, K!ClientStep

-----------------------------------------------------------------------------
(***************************************************************************)
(* The invariant holds                                                     *)
(***************************************************************************)
Spec == Init /\ [][Next]_vars

LEMMA WorkersInit ==
    ASSUME NEW C, NEW S \in SUBSET Services,
           service \in [S -> {"off", "starting", "up", "dead"}],
           backlog = [s \in S |-> <<>>], conn = [s \in S |-> <<>>], nfd = [s \in S |-> 0],
           thread = [s \in S |-> <<>>], client = [c \in C |-> "off"],
           port = [c \in C |-> Nobody], answered = {}
    PROVE  WorkerInv(C, S) /\ Connected(C, S)
  <1>1. WorkerTypes(C, S)
    BY DEF WorkerTypes
  <1>2. ASSUME NEW s \in S PROVE ThreadsOf(s)
    <2>1. backlog[s] = <<>> /\ conn[s] = <<>> /\ thread[s] = <<>> /\ nfd[s] = 0 /\ Limit[s] \in Nat
      BY LimitFacts
    <2> QED
      BY <2>1 DEF ThreadsOf
  <1>3. Connected(C, S)
    BY DEF Connected, InBacklog, InConn
  <1> QED
    BY <1>1, <1>2, <1>3 DEF WorkerInv

LEMMA InitInv == Init => MultiplexInv
  <1> SUFFICES ASSUME Init PROVE MultiplexInv
    OBVIOUS
  <1>1. Registered \in SUBSET Services /\ Started \in SUBSET Services
        /\ (Threaded \cup Prethreaded) \in SUBSET Services
    BY DEF Services
  <1>2. ASSUME program = "mss" PROVE MssInv
    <2>1. M!Init
      BY <1>2 DEF Init
    <2>2. WorkerInv(MssClients, Registered)
      BY <1>1, <2>1, WorkersInit DEF M!Init, M!WInit
    <2>3. /\ services \in Seq(Registered) /\ squeue \in Seq(Registered) /\ cqueue \in Seq(MssClients)
          /\ Len(services) = 0 /\ Len(squeue) = 0
      BY <2>1 DEF M!Init
    <2>4. 0 + 0 <= max_services /\ 0 \in 0 .. Rounds
      BY ProgramsAssumption
    <2> QED
      BY <2>1, <2>2, <2>3, <2>4 DEF MssInv, M!Init, M!StillRight
  <1>3. ASSUME program = "tss" PROVE TssInv
    <2>1. T!Init
      BY <1>3 DEF Init
    <2>2. WorkerInv(Clients, Started) /\ Connected(Clients, Started)
      BY <1>1, <2>1, WorkersInit DEF T!Init, T!WInit
    <2>3. 1 \in 1 .. MainServers /\ procs = 0 .. 1 - 1 /\ 0 \in T!Procs
      <3>1. MainServers \in Nat /\ MainServers >= 1 /\ 0 .. 1 - 1 = {0}
        BY ProgramsAssumption
      <3> QED
        BY <2>1, <3>1 DEF T!Init, T!Procs
    <2>4. ASSUME NEW s \in Started PROVE starts[s] <= Cardinality(Knowing(s))
      <3>1. Knowing(s) = {}
        BY <2>1, <2>3 DEF T!Init, Knowing
      <3> QED
        BY <2>1, <2>4, <3>1, FS_EmptySet DEF T!Init
    <2>5. queue \in Seq(Clients) /\ Len(queue) = 0
      BY <2>1 DEF T!Init
    <2>6. \A c \in Clients : client[c] # "told"
      BY <2>1 DEF T!Init, T!WInit
    <2> QED
      BY <2>1, <2>2, <2>3, <2>4, <2>5, <2>6 DEF TssInv, T!Init
  <1>4. ASSUME program = "direct" PROVE WorkerInv(Clients, Threaded \cup Prethreaded)
    <2>1. D!Init
      BY <1>4 DEF Init
    <2> QED
      BY <1>1, <2>1, WorkersInit DEF D!Init, D!WInit
  <1>5. PassInv
    <2>1. P!Init /\ max_clients \in Nat
      BY ProgramsAssumption DEF Init
    <2> QED
      BY <2>1 DEF P!Init, PassInv, P!NeverBackwards
  <1>6. ForkInv
    <2>1. K!Init
      BY DEF Init
    <2>2. \A q \in K!Procs : /\ fk_pc[q] = IF q = 0 THEN "select" ELSE "none"
                             /\ fk_nfd[q] = Nobody
      BY <2>1 DEF K!Init
    <2>3. \A p \in 1 .. NPorts : Len(fk_queue[p]) = 0
      BY <2>1 DEF K!Init
    <2>4. ForkTypes
      <3>1. fk_present \in BOOLEAN /\ fk_badlen \in BOOLEAN /\ fk_signalled \in BOOLEAN
        BY <2>1 DEF K!Init
      <3> QED
        BY <2>1, <3>1, ProcFacts DEF ForkTypes, K!TypeOK, K!Init
    <2>5. Loops
      BY <2>2, ProcFacts DEF Loops
    <2>6. Queues
      BY <2>2, <2>3 DEF Queues
    <2>7. ReadyPorts
      BY <2>2, ProcFacts DEF ReadyPorts
    <2> QED
      BY <2>4, <2>5, <2>6, <2>7 DEF ForkInv
  <1>7. /\ program # "mss" => left = 0
        /\ program # "tss" => wish = [c \in Clients |-> Nobody]
    BY DEF Init, IdleMss, IdleTss
  <1> QED
    BY <1>2, <1>3, <1>4, <1>5, <1>6, <1>7 DEF MultiplexInv

LEMMA NextInv == MultiplexInv /\ [Next]_vars => MultiplexInv'
  <1> SUFFICES ASSUME MultiplexInv, [Next]_vars PROVE MultiplexInv'
    OBVIOUS
  <1>1. program' = program
    BY DEF Next, InMss, InTss, InDirect, InPass, InFork, vars
  <1>2. ASSUME UNCHANGED pass PROVE PassInv'
    BY <1>2 DEF MultiplexInv, PassInv, pass, P!NeverBackwards
  <1>3. ASSUME UNCHANGED fork PROVE ForkInv'
    <2>1. Queues'
      BY <1>3 DEF MultiplexInv, ForkInv, fork, Queues, Queued
    <2> QED
      BY <1>3, <2>1 DEF MultiplexInv, ForkInv, fork, ForkTypes, K!TypeOK, Loops, ReadyPorts, Alone,
                  K!Closes
  <1>4. ASSUME UNCHANGED workers
        PROVE  \A C, S : WorkerInv(C, S) => WorkerInv(C, S)'
    BY <1>4 DEF workers, WorkerInv, WorkerTypes, ThreadsOf
  <1>5. CASE InMss /\ M!Next
    BY <1>1, <1>2, <1>3, <1>5, MssStep DEF MultiplexInv, InMss, tss
  <1>6. CASE InTss /\ T!Next
    BY <1>1, <1>2, <1>3, <1>6, TssStep DEF MultiplexInv, InTss, mss
  <1>7. CASE InDirect /\ D!Next
    BY <1>1, <1>2, <1>3, <1>7, DirectStep DEF MultiplexInv, InDirect, mss, tss
  <1>8. CASE InPass /\ P!Next
    BY <1>1, <1>3, <1>8, PassStep DEF MultiplexInv, InPass, mss, tss
  <1>9. CASE InFork /\ K!Next
    BY <1>1, <1>2, <1>9, ForkStep DEF MultiplexInv, InFork, mss, tss
  <1>10. CASE UNCHANGED vars
    <2>1. UNCHANGED workers /\ UNCHANGED mss /\ UNCHANGED tss /\ UNCHANGED pass /\ UNCHANGED fork
      BY <1>10 DEF vars
    <2>2. ASSUME program = "mss" PROVE MssInv'
      <3>1. WorkerInv(MssClients, Registered)'
        BY <1>4, <2>1, <2>2 DEF MultiplexInv, MssInv
      <3>2. M!StillRight'
        BY <2>1, <2>2 DEF MultiplexInv, MssInv, M!StillRight, mss, workers
      <3> QED
        BY <2>1, <2>2, <3>1, <3>2 DEF MultiplexInv, MssInv, mss, workers
    <2>3. ASSUME program = "tss" PROVE TssInv'
      <3>1. WorkerInv(Clients, Started)'
        BY <1>4, <2>1, <2>3 DEF MultiplexInv, TssInv
      <3>2. Connected(Clients, Started)'
        <4>1. Connected(Clients, Started)
          BY <2>3 DEF MultiplexInv, TssInv
        <4> QED
          BY <2>1, <4>1 DEF workers, Connected, InBacklog, InConn, HasThread, InTime
      <3>3. \A s \in Started : starts'[s] <= Cardinality(Knowing(s))'
        BY <2>1, <2>3 DEF MultiplexInv, TssInv, tss, Knowing
      <3> QED
        BY <2>1, <2>3, <3>1, <3>2, <3>3 DEF MultiplexInv, TssInv, tss, workers
    <2>4. program = "direct" => WorkerInv(Clients, Threaded \cup Prethreaded)'
      BY <1>4, <2>1 DEF MultiplexInv
    <2> QED
      BY <1>1, <1>2, <1>3, <2>1, <2>2, <2>3, <2>4 DEF MultiplexInv, mss, tss
  <1> QED
    BY <1>5, <1>6, <1>7, <1>8, <1>9, <1>10 DEF Next

LEMMA Invariance == Spec => []MultiplexInv
  BY InitInv, NextInv, PTL DEF Spec

-----------------------------------------------------------------------------
(***************************************************************************)
(* Who is served                                                           *)
(***************************************************************************)
LEMMA RightConnectionHolds == MultiplexInv => RightConnection
  <1> SUFFICES ASSUME MultiplexInv PROVE RightConnection
    OBVIOUS
  <1>1. ASSUME program = "mss" PROVE M!NeverBackwards
    <2>1. ASSUME NEW s \in Registered, NEW i \in DOMAIN thread[s], thread[s][i] # 0
          PROVE  thread[s][i] >= i
      <3>1. i \in 1..Len(thread[s]) /\ Len(thread[s]) \in Nat
        BY <1>1, <2>1, LenFacts DEF MultiplexInv, MssInv, WorkerInv, WorkerTypes
      <3>2. s \notin Prethreaded
        BY ProgramsAssumption
      <3> QED
        BY <1>1, <2>1, <3>1, <3>2 DEF MultiplexInv, MssInv, WorkerInv, ThreadsOf
    <2> QED
      BY <2>1 DEF M!NeverBackwards
  <1>2. ASSUME program = "tss" PROVE T!LimitKept
    <2>1. SUFFICES ASSUME NEW s \in Started, T!Up(s), ~T!Overtaken(s), NEW c \in answered,
                          port[c] = s, client[c] = "talking", T!Held(c, s)
                   PROVE  \E i \in DOMAIN thread[s] : conn[s][i] = c
      BY DEF T!LimitKept
    <2>2. /\ thread[s] \in Seq(Nat) /\ DOMAIN thread[s] = 1..Len(thread[s])
          /\ DOMAIN backlog[s] = 1..Len(backlog[s]) /\ DOMAIN conn[s] = 1..Len(conn[s])
          /\ c \in Clients
      BY <1>2, LenFacts DEF MultiplexInv, TssInv, WorkerInv, WorkerTypes
    <2>3. InTime(s)
      <3>1. ASSUME NEW i \in 1..Len(thread[s]) PROVE thread[s][i] <= i
        <4>1. thread[s][i] \in Nat /\ i \in Nat
          BY <2>2, LenFacts
        <4>2. ~(thread[s][i] > i)
          BY <2>1, <2>2 DEF T!Overtaken
        <4> QED
          BY <4>1, <4>2
      <3> QED
        BY <3>1 DEF InTime
    <2>4. InBacklog(c, s) \/ InConn(c, s)
      BY <2>1, <2>2 DEF T!Held, T!Range, InBacklog, InConn
    <2>5. HasThread(c, s)
      BY <1>2, <2>2, <2>3, <2>4 DEF MultiplexInv, TssInv, Connected
    <2> QED
      BY <2>2, <2>5 DEF HasThread
  <1>3. ASSUME program = "direct" PROVE D!WTypeOK /\ D!OwnConnection
    <2>1. WorkerInv(Clients, Threaded \cup Prethreaded)
      BY <1>3 DEF MultiplexInv
    <2>2. D!WTypeOK
      BY <2>1 DEF WorkerInv, WorkerTypes, ThreadsOf, D!WTypeOK, D!Up
    <2>3. ASSUME NEW s \in Prethreaded
          PROVE  Len(conn[s]) = Len(thread[s]) /\ \A i \in DOMAIN thread[s] : thread[s][i] = i
      <3>1. DOMAIN thread[s] = 1..Len(thread[s])
        BY <2>1, LenFacts DEF WorkerInv, WorkerTypes
      <3> QED
        BY <2>1, <3>1 DEF WorkerInv, ThreadsOf
    <2> QED
      BY <2>2, <2>3 DEF D!OwnConnection
  <1>4. P!TypeOK /\ P!NeverBackwards
    BY DEF MultiplexInv, PassInv, P!TypeOK
  <1>5. K!TypeOK
    BY DEF MultiplexInv, ForkInv, ForkTypes
  <1>6. K!OneServer
    BY DEF MultiplexInv, ForkInv, Loops, Queues, K!OneServer
  <1>7. K!NoBlockedAccept
    <2>1. SUFFICES ASSUME NEW q \in K!Procs, K!Blocked(q), Alone PROVE FALSE
      BY DEF K!NoBlockedAccept, Alone
    <2>2. fk_pc[q] = "scan" /\ K!Listens(q) /\ fk_queue[K!Min(fk_ready[q])] = <<>>
      BY <2>1 DEF K!Blocked
    <2>3. q = 0
      BY <2>1, <2>2 DEF MultiplexInv, ForkInv, Loops, Alone, K!Listens
    <2>4. fk_ready[q] # {} /\ fk_ready[q] \subseteq Nat
      BY <2>2, <1>5 DEF MultiplexInv, ForkInv, Loops, K!TypeOK
    <2>5. K!Min(fk_ready[q]) \in fk_ready[q]
      BY <2>4, MinFacts
    <2> QED
      BY <2>1, <2>2, <2>3, <2>5 DEF MultiplexInv, ForkInv, ReadyPorts
  <1> QED
    BY <1>1, <1>2, <1>3, <1>4, <1>5, <1>6, <1>7 DEF RightConnection

\* A thread of mss, tss, multithreaded or unixsockets/tss that reads the address of main's
\* variable late serves a later connection than its own, never an earlier one, also when
\* more threads are made than there is room for; while none of its threads is late, a
\* service of tss answers no client beyond its limit; a thread of prethreaded serves what
\* it accepted, and there are no more than were made; and among the servers that fork, no connection has two servers and the
\* accept after select blocks only after a signal or a failed execution.
THEOREM RightConnections == Spec => []RightConnection
  BY Invariance, RightConnectionHolds, PTL

LEMMA RightServiceHolds == MultiplexInv => RightService
  <1> SUFFICES ASSUME MultiplexInv PROVE RightService
    OBVIOUS
  <1>1. ASSUME program = "mss" PROVE M!TypeOK /\ M!StillRight
    <2>1. MssInv
      BY <1>1 DEF MultiplexInv
    <2>2. M!WTypeOK
      BY <2>1 DEF MssInv, WorkerInv, WorkerTypes, ThreadsOf, M!WTypeOK, M!Up
    <2>3. Len(services) <= max_services
      <3>1. Len(services) \in Nat /\ Len(squeue) \in Nat /\ max_services \in Nat
        BY <2>1, LenFacts, ProgramsAssumption DEF MssInv
      <3> QED
        BY <2>1, <3>1 DEF MssInv
    <2> QED
      BY <2>1, <2>2, <2>3 DEF MssInv, M!TypeOK
  <1>2. ASSUME program = "tss" PROVE T!TypeOK /\ T!StartsBounded
    <2>1. TssInv
      BY <1>2 DEF MultiplexInv
    <2>2. T!WTypeOK
      BY <2>1 DEF TssInv, WorkerInv, WorkerTypes, ThreadsOf, T!WTypeOK, T!Up
    <2>3. PICK k \in 1 .. MainServers :
               /\ IsFiniteSet(procs) /\ Cardinality(procs) = k /\ T!Cardinality(procs) = k
               /\ procs \subseteq T!Procs /\ 0 \in procs
      BY <2>1, ProcsFacts
    <2>4. ASSUME NEW s \in Started PROVE starts[s] <= T!Cardinality(procs)
      <3>1. Knowing(s) \subseteq procs
        BY DEF Knowing
      <3>2. Cardinality(Knowing(s)) <= Cardinality(procs) /\ IsFiniteSet(Knowing(s))
        BY <2>3, <3>1, FS_Subset
      <3>3. Cardinality(Knowing(s)) \in Nat /\ starts[s] \in Nat
        BY <2>1, <3>2, FS_CardinalityType DEF TssInv
      <3>4. starts[s] <= Cardinality(Knowing(s))
        BY <2>1 DEF TssInv
      <3> QED
        BY <2>3, <3>2, <3>3, <3>4
    <2> QED
      BY <2>1, <2>2, <2>3, <2>4 DEF TssInv, T!TypeOK, T!StartsBounded
  <1> QED
    BY <1>1, <1>2 DEF RightService

\* The port that mss sent a client stays the port of the service with the index it asked
\* for, whatever dies and registers again; and the main servers of tss, with those that
\* failed executions leave behind, execute a program at most once each.
THEOREM RightServices == Spec => []RightService
  BY Invariance, RightServiceHolds, PTL

-----------------------------------------------------------------------------
(***************************************************************************)
(* What is lost for ever                                                   *)
(***************************************************************************)
LEMMA StarvedStep ==
    ASSUME MultiplexInv, [Next]_vars, M!Starving
    PROVE  M!Starving' /\ services' = services
  <1>1. left > 0 /\ readset = {"csfd"} /\ cqueue = <<>> /\ \A c \in MssClients : client[c] # "off"
    BY DEF M!Starving
  <1>2. program = "mss" /\ MssInv
    BY <1>1 DEF MultiplexInv
  <1>3. CASE UNCHANGED vars
    BY <1>1, <1>3 DEF vars, mss, workers, M!Starving
  <1>4. CASE M!Next
    <2>1. CASE M!Programs /\ UNCHANGED M!mssvars
      <3>1. WorkerStep(MssClients, Registered)
        BY <1>2, <2>1, MssWorkers DEF MssInv, WorkerInv
      <3>2. \A c \in MssClients : client[c] # "off" <=> client'[c] # "off"
        BY <1>2, <3>1, WorkerFrame DEF MssInv, WorkerInv
      <3> QED
        BY <1>1, <2>1, <3>2 DEF M!mssvars, M!Starving
    <2>2. ASSUME NEW s \in Registered, M!Register(s) PROVE M!Starving' /\ services' = services
      BY <1>1, <2>2 DEF M!Register, M!Starving
    <2>3. ASSUME NEW c \in MssClients, M!Ask(c) PROVE FALSE
      BY <1>1, <2>3 DEF M!Ask
    <2>4. ASSUME M!Server PROVE FALSE
      <3>1. left # 0 /\ readset # {}
        BY <1>1
      <3>2. ~M!Select /\ ~M!Continue
        BY <3>1 DEF M!Select, M!Continue
      <3>3. ~M!AcceptService /\ ~M!AcceptClient
        BY <1>1 DEF M!AcceptService, M!AcceptClient
      <3> QED
        BY <2>4, <3>2, <3>3 DEF M!Server
    <2> QED
      BY <1>4, <2>1, <2>2, <2>3, <2>4 DEF M!Next
  <1> QED
    BY <1>2, <1>3, <1>4 DEF Next, InTss, InDirect, InPass, InFork

LEMMA LostStep ==
    ASSUME MultiplexInv, [Next]_vars, NEW c \in Clients, T!Lost(c)
    PROVE  T!Lost(c)' \/ client'[c] = "gone"
  <1>1. PICK s : s = wish[c]
    OBVIOUS
  <1>2. /\ s # Nobody /\ client[c] \in {"asked", "told"} /\ service[s] = "dead"
        /\ \A p \in procs : s \in started[p]
    BY <1>1 DEF T!Lost
  <1>3. program = "tss" /\ TssInv /\ s \in Started
    <2>1. program = "tss"
      BY <1>1, <1>2 DEF MultiplexInv
    <2> QED
      BY <1>1, <1>2, <2>1 DEF MultiplexInv, TssInv
  <1>4. SUFFICES ASSUME client'[c] # "gone"
                 PROVE  /\ wish'[c] = s /\ client'[c] \in {"asked", "told"}
                        /\ service'[s] = "dead" /\ \A p \in procs' : s \in started'[p]
    BY <1>2 DEF T!Lost
  <1>5. CASE UNCHANGED vars
    BY <1>1, <1>2, <1>5 DEF vars, tss, workers
  <1>6. CASE T!Next
    <2>0. /\ client \in [Clients -> {"off", "asked", "told", "talking", "gone"}]
          /\ service \in [Started -> {"off", "starting", "up", "dead"}]
      BY <1>3 DEF TssInv, WorkerInv, WorkerTypes
    <2>1. CASE T!Programs /\ UNCHANGED T!tssvars
      <3>1. wish'[c] = s /\ \A p \in procs' : s \in started'[p]
        BY <1>1, <1>2, <2>1 DEF T!tssvars
      <3>2. WorkerStep(Clients, Started)
        BY <1>3, <2>1, TssWorkers DEF TssInv, WorkerInv
      <3>3. ASSUME NEW d \in Clients, W!ClientStep(d) \/ W!Leave(d)
            PROVE  client'[c] \in {"asked", "told"} /\ service' = service
        <4>1. CASE d = c
          <5>1. client[c] = "told" => port[c] = s
            BY <1>1, <1>3 DEF TssInv
          <5>2. ~W!Up(s)
            BY <1>2 DEF W!Up
          <5> QED
            BY <1>2, <1>4, <2>0, <3>3, <4>1, <5>1, <5>2 DEF W!ClientStep, W!Connect, W!Hangup, W!Leave
        <4>2. CASE d # c
          BY <1>2, <2>0, <3>3, <4>2 DEF W!ClientStep, W!Connect, W!Hangup, W!Leave
        <4> QED
          BY <4>1, <4>2
      <3>4. ASSUME NEW t \in Started, W!Listen(t) \/ W!MainLoop(t) \/ W!Thread(t)
            PROVE  client' = client /\ service'[s] = "dead"
        BY <1>2, <1>3, <2>0, <3>4
           DEF W!Listen, W!MainLoop, W!Accept, W!Spawn, W!Refuse, W!Overrun, W!PreAccept,
               W!Thread, W!FuncStarts, W!Echo, W!Broken, W!Dies, W!Reset
      <3> QED
        BY <1>2, <3>1, <3>2, <3>3, <3>4 DEF WorkerStep
    <2>2. ASSUME NEW d \in Clients, T!Ask(d)
          PROVE  /\ wish'[c] = s /\ client'[c] \in {"asked", "told"}
                 /\ service'[s] = "dead" /\ \A p \in procs' : s \in started'[p]
      <3>1. d # c
        BY <1>2, <2>2 DEF T!Ask
      <3> QED
        BY <1>1, <1>2, <1>3, <2>0, <2>2, <3>1 DEF T!Ask, TssInv
    <2>3. ASSUME NEW p \in T!Procs, T!Take(p)
          PROVE  /\ wish'[c] = s /\ client'[c] \in {"asked", "told"}
                 /\ service'[s] = "dead" /\ \A r \in procs' : s \in started'[r]
      BY <1>1, <1>2, <2>3 DEF T!Take, T!wvars
    <2>4. ASSUME NEW d, T!Tell(d) PROVE client'[c] \in {"asked", "told"}
      BY <1>2, <2>0, <2>4 DEF T!Tell
    <2>5. ASSUME NEW p \in T!Procs, T!Known(p)
          PROVE  /\ wish'[c] = s /\ client'[c] \in {"asked", "told"}
                 /\ service'[s] = "dead" /\ \A r \in procs' : s \in started'[r]
      BY <1>1, <1>2, <2>4, <2>5 DEF T!Known
    <2>6. ASSUME NEW p \in T!Procs, T!Start(p)
          PROVE  /\ wish'[c] = s /\ client'[c] \in {"asked", "told"}
                 /\ service'[s] = "dead" /\ \A r \in procs' : s \in started'[r]
      <3>1. PICK t : t = wish[asking[p]]
        OBVIOUS
      <3>2. /\ p \in procs /\ t \notin started[p] /\ T!Tell(asking[p])
            /\ service' = [service EXCEPT ![t] = IF service[t] \in {"off", "dead"} THEN "starting"
                                                 ELSE service[t]]
            /\ started' = [started EXCEPT ![p] = started[p] \cup {t}]
            /\ UNCHANGED <<procs, wish>>
        BY <2>6, <3>1 DEF T!Start, T!ForkExec, T!Mark
      <3>3. t # s
        BY <1>2, <3>2
      <3>4. service'[s] = "dead"
        BY <1>2, <1>3, <2>0, <3>2, <3>3
      <3>5. \A r \in procs' : s \in started'[r]
        <4>1. procs \subseteq T!Procs /\ started \in [T!Procs -> SUBSET Started]
          BY <1>3, ProcsFacts DEF TssInv
        <4> QED
          BY <1>2, <3>2, <4>1
      <3> QED
        BY <1>1, <2>4, <3>2, <3>4, <3>5
    <2>7. ASSUME NEW p \in T!Procs, T!Twin(p)
          PROVE  /\ wish'[c] = s /\ client'[c] \in {"asked", "told"}
                 /\ service'[s] = "dead" /\ \A r \in procs' : s \in started'[r]
      <3>1. PICK t, q : t = wish[asking[p]] /\ q = T!Cardinality(procs)
        OBVIOUS
      <3>2. /\ p \in procs /\ T!Tell(asking[p]) /\ q \in T!Procs /\ procs' = procs \cup {q}
            /\ started' = [[started EXCEPT ![p] = started[p] \cup {t}] EXCEPT ![q] = started[p]]
            /\ UNCHANGED <<service, wish>>
        BY <2>7, <3>1 DEF T!Twin, T!Mark
      <3>3. procs \subseteq T!Procs /\ started \in [T!Procs -> SUBSET Started]
        BY <1>3, ProcsFacts DEF TssInv
      <3>4. \A r \in procs' : s \in started'[r]
        BY <1>2, <3>2, <3>3
      <3> QED
        BY <1>1, <1>2, <2>4, <3>2, <3>4
    <2> QED
      BY <1>6, <2>1, <2>2, <2>3, <2>5, <2>6, <2>7 DEF T!Next, T!MainServer
  <1> QED
    BY <1>3, <1>5, <1>6 DEF Next, InMss, InDirect, InPass, InFork

LEMMA DeafStep ==
    ASSUME MultiplexInv, [Next]_vars, fk_present, ~K!Closes, K!Full(0)
    PROVE  K!Full(0)' /\ \A p \in K!Ports : K!QueueKept(p)
  <1>0. ForkInv /\ 0 \in K!Procs /\ K!Ports \subseteq 1 .. NPorts
        /\ fk_queue \in [1 .. NPorts -> Seq(Clients)] /\ fk_fds \in [K!Procs -> SUBSET Clients]
    BY ProcFacts DEF MultiplexInv, ForkInv, ForkTypes, K!TypeOK
  <1>1. ASSUME fk_fds'[0] = fk_fds[0] PROVE K!Full(0)'
    BY <1>1 DEF K!Full
  <1>2. ASSUME NEW p \in K!Ports, fk_queue'[p] = fk_queue[p] PROVE K!QueueKept(p)
    BY <1>0, <1>2, LenFacts DEF K!QueueKept
  <1>3. ASSUME fk_queue' = fk_queue
        PROVE  \A p \in K!Ports : K!QueueKept(p)
    BY <1>0, <1>2, <1>3
  <1>4. CASE UNCHANGED fork
    BY <1>1, <1>3, <1>4 DEF fork
  <1>5. CASE K!Next
    <2>1. CASE K!handler_func
      BY <1>1, <1>3, <2>1 DEF K!handler_func
    <2>2. ASSUME NEW q \in K!Procs, K!Select(q)
          PROVE  fk_fds' = fk_fds /\ fk_queue' = fk_queue
      BY <2>2 DEF K!Select
    <2>3. ASSUME NEW q \in K!Procs, K!Accept(q)
          PROVE  fk_fds'[0] = fk_fds[0] /\ fk_queue' = fk_queue
      <3>1. PICK p \in fk_ready[q], c \in Clients \cup {Nobody} :
               /\ fk_pc[q] = "scan" /\ p \in 1 .. NPorts
               /\ K!Fork(q, c, fk_ready[q] \ {p})
               /\ \/ (~K!Listens(q) \/ K!Full(q)) /\ c = Nobody /\ fk_queue' = fk_queue
                  \/ /\ K!Listens(q) /\ ~K!Full(q) /\ fk_queue[p] # <<>>
                     /\ c \in {Nobody, Head(fk_queue[p])}
                     /\ fk_queue' = [fk_queue EXCEPT ![p] = Tail(fk_queue[p])]
               /\ UNCHANGED <<fk_kind, fk_present, fk_badlen, fk_client, fk_signalled>>
        BY <1>0, <2>3, AcceptCases DEF ForkInv
      <3>2. q = 0
        BY <1>0, <3>1 DEF ForkInv, Loops
      <3>3. c = Nobody /\ fk_queue' = fk_queue
        BY <3>1, <3>2
      <3>4. fk_kind # "superserver"
        BY DEF K!Closes
      <3>5. PICK rest : rest = fk_ready[q] \ {p}
        OBVIOUS
      <3>6. rest \in SUBSET (1 .. NPorts) /\ K!Fork(q, c, rest)
        BY <1>0, <3>1, <3>5 DEF ForkInv, ForkTypes, K!TypeOK
      <3>7. fk_fds'[q] = fk_fds[q]
        BY <1>0, <3>1, <3>3, <3>4, <3>6, ForkCases DEF ForkInv
      <3> QED
        BY <3>2, <3>3, <3>7
    <2>4. ASSUME NEW q \in K!Procs, K!Reap(q) PROVE FALSE
      <3>1. fk_kind = "superserver"
        BY <1>0, <2>4 DEF K!Reap, ForkInv, Loops
      <3> QED
        BY <3>1 DEF K!Closes
    <2>5. ASSUME NEW q \in K!Procs, K!Answer(q) \/ K!End(q)
          PROVE  fk_fds'[0] = fk_fds[0] /\ fk_queue' = fk_queue
      <3>1. q # 0
        BY <1>0, <2>5 DEF K!Answer, K!End, ForkInv, Loops
      <3> QED
        BY <1>0, <2>5, <3>1 DEF K!Answer, K!End, K!Exit
    <2>6. ASSUME NEW c \in Clients, K!Connect(c)
          PROVE  K!Full(0)' /\ \A p \in K!Ports : K!QueueKept(p)
      <3>1. PICK o \in K!Ports : fk_queue' = [fk_queue EXCEPT ![o] = Append(fk_queue[o], c)]
        BY <2>6 DEF K!Connect
      <3>2. fk_fds' = fk_fds
        BY <2>6 DEF K!Connect
      <3>3. ASSUME NEW p \in K!Ports PROVE K!QueueKept(p)
        <4>1. CASE p # o
          <5>1. fk_queue'[p] = fk_queue[p]
            BY <1>0, <3>1, <4>1
          <5> QED
            BY <1>2, <5>1
        <4>2. CASE p = o
          <5>1. PICK b, d : b = fk_queue[p] /\ d = Append(b, c)
            OBVIOUS
          <5>2. b \in Seq(Clients) /\ fk_queue'[p] = d
            BY <1>0, <3>1, <4>2, <5>1
          <5>3. /\ d \in Seq(Clients) /\ Len(b) \in Nat /\ Len(d) = Len(b) + 1
                /\ \A i \in 1..Len(b) : d[i] = b[i]
            BY <5>1, <5>2, AppendFacts
          <5>4. SubSeq(d, 1, Len(b)) = b
            BY <5>2, <5>3
          <5>5. Len(b) <= Len(d)
            BY <5>3
          <5> QED
            BY <5>1, <5>2, <5>4, <5>5 DEF K!QueueKept
        <4> QED
          BY <4>1, <4>2
      <3> QED
        BY <1>1, <3>2, <3>3
    <2>7. ASSUME NEW c \in Clients, K!Send(c) \/ K!Leave(c) \/ K!Hangup(c)
          PROVE  fk_fds' = fk_fds /\ fk_queue' = fk_queue
      BY <2>7 DEF K!Send, K!Leave, K!Hangup, K!Become
    <2> QED
      BY <1>1, <1>3, <1>5, <2>1, <2>2, <2>3, <2>4, <2>5, <2>6, <2>7
         DEF K!Next, K!ServerStep, K!ClientStep
  <1> QED
    BY <1>4, <1>5 DEF Next, InMss, InTss, InDirect, InPass, vars

LEMMA TableStep ==
    ASSUME MultiplexInv, [Next]_vars, fk_kind # "superserver", K!Free = {}
    PROVE  K!Free' = {} /\ fk_nfd' = fk_nfd
  <1>0. ForkInv /\ 0 \in K!Procs
        /\ fk_pc \in [K!Procs -> {"none", "select", "scan", "wait", "server1", "zombie"}]
    BY ProcFacts DEF MultiplexInv, ForkInv, ForkTypes, K!TypeOK
  <1>1. \A q \in K!Procs : fk_pc[q] # "none" /\ fk_pc[q] # "wait"
    BY <1>0 DEF K!Free, ForkInv, Loops
  <1>2. SUFFICES /\ \A q \in K!Procs : fk_pc'[q] # "none"
                 /\ fk_nfd' = fk_nfd
    BY DEF K!Free
  <1>3. CASE UNCHANGED fork
    BY <1>1, <1>3 DEF fork
  <1>4. CASE K!Next
    <2>1. CASE K!handler_func
      BY <1>0, <1>1, <2>1 DEF K!handler_func
    <2>2. ASSUME NEW q \in K!Procs, K!Select(q)
          PROVE  (\A r \in K!Procs : fk_pc'[r] # "none") /\ fk_nfd' = fk_nfd
      BY <1>0, <1>1, <2>2 DEF K!Select
    <2>3. ASSUME NEW q \in K!Procs, K!Accept(q)
          PROVE  (\A r \in K!Procs : fk_pc'[r] # "none") /\ fk_nfd' = fk_nfd
      <3>1. PICK p \in fk_ready[q], c \in Clients \cup {Nobody} :
                fk_pc[q] = "scan" /\ K!Fork(q, c, fk_ready[q] \ {p})
        BY <1>0, <2>3, AcceptCases DEF ForkInv
      <3>2. PICK rest : rest = fk_ready[q] \ {p}
        OBVIOUS
      <3>3. fk_pc' = [fk_pc EXCEPT ![q] = K!Loop(rest)] /\ UNCHANGED fk_nfd
        BY <3>1, <3>2 DEF K!Fork
      <3>4. K!Loop(rest) # "none"
        BY DEF K!Loop
      <3> QED
        BY <1>0, <1>1, <3>3, <3>4
    <2>4. ASSUME NEW q \in K!Procs, K!Reap(q) PROVE FALSE
      BY <1>1, <2>4 DEF K!Reap
    <2>5. ASSUME NEW q \in K!Procs, K!Answer(q) \/ K!End(q)
          PROVE  (\A r \in K!Procs : fk_pc'[r] # "none") /\ fk_nfd' = fk_nfd
      BY <1>0, <1>1, <2>5 DEF K!Answer, K!End, K!Exit
    <2>6. ASSUME NEW c \in Clients, K!ClientStep(c) PROVE fk_pc' = fk_pc /\ fk_nfd' = fk_nfd
      BY <2>6 DEF K!ClientStep, K!Connect, K!Send, K!Leave, K!Hangup, K!Become
    <2> QED
      BY <1>1, <1>4, <2>1, <2>2, <2>3, <2>4, <2>5, <2>6 DEF K!Next, K!ServerStep
  <1> QED
    BY <1>3, <1>4 DEF Next, InMss, InTss, InDirect, InPass, vars

\* Once mss waits in accept for a client that is not to come, it registers no service any
\* more; who wants a service of tss that is dead and that every main server takes for
\* started is never served; and a forking server that has used up its descriptors or its
\* processes stays so.
THEOREM LostStaysLost == Spec => LostForEver
  <1>1. MultiplexInv /\ [Next]_vars =>
            [M!Starving => M!Starving' /\ services' = services]_<<M!wvars, M!mssvars>>
    BY StarvedStep
  <1>2. MultiplexInv /\ [Next]_vars =>
            [\A c \in Clients : T!Lost(c) => T!Lost(c)' \/ client'[c] = "gone"]_<<T!wvars, T!tssvars>>
    BY LostStep
  <1>3. MultiplexInv /\ [Next]_vars =>
            [fk_present /\ ~K!Closes /\ K!Full(0) =>
                K!Full(0)' /\ \A p \in K!Ports : K!QueueKept(p)]_(K!vars)
    BY DeafStep
  <1>4. MultiplexInv /\ [Next]_vars =>
            [fk_kind # "superserver" /\ K!Free = {} => K!Free' = {} /\ fk_nfd' = fk_nfd]_(K!vars)
    BY TableStep
  <1> QED
    BY <1>1, <1>2, <1>3, <1>4, Invariance, PTL
       DEF Spec, LostForEver, M!StarvedForEver, T!LostForEver, K!DeafForEver, K!TableFullForEver
=============================================================================
