------------------------- MODULE BackupServerProofs -------------------------
(***************************************************************************)
(* For any number of clients the tables have room for: the handover is safe *)
(* (SafeHandover) and no thread serves a client accepted before its own     *)
(* (NoStaleThread).                                                         *)
(***************************************************************************)
EXTENDS BackupServer, FiniteSetTheorems, SequenceTheorems, TLAPS

\* The signal goes one way, once: the backup's handler runs only after the server's
\* has started, interrupts main where bstart says, and main stands still meanwhile.
\* A backup is signalled only if it has published its pid, and it ends only because
\* a client has.
SignalInv ==
    /\ bstart = "no" <=> bhandler = "no"
    /\ bhandler \in {"recv", "threads"} => bpc = bstart
    /\ bstart = "loop" => bpc = "loop"
    /\ bsig \/ bhandler # "no" => spc \in {"handler", "exited"}
    /\ bsig => bhandler = "no" /\ bpc # "publish"
    /\ shm = "backup" \/ pid = "backup" => bpc # "publish"
    /\ gone = {} => balive
    /\ ~balive => bhandler = "done"
    /\ bpc = "loop" /\ up # "listening" => spc = "exited"

\* Before it listens the server has no clients. Until it exits it keeps every
\* recorded connection open, and it exits in order only when all are passed on.
ServerInv ==
    /\ up # "listening" =>
        /\ chan = <<>> /\ cfd = <<>> /\ backlog = <<>> /\ sthreads = <<>>
        /\ spc \notin {"accept", "store", "spawn"}
    /\ spc \in {"readpid", "connect", "greet"} => up # "listening"
    /\ spc # "exited" => \A n \in 1..Len(cfd) : cfd[n] \in sopen
    /\ spc = "store" => nfd \in sopen
    /\ spc = "exited" /\ gone = {} => sent = Len(cfd)

\* A client is in one place only: idle, in the backlog, just accepted or recorded.
ClientsInv ==
    /\ \A m, n \in 1..Len(backlog) : backlog[m] = backlog[n] => m = n
    /\ \A m, n \in 1..Len(cfd) : cfd[m] = cfd[n] => m = n
    /\ \A m \in 1..Len(backlog) :
        /\ backlog[m] # nfd /\ cli[backlog[m]] # "idle"
        /\ \A n \in 1..Len(cfd) : backlog[m] # cfd[n]
    /\ \A n \in 1..Len(cfd) : cli[cfd[n]] # "idle"
    /\ nfd \in Clients => cli[nfd] # "idle"

\* The threads belong to the recorded clients in order, and the slot nfd holds the
\* client recorded last or one that is not recorded yet.
ThreadInv ==
    /\ Len(sthreads) <= Len(cfd)
    /\ \A n \in 1..Len(sthreads) : sthreads[n].own = cfd[n]
    /\ \A n \in 1..Len(cfd) : n < Len(cfd) => cfd[n] # nfd
    /\ spc = "store" => \A n \in 1..Len(cfd) : cfd[n] # nfd
    /\ spc \in {"accept", "store"} => Len(sthreads) = Len(cfd)
    /\ spc = "spawn" => Len(cfd) = Len(sthreads) + 1 /\ nfd = cfd[Len(cfd)]

\* What is between the servers: the greeting and the connections passed on so far,
\* while main has not read the greeting; afterwards, if the handler did not come too
\* early, what follows the descriptors already in csfd.
ChannelInv ==
    /\ ~balive => chan = <<>>
    /\ up = "listening" /\ balive /\ bpc # "loop" =>
        /\ Len(chan) = sent + 1 /\ chan[1] = Greeting
        /\ \A n \in 1..sent : chan[n + 1] = cfd[n]
    /\ ~Early /\ balive /\ bpc = "loop" =>
        /\ \/ Len(csfd) + Len(chan) = sent
           \/ chan = <<>> /\ Len(csfd) > sent
        /\ \A n \in 1..Len(chan) : chan[n] = cfd[Len(csfd) + n]

\* The backup's table grows past what was sent only at EOF; a handler that came too
\* early receives nothing but the EOF of a server that never had a client; otherwise
\* the handler goes on until the table is full.
TableInv ==
    /\ Len(csfd) > sent => spc = "exited"
    /\ bhandler = "no" => csfd = <<>>
    /\ Early /\ csfd # <<>> => cfd = <<>> /\ spc = "exited"
    /\ bhandler \in {"threads", "done"} /\ ~Early => Len(csfd) = MaxClients
    /\ bthreads # {} => bhandler = "done" /\ bthreads \subseteq Elements(csfd) \ {Zero}

Inv ==
    /\ TypeOK
    /\ SignalInv
    /\ ServerInv
    /\ ClientsInv
    /\ ThreadInv
    /\ ChannelInv
    /\ TableInv
    /\ SameTable
    /\ NoStaleThread

-----------------------------------------------------------------------------
USE DEF cliVars, srvVars, bakVars, vars

LEMMA ValueFacts ==
    /\ MaxClients \in Nat /\ MaxClients >= 1
    /\ Greeting \notin Clients /\ Zero \notin Clients /\ Unread \notin Clients
  BY BoundAssumption, ValuesAssumption

LEMMA AppendFacts ==
    ASSUME NEW S, NEW q \in Seq(S), NEW x \in S
    PROVE  /\ Append(q, x) \in Seq(S) /\ Append(q, x) # <<>>
           /\ Len(Append(q, x)) = Len(q) + 1 /\ Len(q) \in Nat
           /\ \A n \in 1..Len(q) : Append(q, x)[n] = q[n]
           /\ Append(q, x)[Len(q) + 1] = x
           /\ \A n \in 1..Len(Append(q, x)) : n \in 1..Len(q) \/ n = Len(q) + 1
  <1>1. /\ Append(q, x) \in Seq(S) /\ Append(q, x) # <<>>
        /\ Len(Append(q, x)) = Len(q) + 1 /\ Len(q) \in Nat
        /\ \A n \in 1..Len(q) : Append(q, x)[n] = q[n]
        /\ Append(q, x)[Len(q) + 1] = x
    OBVIOUS
  <1>2. \A n \in 1..(Len(q) + 1) : n \in 1..Len(q) \/ n = Len(q) + 1
    BY <1>1
  <1> QED
    BY <1>1, <1>2

LEMMA TailFacts ==
    ASSUME NEW S, NEW q \in Seq(S), q # <<>>
    PROVE  /\ Tail(q) \in Seq(S) /\ Len(Tail(q)) = Len(q) - 1 /\ Len(q) \in Nat \ {0}
           /\ \A n \in 1..Len(Tail(q)) : n + 1 \in 1..Len(q) /\ Tail(q)[n] = q[n + 1]
           /\ 1 \in 1..Len(q) /\ Head(q) = q[1] /\ Head(q) \in S
  OBVIOUS

\* A sequence without repetitions is no longer than the set of its elements is large.
LEMMA DistinctLen ==
    ASSUME NEW S, IsFiniteSet(S), NEW q \in Seq(S),
           \A m, n \in 1..Len(q) : q[m] = q[n] => m = n
    PROVE  Len(q) <= Cardinality(S)
  <1>1. q \in [1..Len(q) -> S] /\ Len(q) \in Nat
    OBVIOUS
  <1>2. q \in Injection(1..Len(q), S)
    BY <1>1 DEF Injection, IsInjective
  <1>3. Cardinality(1..Len(q)) <= Cardinality(S)
    BY <1>2, FS_Injection
  <1>4. Cardinality(1..Len(q)) = Len(q)
    <2>1. 1 \in Int /\ Len(q) \in Int
      BY <1>1
    <2>2. Cardinality(1..Len(q)) = IF 1 > Len(q) THEN 0 ELSE Len(q) - 1 + 1
      BY <2>1, FS_Interval
    <2> QED
      BY <1>1, <2>2
  <1> QED
    BY <1>3, <1>4

LEMMA InitInv == Init => Inv
  <1> SUFFICES ASSUME Init PROVE Inv
    OBVIOUS
  <1>1. TypeOK
    <2>1. shm \in {"none", "stale", "backup"}
      BY LayoutAssumption DEF Init
    <2>2. /\ backlog \in Seq(Clients)
          /\ cfd \in Seq(Clients) /\ Len(cfd) <= MaxClients /\ sent \in 0..Len(cfd)
          /\ sthreads \in Seq(SThreads)
          /\ csfd \in Seq(Clients \union {Zero}) /\ Len(csfd) <= MaxClients
          /\ chan \in Seq(Clients \union {Greeting})
      BY ValueFacts DEF Init
    <2>3. ssig \in BOOLEAN /\ bsig \in BOOLEAN /\ balive \in BOOLEAN
      BY DEF Init
    <2> QED
      BY <2>1, <2>2, <2>3 DEF Init, TypeOK
  <1>2. SignalInv
    BY LayoutAssumption DEF Init, SignalInv
  <1>3. ServerInv /\ ClientsInv /\ ThreadInv
    BY ValueFacts DEF Init, ServerInv, ClientsInv, ThreadInv
  <1>4. ChannelInv /\ TableInv /\ SameTable /\ NoStaleThread
    BY DEF Init, ChannelInv, TableInv, SameTable, NoStaleThread, Early
  <1> QED
    BY <1>1, <1>2, <1>3, <1>4 DEF Inv

(***************************************************************************)
(* client.c                                                                 *)
(***************************************************************************)
LEMMA ConnectInv ==
    ASSUME Inv, NEW c \in Clients, ClientConnect(c)
    PROVE  Inv'
  <1> USE DEF Inv
  <1>1. /\ UNCHANGED <<gone, shm, spc, up, pid, nfd, cfd, sthreads, sopen, sent, ssig,
                       bpc, bhandler, bstart, csfd, bthreads, bsig, balive, chan>>
        /\ cli[c] = "idle" /\ up = "listening"
        /\ cli' = [cli EXCEPT ![c] = "connected"]
        /\ backlog' = Append(backlog, c)
    BY DEF ClientConnect, Listening
  <1>2. /\ backlog' \in Seq(Clients) /\ Len(backlog) \in Nat
        /\ Len(backlog') = Len(backlog) + 1
        /\ \A n \in 1..Len(backlog) : backlog'[n] = backlog[n]
        /\ backlog'[Len(backlog) + 1] = c
        /\ \A n \in 1..Len(backlog') : n \in 1..Len(backlog) \/ n = Len(backlog) + 1
    BY <1>1, AppendFacts DEF TypeOK
  <1>3. TypeOK'
    BY <1>1, <1>2 DEF TypeOK
  <1>4. ClientsInv'
    <2>1. /\ \A n \in 1..Len(backlog) : backlog[n] # c /\ backlog[n] \in Clients
          /\ \A n \in 1..Len(cfd) : cfd[n] # c /\ cfd[n] \in Clients
          /\ nfd # c
      BY <1>1 DEF ClientsInv, TypeOK
    <2>2. \A x \in Clients : x # c => cli'[x] = cli[x]
      BY <1>1 DEF TypeOK
    <2>3. cli'[c] = "connected"
      BY <1>1 DEF TypeOK
    <2>4. \A m, n \in 1..Len(backlog') : backlog'[m] = backlog'[n] => m = n
      BY <1>2, <2>1 DEF ClientsInv
    <2>5. \A m \in 1..Len(backlog') :
            /\ backlog'[m] # nfd /\ cli'[backlog'[m]] # "idle"
            /\ \A n \in 1..Len(cfd) : backlog'[m] # cfd[n]
      BY <1>2, <2>1, <2>2, <2>3 DEF ClientsInv
    <2>6. /\ \A n \in 1..Len(cfd) : cli'[cfd[n]] # "idle"
          /\ nfd \in Clients => cli'[nfd] # "idle"
      BY <2>1, <2>2 DEF ClientsInv
    <2> QED
      BY <1>1, <2>4, <2>5, <2>6 DEF ClientsInv
  <1>5. SignalInv' /\ ServerInv' /\ ThreadInv' /\ NoStaleThread'
    BY <1>1 DEF SignalInv, ServerInv, ThreadInv, NoStaleThread
  <1>6. ChannelInv' /\ TableInv' /\ SameTable'
    BY <1>1 DEF ChannelInv, TableInv, SameTable, Early, Elements
  <1> QED
    BY <1>3, <1>4, <1>5, <1>6

LEMMA ClientInv ==
    ASSUME Inv, NEW c \in Clients, ClientRefused(c) \/ ClientQuit(c) \/ ClientHangup(c)
    PROVE  Inv'
  <1> USE DEF Inv
  <1>1. /\ UNCHANGED <<shm, srvVars, bakVars, chan>>
        /\ gone' \subseteq Clients /\ (gone' = {} => gone = {})
        /\ \/ cli' = cli
           \/ cli' = [cli EXCEPT ![c] = "refused"]
    BY DEF ClientRefused, ClientQuit, ClientHangup, TypeOK
  <1>2. /\ cli' \in [Clients -> {"idle", "connected", "refused"}]
        /\ \A x \in Clients : cli'[x] = "idle" => cli[x] = "idle"
    BY <1>1 DEF TypeOK
  <1>3. TypeOK'
    BY <1>1, <1>2 DEF TypeOK
  <1>4. ClientsInv'
    <2>1. /\ \A n \in 1..Len(backlog) : backlog[n] \in Clients
          /\ \A n \in 1..Len(cfd) : cfd[n] \in Clients
      BY DEF TypeOK
    <2> QED
      BY <1>1, <1>2, <2>1 DEF ClientsInv
  <1>5. SignalInv' /\ ServerInv' /\ ThreadInv' /\ NoStaleThread'
    BY <1>1 DEF SignalInv, ServerInv, ThreadInv, NoStaleThread
  <1>6. ChannelInv' /\ TableInv' /\ SameTable'
    BY <1>1 DEF ChannelInv, TableInv, SameTable, Early, Elements
  <1> QED
    BY <1>3, <1>4, <1>5, <1>6

(***************************************************************************)
(* server.c                                                                 *)
(***************************************************************************)

\* The server ends: allowed at any time once a client has ended, before there are
\* clients, or when everything has been passed on.
LEMMA ServerDiesInv ==
    ASSUME Inv, ServerDies, chan' = chan,
           gone # {} \/ cfd = <<>> \/ sent = Len(cfd)
    PROVE  Inv'
  <1> USE DEF Inv
  <1>1. /\ UNCHANGED <<cli, gone, shm, up, pid, cfd, sent, ssig, bpc, bhandler, bstart,
                       csfd, bthreads, bsig, balive, chan>>
        /\ spc' = "exited" /\ sopen' = {} /\ backlog' = <<>> /\ nfd' = Zero
        /\ sthreads' = <<>>
    BY DEF ServerDies
  <1>2. TypeOK'
    BY <1>1 DEF TypeOK
  <1>3. SignalInv'
    BY <1>1 DEF SignalInv
  <1>4. ServerInv'
    BY <1>1 DEF ServerInv, TypeOK
  <1>5. ClientsInv' /\ NoStaleThread'
    BY <1>1, ValueFacts DEF ClientsInv, NoStaleThread
  <1>6. ThreadInv'
    <2>1. \A n \in 1..Len(cfd) : cfd[n] # Zero
      BY ValueFacts DEF TypeOK
    <2> QED
      BY <1>1, <2>1 DEF ThreadInv, TypeOK
  <1>7. ChannelInv' /\ TableInv' /\ SameTable'
    BY <1>1 DEF ChannelInv, TableInv, SameTable, Early, Elements
  <1> QED
    BY <1>2, <1>3, <1>4, <1>5, <1>6, <1>7

LEMMA DeathInv ==
    ASSUME Inv, ReadPidFails \/ ConnectFails \/ HandlerExit
                \/ \E n \in 1..Len(sthreads) : ThreadBroken(n)
    PROVE  Inv'
  <1>1. CASE ReadPidFails \/ ConnectFails
    <2>1. cfd = <<>>
      BY <1>1 DEF ReadPidFails, ConnectFails, Inv, ServerInv
    <2> QED
      BY <1>1, <2>1, ServerDiesInv DEF ReadPidFails, ConnectFails
  <1>2. CASE HandlerExit
    <2>1. gone # {} \/ sent = Len(cfd)
      BY <1>2 DEF HandlerExit, Inv, SignalInv
    <2> QED
      BY <1>2, <2>1, ServerDiesInv DEF HandlerExit
  <1>3. CASE \E n \in 1..Len(sthreads) : ThreadBroken(n)
    <2>1. ServerDies /\ chan' = chan /\ gone # {}
      BY <1>3 DEF ThreadBroken
    <2> QED
      BY <2>1, ServerDiesInv
  <1> QED
    BY <1>1, <1>2, <1>3

\* The steps that only move the server's main: the pid, the link, the signal.
LEMMA ServerControlInv ==
    ASSUME Inv, ReadPid \/ Connect \/ Operator \/ Handler
    PROVE  Inv'
  <1> USE DEF Inv
  <1>1. /\ UNCHANGED <<cli, gone, shm, backlog, nfd, cfd, sthreads, sopen, sent,
                       bpc, bhandler, bstart, csfd, bthreads, balive, chan>>
    BY DEF ReadPid, Connect, Operator, Handler
  <1>2. /\ spc' = spc \/ spc' = "handler"
             \/ (spc = "readpid" /\ spc' = "connect") \/ (spc = "connect" /\ spc' = "greet")
        /\ up' = up \/ (spc = "connect" /\ up' = "linked")
        /\ spc # "exited"
    BY DEF ReadPid, Connect, Operator, Handler
  <1>3. TypeOK'
    <2>1. ssig' \in BOOLEAN /\ bsig' \in BOOLEAN
      BY DEF TypeOK, ReadPid, Connect, Operator, Handler
    <2>2. pid' \in {"stale", "backup"}
      BY DEF TypeOK, ReadPid, Connect, Operator, Handler
    <2> QED
      BY <1>1, <1>2, <2>1, <2>2 DEF TypeOK
  <1>4. SignalInv'
    <2>1. bpc = "loop" /\ up' # "listening" => spc' = "exited"
      BY <1>1, <1>2 DEF SignalInv, ServerInv
    <2> QED
      BY <2>1 DEF TypeOK, SignalInv, ReadPid, Connect, Operator, Handler
  <1>5. ServerInv'
    BY <1>1, <1>2 DEF ServerInv
  <1>6. ClientsInv' /\ ThreadInv' /\ NoStaleThread'
    BY <1>1, <1>2 DEF ClientsInv, ThreadInv, NoStaleThread
  <1>7. ChannelInv'
    <2>1. up' = "listening" <=> up = "listening"
      BY <1>2 DEF ServerInv
    <2> QED
      BY <1>1, <2>1 DEF ChannelInv, Early
  <1>8. TableInv' /\ SameTable'
    BY <1>1, <1>2 DEF TableInv, SameTable, Early, Elements
  <1> QED
    BY <1>3, <1>4, <1>5, <1>6, <1>7, <1>8

LEMMA GreetInv ==
    ASSUME Inv, Greet
    PROVE  Inv'
  <1> USE DEF Inv
  <1>1. /\ UNCHANGED <<cli, gone, shm, pid, backlog, nfd, cfd, sthreads, sopen, sent, ssig,
                       bpc, bhandler, bstart, csfd, bthreads, bsig, balive>>
        /\ spc = "greet" /\ spc' = "accept" /\ up' = "listening"
        /\ chan' = Append(chan, Greeting)
    BY DEF Greet
  <1>2. /\ chan = <<>> /\ cfd = <<>> /\ backlog = <<>> /\ sthreads = <<>> /\ sent = 0
        /\ bhandler = "no" /\ bstart = "no" /\ ~bsig
    BY <1>1 DEF ServerInv, TypeOK, SignalInv
  <1>3. chan' = <<Greeting>>
    BY <1>1, <1>2
  <1>4. TypeOK'
    BY <1>1, <1>3 DEF TypeOK
  <1>5. SignalInv' /\ ServerInv'
    BY <1>1, <1>2 DEF SignalInv, ServerInv
  <1>6. ClientsInv' /\ ThreadInv' /\ NoStaleThread'
    BY <1>1, <1>2 DEF ClientsInv, ThreadInv, NoStaleThread
  <1>7. ChannelInv' /\ TableInv' /\ SameTable'
    <2>1. bpc # "loop" /\ csfd = <<>>
      BY <1>1, <1>2 DEF SignalInv, ServerInv, TableInv
    <2>2. Len(chan') = 1 /\ chan'[1] = Greeting
      BY <1>3
    <2>3. ChannelInv'
      <3>1. balive
        BY <1>1 DEF SignalInv, TypeOK
      <3>2. Len(chan') = sent' + 1 /\ \A n \in 1..sent' : chan'[n + 1] = cfd'[n]
        BY <1>1, <1>2, <2>2
      <3> QED
        BY <1>1, <2>1, <2>2, <3>1, <3>2 DEF ChannelInv
    <2> QED
      BY <1>1, <1>2, <2>1, <2>3 DEF TableInv, SameTable, Early, Elements
  <1> QED
    BY <1>4, <1>5, <1>6, <1>7

LEMMA AcceptInv ==
    ASSUME Inv, Accept
    PROVE  Inv'
  <1> USE DEF Inv
  <1>1. /\ UNCHANGED <<cli, gone, shm, up, pid, cfd, sthreads, sent, ssig,
                       bpc, bhandler, bstart, csfd, bthreads, bsig, balive, chan>>
        /\ spc = "accept" /\ spc' = "store" /\ up = "listening"
    BY DEF Accept, ServerInv
  <1>2. /\ backlog' \in Seq(Clients) /\ Len(backlog') = Len(backlog) - 1
        /\ \A n \in 1..Len(backlog') : n + 1 \in 1..Len(backlog) /\ backlog'[n] = backlog[n + 1]
        /\ 1 \in 1..Len(backlog) /\ nfd' = backlog[1] /\ nfd' \in Clients
        /\ sopen' = sopen \union {nfd'}
    BY TailFacts DEF Accept, TypeOK
  <1>3. TypeOK'
    BY <1>1, <1>2 DEF TypeOK
  <1>4. SignalInv' /\ ServerInv'
    BY <1>1, <1>2 DEF SignalInv, ServerInv
  <1>5. ClientsInv'
    <2>1. \A m, n \in 1..Len(backlog') : backlog'[m] = backlog'[n] => m = n
      <3>1. \A m, n \in 1..Len(backlog) : backlog[m] = backlog[n] => m = n
        BY DEF ClientsInv
      <3> QED
        BY <1>2, <3>1
    <2>2. \A m \in 1..Len(backlog') :
            /\ backlog'[m] # nfd' /\ cli[backlog'[m]] # "idle"
            /\ \A n \in 1..Len(cfd) : backlog'[m] # cfd[n]
      <3> SUFFICES ASSUME NEW m \in 1..Len(backlog')
                   PROVE  /\ backlog'[m] # nfd' /\ cli[backlog'[m]] # "idle"
                          /\ \A n \in 1..Len(cfd) : backlog'[m] # cfd[n]
        OBVIOUS
      <3>1. m + 1 \in 1..Len(backlog) /\ backlog'[m] = backlog[m + 1] /\ m + 1 # 1
        BY <1>2
      <3> QED
        BY <1>2, <3>1 DEF ClientsInv
    <2> QED
      BY <1>1, <1>2, <2>1, <2>2 DEF ClientsInv
  <1>6. ThreadInv' /\ NoStaleThread'
    BY <1>1, <1>2 DEF ThreadInv, NoStaleThread, ClientsInv
  <1>7. ChannelInv' /\ TableInv' /\ SameTable'
    BY <1>1 DEF ChannelInv, TableInv, SameTable, Early, Elements
  <1> QED
    BY <1>3, <1>4, <1>5, <1>6, <1>7

LEMMA StoreInv ==
    ASSUME Inv, Store
    PROVE  Inv'
  <1> USE DEF Inv
  <1>1. /\ UNCHANGED <<cli, gone, shm, up, pid, backlog, nfd, sthreads, sopen, sent, ssig,
                       bpc, bhandler, bstart, csfd, bthreads, bsig, balive, chan>>
        /\ spc = "store" /\ spc' = "spawn" /\ up = "listening"
        /\ nfd \in Clients /\ nfd \in sopen
    BY DEF Store, ServerInv, TypeOK
  <1>2. /\ cfd' \in Seq(Clients) /\ Len(cfd) \in Nat
        /\ Len(cfd') = Len(cfd) + 1
        /\ \A n \in 1..Len(cfd) : cfd'[n] = cfd[n]
        /\ cfd'[Len(cfd) + 1] = nfd
        /\ \A n \in 1..Len(cfd') : n \in 1..Len(cfd) \/ n = Len(cfd) + 1
    BY <1>1, AppendFacts DEF Store, TypeOK
  <1>3. ClientsInv'
    <2>1. \A n \in 1..Len(cfd) : cfd[n] # nfd
      BY <1>1 DEF ThreadInv
    <2>2. \A m, n \in 1..Len(cfd') : cfd'[m] = cfd'[n] => m = n
      <3>1. \A m, n \in 1..Len(cfd) : cfd[m] = cfd[n] => m = n
        BY DEF ClientsInv
      <3> QED
        BY <1>2, <2>1, <3>1
    <2>3. \A m \in 1..Len(backlog) : \A n \in 1..Len(cfd') : backlog[m] # cfd'[n]
      BY <1>2 DEF ClientsInv
    <2>4. \A n \in 1..Len(cfd') : cli[cfd'[n]] # "idle"
      BY <1>1, <1>2 DEF ClientsInv
    <2> QED
      BY <1>1, <2>2, <2>3, <2>4 DEF ClientsInv
  <1>4. Len(cfd') <= MaxClients
    <2>1. Len(cfd') <= Cardinality(Clients)
      BY <1>2, <1>3, DistinctLen, BoundAssumption DEF ClientsInv
    <2>2. Cardinality(Clients) \in Nat
      BY BoundAssumption, FS_CardinalityType
    <2> QED
      BY <1>2, <2>1, <2>2, BoundAssumption
  <1>5. TypeOK'
    <2>1. sent' \in 0..Len(cfd')
      BY <1>1, <1>2 DEF TypeOK
    <2> QED
      BY <1>1, <1>2, <1>4, <2>1 DEF TypeOK
  <1>6. ServerInv'
    BY <1>1, <1>2 DEF ServerInv
  <1>7. ThreadInv'
    <2>1. Len(sthreads) = Len(cfd)
      BY <1>1 DEF ThreadInv
    <2>2. \A n \in 1..Len(cfd) : cfd[n] # nfd
      BY <1>1 DEF ThreadInv
    <2>3. \A n \in 1..Len(sthreads) : sthreads[n].own = cfd'[n]
      BY <1>2, <2>1 DEF ThreadInv
    <2>4. \A n \in 1..Len(cfd') : n < Len(cfd') => cfd'[n] # nfd
      BY <1>2, <2>2
    <2> QED
      BY <1>1, <1>2, <2>1, <2>3, <2>4 DEF ThreadInv
  <1>8. SignalInv' /\ NoStaleThread'
    BY <1>1 DEF SignalInv, NoStaleThread
  <1>9. ChannelInv'
    <2>1. \A n \in 1..sent : cfd'[n] = cfd[n]
      BY <1>2 DEF TypeOK
    <2>2. Len(csfd) + Len(chan) = sent =>
            \A n \in 1..Len(chan) : cfd'[Len(csfd) + n] = cfd[Len(csfd) + n]
      <3>1. Len(csfd) \in Nat /\ Len(chan) \in Nat /\ sent \in Nat
        BY <1>2 DEF TypeOK
      <3> QED
        BY <2>1, <3>1
    <2>3. up = "listening" /\ balive /\ bpc # "loop" =>
            /\ Len(chan) = sent + 1 /\ chan[1] = Greeting
            /\ \A n \in 1..sent : chan[n + 1] = cfd'[n]
      BY <2>1 DEF ChannelInv
    <2>4. ~Early /\ balive /\ bpc = "loop" =>
            /\ \/ Len(csfd) + Len(chan) = sent
               \/ chan = <<>> /\ Len(csfd) > sent
            /\ \A n \in 1..Len(chan) : chan[n] = cfd'[Len(csfd) + n]
      BY <2>2 DEF ChannelInv
    <2> QED
      BY <1>1, <2>3, <2>4 DEF ChannelInv, Early
  <1>10. TableInv'
    <2>1. Early => csfd = <<>>
      BY <1>1 DEF TableInv
    <2> QED
      BY <1>1, <2>1 DEF TableInv, Early, Elements
  <1>11. SameTable'
    <2>1. Len(csfd) <= sent /\ Len(csfd) \in Nat /\ sent \in Nat /\ sent <= Len(cfd)
      BY <1>1, <1>2 DEF TableInv, TypeOK
    <2>2. \A n \in 1..Len(csfd) : csfd[n] = cfd[n] /\ n \in 1..Len(cfd)
      BY <1>2, <2>1 DEF SameTable
    <2> QED
      BY <1>1, <1>2, <2>1, <2>2 DEF SameTable
  <1> QED
    BY <1>3, <1>5, <1>6, <1>7, <1>8, <1>9, <1>10, <1>11

LEMMA SpawnInv ==
    ASSUME Inv, Spawn
    PROVE  Inv'
  <1> USE DEF Inv
  <1>0. PICK th : th = [own |-> nfd, fd |-> Unread]
    OBVIOUS
  <1>1. /\ UNCHANGED <<cli, gone, shm, up, backlog, nfd, cfd, sopen, sent, ssig,
                       bpc, bhandler, bstart, csfd, bthreads, bsig, balive, chan>>
        /\ spc = "spawn" /\ spc' = "accept" /\ up = "listening"
        /\ nfd \in Clients /\ th \in SThreads /\ th.own = nfd /\ th.fd = Unread
        /\ pid' \in {"stale", "backup"} /\ (pid' = "backup" => pid = "backup")
        /\ sthreads' = Append(sthreads, th)
    BY <1>0 DEF Spawn, ServerInv, TypeOK, SThreads
  <1>2. /\ sthreads' \in Seq(SThreads) /\ Len(sthreads) \in Nat
        /\ Len(sthreads') = Len(sthreads) + 1
        /\ \A n \in 1..Len(sthreads) : sthreads'[n] = sthreads[n]
        /\ sthreads'[Len(sthreads) + 1] = th
        /\ \A n \in 1..Len(sthreads') : n \in 1..Len(sthreads) \/ n = Len(sthreads) + 1
    BY <1>1, AppendFacts DEF TypeOK
  <1>3. TypeOK'
    BY <1>1, <1>2 DEF TypeOK
  <1>4. SignalInv' /\ ServerInv' /\ ClientsInv'
    BY <1>1 DEF SignalInv, ServerInv, ClientsInv
  <1>5. ThreadInv'
    <2>1. Len(cfd) = Len(sthreads) + 1 /\ nfd = cfd[Len(cfd)]
      BY <1>1 DEF ThreadInv
    <2>2. \A n \in 1..Len(sthreads') : sthreads'[n].own = cfd[n]
      BY <1>1, <1>2, <2>1 DEF ThreadInv
    <2> QED
      BY <1>1, <1>2, <2>1, <2>2 DEF ThreadInv
  <1>6. NoStaleThread'
    <2> SUFFICES ASSUME NEW m \in 1..Len(sthreads'), NEW n \in 1..Len(sthreads'), m < n
                 PROVE  sthreads'[n].fd # sthreads'[m].own
      BY DEF NoStaleThread
    <2>1. m \in 1..Len(sthreads)
      BY <1>2
    <2>2. CASE n \in 1..Len(sthreads)
      BY <1>2, <2>1, <2>2 DEF NoStaleThread
    <2>3. CASE n = Len(sthreads) + 1
      <3>1. sthreads[m] \in SThreads
        BY <2>1 DEF TypeOK
      <3>2. sthreads[m].own \in Clients
        BY <3>1 DEF SThreads
      <3> QED
        BY <1>1, <1>2, <2>1, <2>3, <3>2, ValueFacts
    <2> QED
      BY <1>2, <2>2, <2>3
  <1>7. ChannelInv' /\ TableInv' /\ SameTable'
    BY <1>1 DEF ChannelInv, TableInv, SameTable, Early, Elements
  <1> QED
    BY <1>3, <1>4, <1>5, <1>6, <1>7

LEMMA ThreadLoadInv ==
    ASSUME Inv, NEW j \in 1..Len(sthreads), ThreadLoad(j)
    PROVE  Inv'
  <1> USE DEF Inv
  <1>1. /\ UNCHANGED <<cli, gone, shm, spc, up, pid, backlog, nfd, cfd, sopen, sent, ssig,
                       bpc, bhandler, bstart, csfd, bthreads, bsig, balive, chan>>
        /\ sthreads' = [sthreads EXCEPT ![j].fd = nfd]
        /\ sthreads \in Seq(SThreads) /\ nfd \in Clients \union {Zero}
        /\ Len(sthreads) \in Nat
    BY DEF ThreadLoad, TypeOK
  <1>2. \A n \in 1..Len(sthreads) :
          /\ sthreads[n] \in SThreads
          /\ sthreads[n].own \in Clients /\ sthreads[n].fd \in Clients \union {Zero, Unread}
    <2>1. \A th \in SThreads : th.own \in Clients /\ th.fd \in Clients \union {Zero, Unread}
      BY DEF SThreads
    <2>2. \A n \in 1..Len(sthreads) : sthreads[n] \in SThreads
      BY <1>1
    <2> QED
      BY <2>1, <2>2
  <1>3. [sthreads[j] EXCEPT !.fd = nfd] \in SThreads
    BY <1>1, <1>2 DEF SThreads
  <1>4. /\ sthreads' \in Seq(SThreads) /\ Len(sthreads') = Len(sthreads)
        /\ \A n \in 1..Len(sthreads) : n # j => sthreads'[n] = sthreads[n]
        /\ sthreads'[j] = [sthreads[j] EXCEPT !.fd = nfd]
    BY <1>1, <1>3
  <1>5. sthreads'[j].fd = nfd /\ \A n \in 1..Len(sthreads) : sthreads'[n].own = sthreads[n].own
    BY <1>2, <1>4 DEF SThreads
  <1>6. TypeOK'
    BY <1>1, <1>4 DEF TypeOK
  <1>7. ServerInv'
    <2>1. sthreads # <<>>
      OBVIOUS
    <2> QED
      BY <1>1, <2>1 DEF ServerInv
  <1>8. SignalInv' /\ ClientsInv'
    BY <1>1 DEF SignalInv, ClientsInv
  <1>9. ThreadInv'
    BY <1>1, <1>4, <1>5 DEF ThreadInv
  <1>10. NoStaleThread'
    <2> SUFFICES ASSUME NEW m \in 1..Len(sthreads), NEW n \in 1..Len(sthreads), m < n
                 PROVE  sthreads'[n].fd # sthreads[m].own
      BY <1>4, <1>5 DEF NoStaleThread
    <2>1. CASE n # j
      BY <1>4, <2>1 DEF NoStaleThread
    <2>2. CASE n = j
      <3>1. m \in 1..Len(cfd) /\ m < Len(cfd) /\ sthreads[m].own = cfd[m]
        BY <1>1, <2>2 DEF ThreadInv, TypeOK
      <3> QED
        BY <1>5, <2>2, <3>1 DEF ThreadInv
    <2> QED
      BY <2>1, <2>2
  <1>11. ChannelInv' /\ TableInv' /\ SameTable'
    BY <1>1 DEF ChannelInv, TableInv, SameTable, Early, Elements
  <1> QED
    BY <1>6, <1>7, <1>8, <1>9, <1>10, <1>11

LEMMA HandlerSendInv ==
    ASSUME Inv, HandlerSend
    PROVE  Inv'
  <1> USE DEF Inv
  <1>1. /\ UNCHANGED <<cli, gone, shm, spc, up, pid, backlog, nfd, cfd, sthreads, sopen, ssig,
                       bpc, bhandler, bstart, csfd, bthreads, bsig, balive>>
        /\ spc = "handler" /\ sent < Len(cfd) /\ balive /\ sent' = sent + 1
        /\ Len(cfd) \in Nat /\ Len(csfd) \in Nat /\ sent \in Nat
        /\ sent + 1 \in 1..Len(cfd) /\ cfd[sent + 1] \in Clients
    BY DEF HandlerSend, TypeOK
  <1>2. /\ chan' \in Seq(Clients \union {Greeting}) /\ Len(chan) \in Nat
        /\ Len(chan') = Len(chan) + 1
        /\ \A n \in 1..Len(chan) : chan'[n] = chan[n]
        /\ chan'[Len(chan) + 1] = cfd[sent + 1]
        /\ \A n \in 1..Len(chan') : n \in 1..Len(chan) \/ n = Len(chan) + 1
    BY <1>1, AppendFacts DEF HandlerSend, TypeOK
  <1>3. up = "listening" /\ Len(csfd) <= sent
    BY <1>1 DEF ServerInv, TableInv
  <1>4. TypeOK'
    BY <1>1, <1>2 DEF TypeOK
  <1>5. SignalInv' /\ ClientsInv' /\ ThreadInv' /\ NoStaleThread'
    BY <1>1 DEF SignalInv, ClientsInv, ThreadInv, NoStaleThread
  <1>6. ServerInv'
    BY <1>1, <1>3 DEF ServerInv
  <1>7. ChannelInv'
    <2>1. CASE bpc # "loop"
      <3>1. /\ Len(chan) = sent + 1 /\ chan[1] = Greeting
            /\ \A n \in 1..sent : chan[n + 1] = cfd[n]
        BY <1>1, <1>3, <2>1 DEF ChannelInv
      <3>2. \A n \in 1..sent' : chan'[n + 1] = cfd[n]
        BY <1>1, <1>2, <3>1
      <3> QED
        BY <1>1, <1>2, <2>1, <3>1, <3>2 DEF ChannelInv
    <2>2. CASE bpc = "loop" /\ ~Early
      <3>1. /\ Len(csfd) + Len(chan) = sent
            /\ \A n \in 1..Len(chan) : chan[n] = cfd[Len(csfd) + n]
        BY <1>1, <1>3, <2>2 DEF ChannelInv
      <3>2. Len(csfd) + (Len(chan) + 1) = sent + 1
        BY <1>1, <1>2, <3>1
      <3>3. \A n \in 1..Len(chan') : chan'[n] = cfd[Len(csfd) + n]
        BY <1>2, <3>1, <3>2
      <3>4. Len(csfd') + Len(chan') = sent'
        BY <1>1, <1>2, <3>2
      <3> QED
        BY <1>1, <2>2, <3>3, <3>4 DEF ChannelInv, Early
    <2>3. CASE bpc = "loop" /\ Early
      BY <1>1, <2>3 DEF ChannelInv, Early
    <2> QED
      BY <2>1, <2>2, <2>3
  <1>8. TableInv'
    BY <1>1, <1>3 DEF TableInv, Early, Elements
  <1>9. SameTable'
    <2>1. \A n \in 1..Len(csfd) : csfd[n] = cfd[n] /\ n <= sent /\ n <= Len(cfd)
      BY <1>1, <1>3 DEF SameTable
    <2> QED
      BY <1>1, <2>1 DEF SameTable
  <1> QED
    BY <1>4, <1>5, <1>6, <1>7, <1>8, <1>9

(***************************************************************************)
(* backserver.c                                                             *)
(***************************************************************************)

\* The steps that only move the backup's main or its handler.
LEMMA BackupControlInv ==
    ASSUME Inv, Publish \/ Listen \/ BAccept \/ BSignal \/ BRecvDone
    PROVE  Inv'
  <1> USE DEF Inv
  <1>1. UNCHANGED <<cli, gone, spc, up, pid, backlog, nfd, cfd, sthreads, sopen, sent, ssig,
                    csfd, bthreads, balive, chan>>
    BY DEF Publish, Listen, BAccept, BSignal, BRecvDone
  <1>2. ServerInv' /\ ClientsInv' /\ ThreadInv' /\ NoStaleThread' /\ SameTable'
    BY <1>1 DEF ServerInv, ClientsInv, ThreadInv, NoStaleThread, SameTable
  <1>3. CASE Publish \/ Listen \/ BAccept
    <2>1. /\ UNCHANGED <<bhandler, bstart, bsig>>
          /\ bhandler \in {"no", "done"}
          /\ \/ bpc = "publish" /\ bpc' = "listen" /\ shm' = "backup"
             \/ bpc = "listen" /\ bpc' = "accept" /\ shm' = shm
             \/ bpc = "accept" /\ bpc' = "greet" /\ shm' = shm
      BY <1>3 DEF Publish, Listen, BAccept, BMain
    <2>2. TypeOK'
      BY <1>1, <2>1 DEF TypeOK
    <2>3. SignalInv'
      BY <1>1, <2>1 DEF SignalInv
    <2>4. ChannelInv' /\ TableInv'
      BY <1>1, <2>1 DEF ChannelInv, TableInv, Early, Elements
    <2> QED
      BY <1>2, <2>2, <2>3, <2>4
  <1>4. CASE BSignal
    <2>1. /\ shm' = shm /\ bpc' = bpc /\ bsig /\ bsig' = FALSE
          /\ bhandler = "no" /\ bhandler' = "recv" /\ bstart' = bpc /\ bpc # "publish"
      BY <1>4 DEF BSignal, SignalInv
    <2>2. TypeOK'
      <3>1. bstart' \in {"no", "listen", "accept", "greet", "loop"} /\ bsig' \in BOOLEAN
        BY <2>1 DEF TypeOK
      <3> QED
        BY <1>1, <2>1, <3>1 DEF TypeOK
    <2>3. SignalInv'
      BY <1>1, <2>1 DEF SignalInv, TypeOK
    <2>4. bstart = "no" /\ csfd = <<>>
      BY <2>1 DEF SignalInv, TableInv
    <2>5. ChannelInv' /\ TableInv'
      BY <1>1, <2>1, <2>4 DEF ChannelInv, TableInv, Early, Elements
    <2> QED
      BY <1>2, <2>2, <2>3, <2>5
  <1>5. CASE BRecvDone
    <2>1. /\ UNCHANGED <<shm, bpc, bstart, bsig>>
          /\ bhandler = "recv" /\ bhandler' = "threads" /\ balive
          /\ NoDescriptor \/ Len(csfd) = MaxClients
      BY <1>5 DEF BRecvDone
    <2>2. TypeOK'
      BY <1>1, <2>1 DEF TypeOK
    <2>3. SignalInv'
      BY <1>1, <2>1 DEF SignalInv
    <2>4. ChannelInv' /\ TableInv'
      BY <1>1, <2>1 DEF ChannelInv, TableInv, NoDescriptor, Early, Elements
    <2> QED
      BY <1>2, <2>2, <2>3, <2>4
  <1> QED
    BY <1>3, <1>4, <1>5

LEMMA OneLess ==
    ASSUME NEW m \in Nat, m >= 1, NEW l, l = IF 1 + 1 <= m THEN m - (1 + 1) + 1 ELSE 0
    PROVE  l = m - 1
  OBVIOUS

LEMMA ShiftedByOne ==
    ASSUME NEW S, NEW q \in Seq(S), q # <<>>, NEW s \in Seq(S),
           Len(s) = IF 1 + 1 <= Len(q) THEN Len(q) - (1 + 1) + 1 ELSE 0,
           \A n \in 1..(Len(q) - (1 + 1) + 1) : s[n] = q[1 + 1 + n - 1]
    PROVE  Len(s) = Len(q) - 1 /\ \A n \in 1..(Len(q) - 1) : s[n] = q[n + 1]
  <1>1. Len(q) \in Nat /\ Len(q) >= 1
    OBVIOUS
  <1>2. Len(s) = Len(q) - 1
    BY <1>1, OneLess
  <1>3. ASSUME NEW n \in 1..(Len(q) - 1) PROVE s[n] = q[n + 1]
    <2>1. n \in 1..(Len(q) - (1 + 1) + 1) /\ 1 + 1 + n - 1 = n + 1
      BY <1>1
    <2> QED
      BY <2>1
  <1> QED
    BY <1>2, <1>3

LEMMA SubSeqFacts ==
    ASSUME NEW S, NEW q \in Seq(S), NEW d \in {1, 2}, NEW s, s = SubSeq(q, 1 + d, Len(q))
    PROVE  /\ s \in Seq(S)
           /\ q = <<>> => s = <<>>
           /\ d = 1 /\ q # <<>> => /\ Len(s) = Len(q) - 1
                                   /\ \A n \in 1..(Len(q) - 1) : s[n] = q[n + 1]
  <1>1. Len(q) \in Nat /\ \A n \in 1..Len(q) : q[n] \in S
    OBVIOUS
  <1>2. /\ s \in Seq(S)
        /\ Len(s) = IF 1 + d <= Len(q) THEN Len(q) - (1 + d) + 1 ELSE 0
        /\ \A n \in 1..(Len(q) - (1 + d) + 1) : s[n] = q[1 + d + n - 1]
    <2>1. 1 + d \in Int /\ Len(q) \in Int /\ \A n \in (1 + d)..Len(q) : q[n] \in S
      BY <1>1
    <2> QED
      BY <2>1, SubSeqProperties
  <1>3. q = <<>> => s = <<>>
    BY <1>1, <1>2
  <1>4. ASSUME d = 1, q # <<>>
        PROVE  Len(s) = Len(q) - 1 /\ \A n \in 1..(Len(q) - 1) : s[n] = q[n + 1]
    BY <1>2, <1>4, ShiftedByOne
  <1> QED
    BY <1>2, <1>3, <1>4

LEMMA BGreetInv ==
    ASSUME Inv, BGreet
    PROVE  Inv'
  <1> USE DEF Inv
  <1>0. PICK taken \in {1, 2} : /\ taken = IF bstart = "greet" THEN 2 ELSE 1
                                /\ chan' = SubSeq(chan, 1 + taken, Len(chan))
    BY DEF BGreet
  <1>1. /\ UNCHANGED <<cli, gone, shm, spc, up, pid, backlog, nfd, cfd, sthreads, sopen, sent,
                       ssig, bhandler, bstart, csfd, bthreads, bsig, balive>>
        /\ balive /\ bpc = "greet" /\ bpc' = "loop" /\ bhandler \in {"no", "done"}
        /\ chan # <<>> \/ spc = "exited"
    BY DEF BGreet, BMain
  <1>2. /\ chan' \in Seq(Clients \union {Greeting})
        /\ chan = <<>> => chan' = <<>>
    BY <1>0, SubSeqFacts DEF TypeOK
  <1>3. TypeOK'
    BY <1>1, <1>2 DEF TypeOK
  <1>4. SignalInv'
    BY <1>1 DEF SignalInv, ServerInv
  <1>5. ServerInv'
    BY <1>1, <1>2 DEF ServerInv
  <1>6. ClientsInv' /\ ThreadInv' /\ NoStaleThread' /\ SameTable'
    BY <1>1 DEF ClientsInv, ThreadInv, NoStaleThread, SameTable
  <1>7. ChannelInv'
    <2>1. CASE Early
      BY <1>1, <2>1 DEF ChannelInv, Early
    <2>2. CASE ~Early
      <3>1. bhandler = "no" /\ csfd = <<>> /\ bstart = "no"
        BY <1>1, <2>2 DEF SignalInv, TableInv, Early, TypeOK
      <3>2. CASE up = "listening"
        <4>1. /\ Len(chan) = sent + 1 /\ sent \in Nat
              /\ \A n \in 1..sent : chan[n + 1] = cfd[n]
          BY <1>1, <3>2 DEF ChannelInv, TypeOK
        <4>2. /\ Len(chan') = sent
              /\ \A n \in 1..sent : chan'[n] = chan[n + 1]
          BY <1>0, <3>1, <4>1, SubSeqFacts DEF TypeOK
        <4>3. \A n \in 1..Len(chan') : chan'[n] = cfd[0 + n]
          BY <4>1, <4>2
        <4>4. Len(csfd) = 0
          BY <3>1
        <4> QED
          BY <1>1, <4>1, <4>2, <4>3, <4>4 DEF ChannelInv
      <3>3. CASE up # "listening"
        <4>1. chan' = <<>> /\ sent = 0
          BY <1>2, <3>3 DEF ServerInv, TypeOK
        <4> QED
          BY <1>1, <3>1, <4>1 DEF ChannelInv
      <3> QED
        BY <3>2, <3>3
    <2> QED
      BY <2>1, <2>2
  <1>8. TableInv'
    BY <1>1 DEF TableInv, Early, Elements
  <1> QED
    BY <1>3, <1>4, <1>5, <1>6, <1>7, <1>8

LEMMA BRecvInv ==
    ASSUME Inv, BRecv
    PROVE  Inv'
  <1> USE DEF Inv
  <1>0. PICK x : x = IF chan = <<>> THEN Zero ELSE Head(chan)
    OBVIOUS
  <1>1. /\ UNCHANGED <<cli, gone, shm, spc, up, pid, backlog, nfd, cfd, sthreads, sopen, sent,
                       ssig, bpc, bhandler, bstart, bthreads, bsig, balive>>
        /\ balive /\ bhandler = "recv" /\ bpc = bstart /\ bthreads = {}
        /\ chan # <<>> \/ spc = "exited"
        /\ csfd' = Append(csfd, x)
        /\ chan' = IF chan = <<>> THEN chan ELSE Tail(chan)
        /\ Len(csfd) < MaxClients
        /\ bstart = "loop" \/ (bstart = "greet" /\ chan = <<>>)
        /\ Len(csfd) \in Nat /\ sent \in Nat /\ sent <= Len(cfd) /\ Len(cfd) \in Nat
    BY <1>0 DEF BRecv, SignalInv, TableInv, TypeOK
  \* what is received is the next connection passed on, or descriptor 0 behind all of them
  <1>2. \/ /\ bstart = "loop" /\ chan # <<>> /\ x \in Clients
           /\ Len(csfd) + 1 <= sent /\ x = cfd[Len(csfd) + 1]
        \/ /\ chan = <<>> /\ x = Zero /\ spc = "exited" /\ Len(csfd) >= sent
           /\ bstart = "greet" => cfd = <<>>
    <2>1. CASE chan # <<>>
      <3>1. bstart = "loop" /\ bpc = "loop" /\ ~Early
        BY <1>1, <2>1 DEF Early
      <3>2. /\ x = chan[1] /\ 1 \in 1..Len(chan) /\ Len(chan) \in Nat
        BY <1>0, <2>1, TailFacts DEF TypeOK
      <3>3. Len(csfd) + Len(chan) = sent /\ chan[1] = cfd[Len(csfd) + 1]
        BY <1>1, <2>1, <3>1, <3>2 DEF ChannelInv
      <3>4. Len(csfd) + 1 <= sent /\ Len(csfd) + 1 \in 1..Len(cfd)
        BY <1>1, <3>2, <3>3
      <3>5. cfd[Len(csfd) + 1] \in Clients
        BY <3>4 DEF TypeOK
      <3> QED
        BY <2>1, <3>1, <3>2, <3>3, <3>4, <3>5
    <2>2. CASE chan = <<>> /\ bstart = "loop"
      <3>1. Len(csfd) >= sent
        BY <1>1, <2>2 DEF ChannelInv, Early
      <3> QED
        BY <1>0, <1>1, <2>2, <3>1
    <2>3. CASE chan = <<>> /\ bstart = "greet"
      <3>1. up # "listening"
        BY <1>1, <2>3 DEF ChannelInv
      <3>2. cfd = <<>> /\ sent = 0
        BY <1>1, <3>1 DEF ServerInv
      <3> QED
        BY <1>0, <1>1, <2>3, <3>2
    <2> QED
      BY <1>1, <2>1, <2>2, <2>3
  <1>3. /\ csfd' \in Seq(Clients \union {Zero})
        /\ Len(csfd') = Len(csfd) + 1
        /\ \A n \in 1..Len(csfd) : csfd'[n] = csfd[n]
        /\ csfd'[Len(csfd) + 1] = x
        /\ \A n \in 1..Len(csfd') : n \in 1..Len(csfd) \/ n = Len(csfd) + 1
    BY <1>1, <1>2, AppendFacts DEF TypeOK
  <1>4. /\ chan' \in Seq(Clients \union {Greeting})
        /\ chan = <<>> => chan' = <<>>
        /\ chan # <<>> => /\ Len(chan') = Len(chan) - 1 /\ Len(chan) \in Nat
                          /\ \A n \in 1..Len(chan') : n + 1 \in 1..Len(chan) /\ chan'[n] = chan[n + 1]
    BY <1>1, TailFacts DEF TypeOK
  <1>5. TypeOK'
    <2>1. Len(csfd') <= MaxClients
      BY <1>1, <1>3, ValueFacts
    <2> QED
      BY <1>1, <1>3, <1>4, <2>1 DEF TypeOK
  <1>6. SignalInv' /\ ServerInv'
    BY <1>1, <1>4 DEF SignalInv, ServerInv
  <1>7. ClientsInv' /\ ThreadInv' /\ NoStaleThread'
    BY <1>1 DEF ClientsInv, ThreadInv, NoStaleThread
  <1>8. ChannelInv'
    <2>1. CASE chan = <<>>
      <3>1. chan' = chan
        BY <1>1, <2>1
      <3>2. CASE bpc = "loop"
        <4>1. Len(csfd') > sent
          BY <1>1, <1>2, <1>3, <2>1
        <4> QED
          BY <1>1, <2>1, <3>1, <3>2, <4>1 DEF ChannelInv
      <3>3. CASE bpc # "loop"
        BY <1>1, <3>1, <3>3 DEF ChannelInv
      <3> QED
        BY <3>2, <3>3
    <2>2. CASE chan # <<>>
      <3>1. bpc = "loop" /\ ~Early
        BY <1>1, <2>2 DEF Early
      <3>2. Len(csfd) + Len(chan) = sent /\ \A n \in 1..Len(chan) : chan[n] = cfd[Len(csfd) + n]
        BY <1>1, <2>2, <3>1 DEF ChannelInv
      <3>3. Len(csfd') + Len(chan') = sent
        <4>1. /\ Len(csfd') = Len(csfd) + 1 /\ Len(chan') = Len(chan) - 1
              /\ Len(csfd) \in Nat /\ Len(chan) \in Nat
          BY <1>1, <1>3, <1>4, <2>2
        <4> QED
          BY <3>2, <4>1
      <3>4. \A n \in 1..Len(chan') : chan'[n] = cfd[Len(csfd') + n]
        <4> SUFFICES ASSUME NEW n \in 1..Len(chan') PROVE chan'[n] = cfd[Len(csfd') + n]
          OBVIOUS
        <4>1. n + 1 \in 1..Len(chan) /\ chan'[n] = chan[n + 1]
          BY <1>4, <2>2
        <4>2. Len(csfd') + n = Len(csfd) + (n + 1)
          BY <1>1, <1>3
        <4> QED
          BY <3>2, <4>1, <4>2
      <3> QED
        BY <1>1, <3>1, <3>3, <3>4 DEF ChannelInv
    <2> QED
      BY <2>1, <2>2
  <1>9. TableInv'
    <2>1. Len(csfd') > sent => spc = "exited"
      BY <1>1, <1>2, <1>3
    <2>2. Early => cfd = <<>> /\ spc = "exited"
      BY <1>1, <1>2 DEF Early
    <2> QED
      BY <1>1, <2>1, <2>2 DEF TableInv, Early
  <1>10. SameTable'
    <2> SUFFICES ASSUME NEW n \in 1..Len(csfd')
                 PROVE  IF n <= Len(cfd) /\ n <= sent THEN csfd'[n] = cfd[n] ELSE csfd'[n] = Zero
      BY <1>1 DEF SameTable
    <2>1. CASE n \in 1..Len(csfd)
      BY <1>3, <2>1 DEF SameTable
    <2>2. CASE n = Len(csfd) + 1
      BY <1>1, <1>2, <1>3, <2>2
    <2> QED
      BY <1>3, <2>1, <2>2
  <1> QED
    BY <1>5, <1>6, <1>7, <1>8, <1>9, <1>10

LEMMA BThreadsInv ==
    ASSUME Inv, BThreads
    PROVE  Inv'
  <1> USE DEF Inv
  <1>1. /\ UNCHANGED <<cli, gone, shm, spc, up, pid, backlog, nfd, cfd, sthreads, sopen, sent,
                       ssig, bpc, bstart, csfd, bsig, balive, chan>>
        /\ balive /\ bhandler = "threads" /\ bhandler' = "done"
        /\ bthreads' = Elements(csfd) \ {Zero}
    BY DEF BThreads
  <1>2. bthreads' \subseteq Clients
    BY <1>1 DEF Elements, TypeOK
  <1>3. TypeOK'
    BY <1>1, <1>2 DEF TypeOK
  <1>4. SignalInv' /\ ServerInv' /\ ClientsInv' /\ ThreadInv'
    BY <1>1 DEF SignalInv, ServerInv, ClientsInv, ThreadInv
  <1>5. NoStaleThread' /\ ChannelInv' /\ SameTable'
    BY <1>1 DEF NoStaleThread, ChannelInv, SameTable, Early
  <1>6. TableInv'
    BY <1>1 DEF TableInv, Early, Elements
  <1> QED
    BY <1>3, <1>4, <1>5, <1>6

LEMMA BThreadBrokenInv ==
    ASSUME Inv, BThreadBroken
    PROVE  Inv'
  <1> USE DEF Inv
  <1>1. /\ UNCHANGED <<cli, gone, shm, spc, up, pid, backlog, nfd, cfd, sthreads, sopen, sent,
                       ssig, bpc, bhandler, bstart, csfd, bthreads, bsig>>
        /\ balive' = FALSE /\ chan' = <<>> /\ gone # {} /\ bthreads # {}
    BY DEF BThreadBroken
  <1>2. bhandler = "done"
    BY <1>1 DEF TableInv
  <1>3. TypeOK'
    <2>1. balive' \in BOOLEAN
      BY <1>1
    <2>2. chan' \in Seq(Clients \union {Greeting})
      BY <1>1
    <2> QED
      BY <1>1, <2>1, <2>2 DEF TypeOK
  <1>4. SignalInv' /\ ServerInv' /\ ClientsInv' /\ ThreadInv'
    BY <1>1, <1>2 DEF SignalInv, ServerInv, ClientsInv, ThreadInv
  <1>5. NoStaleThread' /\ ChannelInv' /\ TableInv' /\ SameTable'
    BY <1>1 DEF NoStaleThread, ChannelInv, TableInv, SameTable, Early, Elements
  <1> QED
    BY <1>3, <1>4, <1>5

LEMMA NextInv ==
    ASSUME Inv, [Next]_vars
    PROVE  Inv'
  <1>1. ASSUME NEW c \in Clients, ClientStep(c) PROVE Inv'
    BY <1>1, ConnectInv, ClientInv DEF ClientStep
  <1>2. CASE Operator \/ ServerMain
    BY <1>2, DeathInv, ServerControlInv, GreetInv, AcceptInv, StoreInv, SpawnInv,
       HandlerSendInv DEF ServerMain
  <1>3. CASE ServerThread
    BY <1>3, ThreadLoadInv, DeathInv DEF ServerThread
  <1>4. CASE BackupMain \/ BThreadBroken
    BY <1>4, BackupControlInv, BGreetInv, BRecvInv, BThreadsInv, BThreadBrokenInv
       DEF BackupMain
  <1>5. CASE UNCHANGED vars
    <2> USE DEF Inv
    <2>1. TypeOK' /\ SignalInv'
      BY <1>5 DEF TypeOK, SignalInv
    <2>2. ServerInv' /\ ClientsInv' /\ ThreadInv' /\ NoStaleThread'
      BY <1>5 DEF ServerInv, ClientsInv, ThreadInv, NoStaleThread
    <2>3. ChannelInv' /\ TableInv' /\ SameTable'
      BY <1>5 DEF ChannelInv, TableInv, SameTable, Early, Elements
    <2> QED
      BY <2>1, <2>2, <2>3
  <1> QED
    BY <1>1, <1>2, <1>3, <1>4, <1>5 DEF Next

\* The inductive invariant. What the processes hold does not imply NoGap or SameTable
\* after a further step: they depend on what is still in the socket between the two
\* servers and on where the backup was interrupted (server.c:76-91, backserver.c:99-112).
THEOREM Invariance == Spec => []Inv
  <1>1. Inv /\ [Next]_vars => Inv'
    BY NextInv
  <1> QED
    BY InitInv, <1>1, PTL DEF Spec

LEMMA NoGapFollows ==
    ASSUME Inv
    PROVE  NoGap
  <1> SUFFICES ASSUME gone = {}, ~Early, NEW n \in 1..Len(cfd)
               PROVE  IsOpen(cfd[n])
    BY DEF NoGap
  <1> USE DEF Inv
  <1>1. CASE spc # "exited"
    BY <1>1 DEF ServerInv, IsOpen
  <1>2. CASE spc = "exited"
    <2>1. balive /\ sent = Len(cfd) /\ up = "listening" /\ Len(cfd) \in Nat /\ n <= sent
      BY <1>2 DEF SignalInv, ServerInv, TypeOK
    <2>2. CASE bpc # "loop"
      <3>1. chan[n + 1] = cfd[n] /\ n + 1 \in 1..Len(chan)
        BY <2>1, <2>2 DEF ChannelInv
      <3> QED
        BY <2>1, <3>1 DEF IsOpen, Elements
    <2>3. CASE bpc = "loop" /\ n \in 1..Len(csfd)
      <3>1. csfd[n] = cfd[n]
        BY <2>1, <2>3 DEF SameTable
      <3> QED
        BY <2>1, <2>3, <3>1 DEF IsOpen, Elements
    <2>4. CASE bpc = "loop" /\ n \notin 1..Len(csfd)
      <3>1. Len(csfd) \in Nat /\ Len(chan) \in Nat /\ n > Len(csfd)
        BY <2>4 DEF TypeOK
      <3>2. Len(csfd) + Len(chan) = sent
        BY <2>1, <2>4, <3>1 DEF ChannelInv
      <3>3. n - Len(csfd) \in 1..Len(chan) /\ Len(csfd) + (n - Len(csfd)) = n
        BY <2>1, <3>1, <3>2
      <3>4. chan[n - Len(csfd)] = cfd[n]
        BY <2>1, <2>4, <3>3 DEF ChannelInv
      <3> QED
        BY <2>1, <3>3, <3>4 DEF IsOpen, Elements
    <2> QED
      BY <2>2, <2>3, <2>4
  <1> QED
    BY <1>1, <1>2

LEMMA BackupAfterServerFollows ==
    ASSUME Inv
    PROVE  BackupAfterServer
  <1> SUFFICES ASSUME bthreads # {}, Len(cfd) < MaxClients PROVE spc = "exited"
    BY DEF BackupAfterServer
  <1> USE DEF Inv
  <1>1. PICK n \in 1..Len(csfd) : csfd[n] # Zero
    BY DEF TableInv, Elements
  <1>2. n <= Len(cfd) /\ n <= sent
    BY <1>1 DEF SameTable
  <1>3. CASE Early
    <2>1. csfd # <<>>
      OBVIOUS
    <2> QED
      BY <1>3, <2>1 DEF TableInv
  <1>4. CASE ~Early
    <2>1. Len(csfd) = MaxClients
      BY <1>4 DEF TableInv
    <2>2. Len(csfd) > sent
      BY <2>1, ValueFacts DEF TypeOK
    <2> QED
      BY <2>2 DEF TableInv
  <1> QED
    BY <1>3, <1>4

\* For every set of clients and every table size that holds them: as long as no client
\* ends, a recorded connection is held by someone through the whole handover; the
\* backup's table is the server's, in order; and the backup answers nobody while the
\* server still may, unless its table is full (server.c:76-91, backserver.c:99-112).
THEOREM HandoverIsSafe == Spec => []SafeHandover
  <1>1. Inv => SafeHandover
    BY NoGapFollows, BackupAfterServerFollows DEF Inv, SafeHandover
  <1> QED
    BY <1>1, Invariance, PTL

\* For every set of clients: however late a thread loads its argument, it does not get
\* a client accepted before its own (server.c:59,141-146).
THEOREM ThreadsAreNotStale == Spec => []NoStaleThread
  <1>1. Inv => NoStaleThread
    BY DEF Inv
  <1> QED
    BY <1>1, Invariance, PTL
=============================================================================
