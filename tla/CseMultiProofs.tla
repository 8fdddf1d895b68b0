--------------------------- MODULE CseMultiProofs ---------------------------
EXTENDS CseMulti, SequenceTheorems, TLAPS

LEMMA RankFacts ==
    /\ Rank["c"] = 1 /\ Rank["s"] = 2 /\ Rank["e"] = 3
    /\ Overflow["c"] = "s" /\ Overflow["s"] = "e"
    /\ TierOf(1) = "c" /\ TierOf(2) = "s" /\ TierOf(3) = "e"
  <1>1. Rank["c"] = 1 /\ Rank["s"] = 2 /\ Rank["e"] = 3
    BY DEF Rank
  <1>2. Overflow["c"] = "s" /\ Overflow["s"] = "e"
    BY DEF Overflow
  <1>3. TierOf(1) = "c" /\ TierOf(2) = "s" /\ TierOf(3) = "e"
    BY <1>1 DEF TierOf, Tiers
  <1> QED BY <1>1, <1>2, <1>3

TypeInv == TypeOK /\ SentNumber

\* every action, for the steps that handle Next by cases
USE ClientsAssumption, CapacityAssumption, BufferAssumption,
    RequestsAssumption, SharedSlotAssumption

(***************************************************************************)
(* Elements of queues.                                                      *)
(***************************************************************************)
LEMMA ElementsAppend ==
    ASSUME NEW S, NEW q \in Seq(S), NEW x \in S
    PROVE  Elements(Append(q, x)) = Elements(q) \union {x}
  BY DEF Elements

LEMMA ElementsTail ==
    ASSUME NEW S, NEW q \in Seq(S), q # <<>>
    PROVE  /\ Elements(q) = Elements(Tail(q)) \union {Head(q)}
           /\ \A i \in 1..Len(Tail(q)) : i + 1 \in 1..Len(q) /\ Tail(q)[i] = q[i + 1]
           /\ 1 \in 1..Len(q) /\ Head(q) = q[1] /\ Head(q) \in S
  <1>1. /\ 1 \in 1..Len(q) /\ Head(q) = q[1] /\ Head(q) \in S
        /\ \A i \in 1..Len(Tail(q)) : i + 1 \in 1..Len(q) /\ Tail(q)[i] = q[i + 1]
        /\ \A i \in 2..Len(q) : i - 1 \in 1..Len(Tail(q)) /\ Tail(q)[i - 1] = q[i]
    OBVIOUS
  <1>2. ASSUME NEW x \in Elements(q) PROVE x \in Elements(Tail(q)) \union {Head(q)}
    <2>1. PICK i \in 1..Len(q) : x = q[i]
      BY <1>2 DEF Elements
    <2>2. i = 1 \/ i \in 2..Len(q)
      OBVIOUS
    <2> QED
      BY <1>1, <2>1, <2>2 DEF Elements
  <1>3. ASSUME NEW x \in Elements(Tail(q)) \union {Head(q)} PROVE x \in Elements(q)
    BY <1>1, <1>3 DEF Elements
  <1> QED
    BY <1>1, <1>2, <1>3

LEMMA CellType == \A src \in Sources : Cell(src) \in Sources
  BY DEF Cell, Sources

LEMMA DieType ==
    ASSUME TypeOK, NEW p \in Procs, Die(p)
    PROVE  /\ alive' \in [Procs -> BOOLEAN]
           /\ chan' \in [Links -> Seq(Fds)]
           /\ open' \in [Procs -> SUBSET Clients]
  BY DEF TypeOK, Die

LEMMA ReceivedType ==
    ASSUME TypeOK, NEW l \in Links
    PROVE  Received(l) \in Fds
  BY DEF TypeOK, Received, Fds

LEMMA HeldType ==
    ASSUME TypeOK, NEW t \in Tiers, at[t] \in Sources
    PROVE  Held(t) \in Fds
  BY CellType DEF TypeOK, Held

LEMMA TcDiesType ==
    ASSUME TypeOK, TcDies
    PROVE  TypeOK'
  <1>1. "tc" \in Procs /\ <<>> \in Seq(Clients) /\ Junk \in Fds
    BY DEF Procs, Fds
  <1>2. Die("tc")
    BY DEF TcDies
  <1> QED
    BY <1>1, <1>2, DieType DEF TypeOK, TcDies, cliVars, tierVars

LEMMA TierDiesType ==
    ASSUME TypeOK, NEW t \in Tiers, TierDies(t)
    PROVE  TypeOK'
  <1>1. t \in Procs /\ Junk \in Fds
    BY DEF Procs, Fds
  <1>2. Die(t)
    BY DEF TierDies
  <1>3. threads' \in [Tiers -> Seq(Threads)]
    <2> DEFINE th == [i \in 1..Len(threads[t]) |-> [threads[t][i] EXCEPT !.fd = Unread]]
    <2>0. \A x \in Threads : [x EXCEPT !.fd = Unread] \in Threads
      BY DEF Threads
    <2>1. \A i \in 1..Len(threads[t]) : th[i] \in Threads
      BY <2>0 DEF TypeOK
    <2>2. th \in Seq(Threads)
      BY <2>1 DEF TypeOK
    <2> HIDE DEF th
    <2>3. threads' = [threads EXCEPT ![t] = th]
      BY DEF TierDies, th
    <2> QED
      BY <2>2, <2>3 DEF TypeOK
  <1> QED
    BY <1>1, <1>2, <1>3, DieType DEF TypeOK, TierDies, cliVars, tcVars

(***************************************************************************)
(* One lemma per process: its steps preserve TypeInv.                       *)
(***************************************************************************)
LEMMA ClientType ==
    ASSUME TypeInv, NEW c \in Clients, ClientStep(c)
    PROVE  TypeInv'
  <1>1. ASSUME NEW n \in Requests, ClientConnect(c, n)
        PROVE  TypeInv'
    BY <1>1 DEF TypeInv, TypeOK, SentNumber, ClientConnect, tierVars, Services
  <1>2. CASE ClientRefused(c) \/ ClientQuit(c) \/ ClientHangup(c)
    BY <1>2 DEF TypeInv, TypeOK, SentNumber, ClientRefused, ClientQuit,
                ClientHangup, tierVars, tcVars
  <1>3. CASE ClientSend(c)
    BY <1>3 DEF TypeInv, TypeOK, SentNumber, ClientSend, tierVars, tcVars, Services
  <1> QED
    BY <1>1, <1>2, <1>3 DEF ClientStep

LEMMA TcType ==
    ASSUME TypeInv, TcStep
    PROVE  TypeInv'
  <1>1. CASE TcAccept
    BY <1>1 DEF TypeInv, TypeOK, SentNumber, TcAccept, cliVars, tierVars, Fds, Procs
  <1>2. CASE TcRecv
    BY <1>2 DEF TypeInv, TypeOK, SentNumber, TcRecv, StaleOr, cliVars, tierVars
  <1>3. CASE TcIgnore \/ TcSignal
    BY <1>3 DEF TypeInv, TypeOK, SentNumber, TcIgnore, TcSignal, cliVars, tierVars
  <1>4. CASE TcDispatch
    <2>1. TierOf(tcsrv) \in Tiers
      BY <1>4, RankFacts DEF TypeInv, TypeOK, TcDispatch, Services, Tiers
    <2>2. <<"tc", TierOf(tcsrv)>> \in Links
      BY <2>1 DEF Links, Tiers
    <2>3. chan' \in [Links -> Seq(Fds)]
      BY <1>4, <2>2 DEF TypeInv, TypeOK, TcDispatch, send_file_descriptor
    <2> QED
      BY <1>4, <2>3 DEF TypeInv, TypeOK, SentNumber, TcDispatch, cliVars, tierVars
  <1>5. CASE TcBroken \/ TcExit
    <2>1. TcDies
      BY <1>5 DEF TcBroken, TcExit
    <2> QED
      BY <2>1, TcDiesType DEF TypeInv, SentNumber, TcDies, cliVars
  <1> QED
    BY <1>1, <1>2, <1>3, <1>4, <1>5 DEF TcStep

LEMMA TierType ==
    ASSUME TypeInv, NEW t \in Tiers, TierStep(t) \/ ThreadStep(t)
    PROVE  TypeInv'
  <1> USE DEF TypeInv
  <1>1. ASSUME NEW src \in Sources, TierRecv(t, src)
        PROVE  TypeInv'
    <2>1. /\ <<src, t>> \in Links
          /\ t \in Procs
          /\ Cell(src) \in Sources
          /\ Received(<<src, t>>) \in Fds
      BY <1>1, CellType, ReceivedType DEF TierRecv, Selected, Procs
    <2>2. chan' \in [Links -> Seq(Fds)]
      BY <1>1, <2>1 DEF TypeOK, TierRecv
    <2>3. slot' \in [Tiers -> [Sources -> Fds]] /\ open' \in [Procs -> SUBSET Clients]
      BY <1>1, <2>1 DEF TypeOK, TierRecv, Fds
    <2> QED
      BY <1>1, <2>2, <2>3 DEF TypeOK, SentNumber, TierRecv, cliVars, tcVars
  <1>2. CASE TierSpawn(t)
    <2>1. [own |-> Held(t), cell |-> Cell(at[t]), fd |-> Unread] \in Threads
      BY <1>2, CellType, HeldType DEF TierSpawn, Threads
    <2>2. threads' \in [Tiers -> Seq(Threads)]
      BY <1>2, <2>1 DEF TypeOK, TierSpawn
    <2> QED
      BY <1>2, <2>2 DEF TypeOK, SentNumber, TierSpawn, cliVars, tcVars
  <1>3. CASE TierForward(t)
    <2>1. <<t, Overflow[t]>> \in Links
      BY <1>3, RankFacts DEF TierForward, Tiers, Links
    <2>2. chan' \in [Links -> Seq(Fds)]
      BY <1>3, <2>1, HeldType DEF TypeOK, TierForward, send_file_descriptor
    <2> QED
      BY <1>3, <2>2 DEF TypeOK, SentNumber, TierForward, cliVars, tcVars
  <1>4. CASE TierBroken(t)
    <2>1. TierDies(t)
      BY <1>4 DEF TierBroken
    <2> QED
      BY <2>1, TierDiesType DEF SentNumber, TierDies, cliVars
  <1>5. ASSUME NEW i \in 1..clients_no(t), ThreadLoad(t, i)
        PROVE  TypeInv'
    <2> DEFINE x == threads[t][i]
    <2>1. x \in Threads
      BY DEF TypeOK, clients_no
    <2>2. slot[t][x.cell] \in Fds
      BY <2>1 DEF TypeOK, Threads
    <2>3. [x EXCEPT !.fd = slot[t][x.cell]] \in Threads
      BY <2>1, <2>2 DEF Threads
    <2>4. threads' \in [Tiers -> Seq(Threads)]
      BY <1>5, <2>3 DEF TypeOK, ThreadLoad, clients_no
    <2> QED
      BY <1>5, <2>4 DEF TypeOK, SentNumber, ThreadLoad, cliVars, tcVars
  <1>6. ASSUME NEW i \in 1..clients_no(t), ThreadBroken(t, i)
        PROVE  TypeInv'
    <2>1. TierDies(t)
      BY <1>6 DEF ThreadBroken
    <2> QED
      BY <2>1, TierDiesType DEF SentNumber, TierDies, cliVars
  <1> QED
    BY <1>1, <1>2, <1>3, <1>4, <1>5, <1>6 DEF TierStep, ThreadStep

LEMMA EType ==
    ASSUME TypeInv, EKill \/ EExit
    PROVE  TypeInv'
  <1>1. "e" \in Tiers /\ "tc" \in Procs
    BY DEF Tiers, Procs
  <1>2. CASE EKill
    BY <1>1, <1>2 DEF TypeInv, TypeOK, SentNumber, EKill, cliVars
  <1>3. CASE EExit
    <2>1. TierDies("e")
      BY <1>3 DEF EExit
    <2> QED
      BY <1>1, <2>1, TierDiesType DEF TypeInv, SentNumber, TierDies, cliVars
  <1> QED
    BY <1>2, <1>3

LEMMA TypeStep == TypeInv /\ [Next]_vars => TypeInv'
  <1> SUFFICES ASSUME TypeInv, [Next]_vars PROVE TypeInv'
    OBVIOUS
  <1>1. CASE Next
    BY <1>1, ClientType, TcType, TierType, EType DEF Next
  <1>2. CASE UNCHANGED vars
    BY <1>2 DEF TypeInv, TypeOK, SentNumber, vars, cliVars, tcVars, tierVars
  <1> QED
    BY <1>1, <1>2

LEMMA TypeInit == Init => TypeInv
  <1> SUFFICES ASSUME Init PROVE TypeInv
    OBVIOUS
  <1>1. /\ backlog \in Seq(Clients)
        /\ chan \in [Links -> Seq(Fds)]
        /\ threads \in [Tiers -> Seq(Threads)]
    BY DEF Init
  <1>2. /\ tcfd \in Fds
        /\ slot \in [Tiers -> [Sources -> Fds]]
        /\ open \in [Procs -> SUBSET Clients]
        /\ gone \subseteq Clients
    BY DEF Init, Fds
  <1>3. /\ req \in [Clients -> Services \union {NoArg}]
        /\ class \in [Clients -> Services]
        /\ tcsrv \in Services \union {NoArg}
    BY DEF Init, Services
  <1>4. SentNumber
    BY DEF Init, SentNumber
  <1> QED
    BY <1>1, <1>2, <1>3, <1>4 DEF Init, TypeInv, TypeOK

\* The variables of the four servers and their clients keep their types: in
\* particular the number the counter switches on (tc.c:126-132) is always one it
\* has read, and every descriptor in flight, in a slot or in a thread is a
\* client's connection or descriptor 0.
THEOREM TypeCorrect == Spec => []TypeOK
  <1>1. Init => TypeInv
    BY TypeInit
  <1>2. TypeInv /\ [Next]_vars => TypeInv'
    BY TypeStep
  <1>3. TypeInv => TypeOK
    BY DEF TypeInv
  <1> QED
    BY <1>1, <1>2, <1>3, PTL DEF Spec

-----------------------------------------------------------------------------
(***************************************************************************)
(* Tickets are never taken back: threads[t] only grows, and the owner of a  *)
(* ticket stays. So a full server stays full, and a client that was placed  *)
(* by the overflow rule stays rightly placed.                               *)
(***************************************************************************)
Kept == \A t \in Tiers :
            /\ clients_no(t)' >= clients_no(t)
            /\ \A i \in 1..clients_no(t) : threads'[t][i].own = threads[t][i].own

LEMMA TierDiesOwners ==
    ASSUME TypeOK, NEW t \in Tiers, TierDies(t)
    PROVE  \A u \in Tiers :
             /\ clients_no(u)' = clients_no(u)
             /\ \A i \in 1..clients_no(u) : threads'[u][i].own = threads[u][i].own
  <1> SUFFICES ASSUME NEW u \in Tiers
               PROVE  /\ clients_no(u)' = clients_no(u)
                      /\ \A i \in 1..clients_no(u) :
                            threads'[u][i].own = threads[u][i].own
    OBVIOUS
  <1> DEFINE th == [i \in 1..Len(threads[t]) |-> [threads[t][i] EXCEPT !.fd = Unread]]
  <1>1. threads' = [threads EXCEPT ![t] = th]
    BY DEF TierDies
  <1>2. Len(threads[t]) \in Nat /\ \A i \in 1..Len(threads[t]) : threads[t][i] \in Threads
    BY DEF TypeOK
  <1>3. Len(th) = Len(threads[t])
    BY <1>2
  <1>4. \A i \in 1..Len(threads[t]) : th[i].own = threads[t][i].own
    BY <1>2 DEF Threads
  <1> HIDE DEF th
  <1> QED
    BY <1>1, <1>3, <1>4 DEF TypeOK, clients_no

LEMMA ThreadLoadOwners ==
    ASSUME TypeOK, NEW t \in Tiers, NEW k \in 1..clients_no(t), ThreadLoad(t, k)
    PROVE  \A u \in Tiers :
             /\ clients_no(u)' = clients_no(u)
             /\ \A i \in 1..clients_no(u) : threads'[u][i].own = threads[u][i].own
  <1>1. \A u \in Tiers : Len(threads[u]) \in Nat
                         /\ \A i \in 1..Len(threads[u]) : threads[u][i] \in Threads
    BY DEF TypeOK
  <1> QED
    BY <1>1 DEF TypeOK, ThreadLoad, clients_no, Threads

LEMMA SpawnOwners ==
    ASSUME TypeOK, NEW t \in Tiers, TierSpawn(t)
    PROVE  /\ \A u \in Tiers \ {t} : threads'[u] = threads[u]
           /\ clients_no(t)' = clients_no(t) + 1
           /\ threads'[t][clients_no(t) + 1].own = Held(t)
           /\ \A i \in 1..clients_no(t) : threads'[t][i] = threads[t][i]
  BY DEF TypeOK, TierSpawn, clients_no

\* The steps that change no owner and create no thread: all but TierSpawn.
SameOwners == \A u \in Tiers :
                 /\ clients_no(u)' = clients_no(u)
                 /\ \A i \in 1..clients_no(u) : threads'[u][i].own = threads[u][i].own

LEMMA OwnersStep ==
    ASSUME TypeInv, [Next]_vars
    PROVE  SameOwners \/ \E t \in Tiers : TierSpawn(t)
  <1>1. ASSUME UNCHANGED threads PROVE SameOwners
    BY <1>1 DEF SameOwners, clients_no
  <1>2. ASSUME NEW c \in Clients, ClientStep(c) PROVE UNCHANGED threads
    BY <1>2 DEF ClientStep, ClientConnect, ClientRefused, ClientSend, ClientQuit,
                ClientHangup, tierVars
  <1>3. ASSUME TcStep PROVE UNCHANGED threads
    BY <1>3 DEF TcStep, TcAccept, TcRecv, TcIgnore, TcDispatch, TcBroken, TcSignal,
                TcExit, TcDies, tierVars
  <1>4. ASSUME NEW t \in Tiers, TierStep(t), ~TierSpawn(t) PROVE SameOwners
    <2>1. CASE TierBroken(t)
      BY <2>1, TierDiesOwners DEF TierBroken, SameOwners, TypeInv
    <2>2. CASE ~TierBroken(t)
      BY <1>1, <1>4, <2>2 DEF TierStep, TierRecv, TierForward
    <2> QED
      BY <2>1, <2>2
  <1>5. ASSUME NEW t \in Tiers, ThreadStep(t) PROVE SameOwners
    BY <1>5, TierDiesOwners, ThreadLoadOwners
       DEF ThreadStep, ThreadBroken, SameOwners, TypeInv
  <1>6. ASSUME EKill PROVE UNCHANGED threads
    BY <1>6 DEF EKill
  <1>7. ASSUME EExit PROVE SameOwners
    BY <1>7, TierDiesOwners DEF EExit, SameOwners, TypeInv, Tiers
  <1>8. CASE UNCHANGED vars
    BY <1>1, <1>8 DEF vars, tierVars
  <1> QED
    BY <1>1, <1>2, <1>3, <1>4, <1>5, <1>6, <1>7, <1>8 DEF Next

LEMMA KeptStep ==
    ASSUME TypeInv, [Next]_vars
    PROVE  Kept
  <1>0. \A t \in Tiers : clients_no(t) \in Nat
    BY DEF TypeInv, TypeOK, clients_no
  <1>1. CASE SameOwners
    BY <1>0, <1>1 DEF SameOwners, Kept
  <1>2. ASSUME NEW t \in Tiers, TierSpawn(t) PROVE Kept
    BY <1>0, <1>2, SpawnOwners DEF Kept, clients_no, TypeInv
  <1> QED
    BY <1>1, <1>2, OwnersStep

\* The class of a client changes only while it is 0.
LEMMA ClassStep ==
    ASSUME TypeInv, ClassOnce, [Next]_vars, NEW c \in Clients, class[c] # 0
    PROVE  class'[c] = class[c]
  <1>1. CASE TcRecv
    BY <1>1 DEF TcRecv, ClassOnce, Unclassified, TypeInv, TypeOK
  <1>2. CASE TcStep /\ ~TcRecv
    BY <1>2 DEF TcStep, TcAccept, TcIgnore, TcDispatch, TcBroken, TcSignal, TcExit, TcDies
  <1>3. ASSUME NEW d \in Clients, ClientStep(d) PROVE UNCHANGED class
    BY <1>3 DEF ClientStep, ClientConnect, ClientRefused, ClientSend, ClientQuit,
                ClientHangup
  <1>4. ASSUME NEW t \in Tiers, TierStep(t) \/ ThreadStep(t) PROVE UNCHANGED class
    BY <1>4 DEF TierStep, ThreadStep, TierRecv, TierSpawn, TierForward, TierBroken,
                TierDies, ThreadLoad, ThreadBroken
  <1>5. ASSUME EKill \/ EExit PROVE UNCHANGED class
    BY <1>5 DEF EKill, EExit, TierDies
  <1>6. CASE UNCHANGED vars
    BY <1>6 DEF vars
  <1> QED
    BY <1>1, <1>2, <1>3, <1>4, <1>5, <1>6 DEF Next

LEMMA RankType == \A t \in Tiers : Rank[t] \in 1..3
  BY RankFacts DEF Tiers

LEMMA PlacedStable ==
    ASSUME TypeInv, ClassOnce, [Next]_vars,
           NEW c \in Clients, NEW t \in Tiers, Placed(c, t)
    PROVE  Placed(c, t)'
  <1>1. class[c] # 0 /\ class'[c] = class[c]
    BY ClassStep, RankType DEF Placed
  <1>2. \A u \in Tiers : Full(u) => Full(u)'
    BY KeptStep DEF Kept, Full, TypeInv, TypeOK, clients_no
  <1> QED
    BY <1>1, <1>2 DEF Placed

-----------------------------------------------------------------------------
(***************************************************************************)
(* ClassOnce: the counter reads the class of a client once, before any      *)
(* class server sees the client.                                            *)
(***************************************************************************)
\* TcAccept needs that no client is twice on the backlog; the rest of OnePlace
\* is proved further down.
LEMMA BacklogStep ==
    ASSUME TypeInv, ClassOnce, OneOnBacklog, [Next]_vars
    PROVE  OneOnBacklog'
  <1>1. ASSUME NEW c \in Clients, NEW n \in Requests, ClientConnect(c, n)
        PROVE  OneOnBacklog'
    <2>1. c \notin Elements(backlog)
      BY <1>1 DEF ClientConnect, ClassOnce, OnBacklog
    <2>2. backlog' = Append(backlog, c) /\ backlog \in Seq(Clients)
      BY <1>1 DEF ClientConnect, TypeInv, TypeOK
    <2>3. \A i \in 1..Len(backlog) : backlog[i] # c
      BY <2>1 DEF Elements
    <2> QED
      BY <2>2, <2>3 DEF OneOnBacklog
  <1>2. CASE TcAccept
    BY <1>2 DEF TcAccept, OneOnBacklog, TypeInv, TypeOK
  <1>3. CASE TcDies
    BY <1>3 DEF TcDies, OneOnBacklog
  <1>4. CASE UNCHANGED backlog
    BY <1>4 DEF OneOnBacklog
  <1>5. ASSUME TcStep, ~TcAccept PROVE TcDies \/ UNCHANGED backlog
    BY <1>5 DEF TcStep, TcRecv, TcIgnore, TcDispatch, TcBroken, TcSignal, TcExit
  <1>6. ASSUME NEW c \in Clients, ClientRefused(c) \/ ClientSend(c) \/ ClientQuit(c)
                                  \/ ClientHangup(c)
        PROVE  UNCHANGED backlog
    BY <1>6 DEF ClientRefused, ClientSend, ClientQuit, ClientHangup, tcVars
  <1>7. ASSUME NEW t \in Tiers, TierStep(t) \/ ThreadStep(t) PROVE UNCHANGED backlog
    BY <1>7 DEF TierStep, ThreadStep, TierRecv, TierSpawn, TierForward, TierBroken,
                TierDies, ThreadLoad, ThreadBroken, tcVars
  <1>8. ASSUME EKill \/ EExit \/ UNCHANGED vars PROVE UNCHANGED backlog
    BY <1>8 DEF EKill, EExit, TierDies, tcVars, vars
  <1> QED
    BY <1>1, <1>2, <1>3, <1>4, <1>5, <1>6, <1>7, <1>8 DEF Next, ClientStep

LEMMA ClassOnceStep ==
    ASSUME TypeInv, ClassOnce, OneOnBacklog, [Next]_vars
    PROVE  ClassOnce'
  <1> USE DEF ClassOnce, OnBacklog, AtCounter, Unclassified
  <1>t. backlog \in Seq(Clients) /\ cli \in [Clients -> {"idle", "connected", "sent"}]
        /\ class \in [Clients -> Services] /\ (tcpc \in {"recv", "dispatch"} => tcfd \in Clients)
    BY DEF TypeInv, TypeOK
  <1>1. ASSUME NEW c \in Clients, NEW n \in Requests, ClientConnect(c, n)
        PROVE  ClassOnce'
    <2>1. Elements(backlog') = Elements(backlog) \union {c}
      BY <1>1, <1>t DEF ClientConnect, Elements
    <2> QED
      BY <1>1, <1>t, <2>1 DEF ClientConnect
  <1>2. CASE TcAccept
    <2>1. Elements(backlog) = Elements(backlog') \union {Head(backlog)}
      BY <1>2, <1>t, ElementsTail DEF TcAccept
    <2>2. Head(backlog) \notin Elements(backlog') /\ Head(backlog) \in Clients
      BY <1>2, <1>t DEF TcAccept, Elements, OneOnBacklog
    <2>3. UNCHANGED <<cli, class>>
      BY <1>2 DEF TcAccept, cliVars
    <2> QED
      BY <1>2, <2>1, <2>2, <2>3 DEF TcAccept
  <1>3. CASE TcRecv
    <2>1. UNCHANGED <<cli, backlog, tcfd>> /\ tcpc = "recv" /\ tcpc' = "dispatch"
          /\ class' = [class EXCEPT ![tcfd] = tcsrv']
      BY <1>3 DEF TcRecv, cliVars
    <2>2. tcfd \in Clients /\ ~OnBacklog(tcfd) /\ cli[tcfd] # "idle"
      BY <2>1, <1>t
    <2> QED
      BY <1>t, <2>1, <2>2
  <1>4. CASE TcDies
    BY <1>4 DEF TcDies, cliVars, Elements
  <1>5. CASE UNCHANGED <<cli, class, backlog, tcpc, tcfd, tcsrv>>
    BY <1>5
  <1>6. CASE TcIgnore \/ TcDispatch \/ TcSignal
    BY <1>6 DEF TcIgnore, TcDispatch, TcSignal, cliVars
  <1>7. ASSUME NEW c \in Clients, ClientSend(c)
        PROVE  ClassOnce'
    BY <1>7, <1>t DEF ClientSend, tcVars
  <1>8. ASSUME NEW c \in Clients, ClientRefused(c) \/ ClientQuit(c) \/ ClientHangup(c)
        PROVE  UNCHANGED <<cli, class, backlog, tcpc, tcfd, tcsrv>>
    BY <1>8 DEF ClientRefused, ClientQuit, ClientHangup, tcVars
  <1>9. ASSUME NEW t \in Tiers, TierStep(t) \/ ThreadStep(t)
        PROVE  UNCHANGED <<cli, class, backlog, tcpc, tcfd, tcsrv>>
    BY <1>9 DEF TierStep, ThreadStep, TierRecv, TierSpawn, TierForward, TierBroken,
                TierDies, ThreadLoad, ThreadBroken, tcVars, cliVars
  <1>10. ASSUME EKill \/ EExit \/ UNCHANGED vars
         PROVE  UNCHANGED <<cli, class, backlog, tcpc, tcfd, tcsrv>>
    BY <1>10 DEF EKill, EExit, TierDies, tcVars, cliVars, vars
  <1>11. ASSUME TcStep PROVE TcAccept \/ TcRecv \/ TcDies \/ TcIgnore \/ TcDispatch \/ TcSignal
    BY <1>11 DEF TcStep, TcBroken, TcExit
  <1> HIDE DEF ClassOnce
  <1> QED
    BY <1>1, <1>2, <1>3, <1>4, <1>5, <1>6, <1>7, <1>8, <1>9, <1>10, <1>11
       DEF Next, ClientStep

-----------------------------------------------------------------------------
(***************************************************************************)
(* OverflowOnlyWhenFull, split by where a client in care of a server is.    *)
(***************************************************************************)
PlacedFlying == \A l \in Links : \A i \in 1..Len(chan[l]) :
                    chan[l][i] # Junk => Placed(chan[l][i], l[2])
PlacedHeld == \A t \in Tiers :
                    at[t] \in Sources /\ Held(t) # Junk => Placed(Held(t), t)
PlacedSold == \A t \in Tiers : \A i \in 1..clients_no(t) :
                    threads[t][i].own # Junk => Placed(threads[t][i].own, t)

LEMMA LinkEnds == \A l \in Links : l[1] \in Procs /\ l[2] \in Tiers /\ l = <<l[1], l[2]>>
  BY DEF Links, Procs, Tiers

LEMMA OverflowParts == OverflowOnlyWhenFull <=> PlacedFlying /\ PlacedHeld /\ PlacedSold
  <1>1. \A t \in Tiers : \A x :
          x \in InCare(t) <=> \/ \E l \in Links : l[2] = t /\ \E i \in 1..Len(chan[l]) : x = chan[l][i]
                              \/ at[t] \in Sources /\ x = Held(t)
                              \/ \E i \in 1..clients_no(t) : x = threads[t][i].own
    BY DEF InCare, InFlight, HeldBy, Sold, Elements
  <1>2. ASSUME OverflowOnlyWhenFull PROVE PlacedFlying /\ PlacedHeld /\ PlacedSold
    BY <1>1, <1>2, LinkEnds DEF OverflowOnlyWhenFull, PlacedFlying, PlacedHeld, PlacedSold
  <1>3. ASSUME PlacedFlying, PlacedHeld, PlacedSold PROVE OverflowOnlyWhenFull
    BY <1>1, <1>3 DEF OverflowOnlyWhenFull, PlacedFlying, PlacedHeld, PlacedSold
  <1> QED
    BY <1>2, <1>3

\* What a step may put on a connection: what was there, what the counter holds,
\* or what the block of a full server below holds.
LEMMA FlyingStep ==
    ASSUME TypeInv, [Next]_vars, NEW l \in Links, NEW j \in 1..Len(chan'[l])
    PROVE  \/ \E i \in 1..Len(chan[l]) : chan'[l][j] = chan[l][i]
           \/ /\ TcDispatch /\ l = <<"tc", TierOf(tcsrv)>>
              /\ chan'[l][j] = tcfd
           \/ \E t \in Tiers : /\ TierForward(t) /\ l = <<t, Overflow[t]>>
                               /\ chan'[l][j] = Held(t)
  <1> DEFINE Was == \E i \in 1..Len(chan[l]) : chan'[l][j] = chan[l][i]
  <1>t. chan \in [Links -> Seq(Fds)]
    BY DEF TypeInv, TypeOK
  <1>1. ASSUME UNCHANGED chan PROVE Was
    BY <1>1
  <1>2. ASSUME NEW p \in Procs, Die(p) PROVE Was
    BY <1>2, <1>t DEF Die
  <1>3. ASSUME NEW t \in Tiers, NEW src \in Sources, TierRecv(t, src) PROVE Was
    <2>1. <<src, t>> \in Links
          /\ chan' = [chan EXCEPT ![<<src, t>>] = IF @ = <<>> THEN @ ELSE Tail(@)]
      BY <1>3 DEF TierRecv, Selected
    <2>2. CASE l = <<src, t>> /\ chan[l] # <<>>
      BY <1>t, <2>1, <2>2, ElementsTail
    <2>3. CASE l # <<src, t>> \/ chan[l] = <<>>
      BY <1>t, <2>1, <2>3
    <2> QED
      BY <2>2, <2>3
  <1>4. ASSUME NEW m \in Links, NEW x \in Fds, chan' = [chan EXCEPT ![m] = Append(@, x)]
        PROVE  Was \/ (l = m /\ chan'[l][j] = x)
    BY <1>t, <1>4
  <1>5. CASE TcDispatch
    <2>1. TierOf(tcsrv) \in Tiers /\ tcfd \in Fds
      BY <1>5, RankFacts DEF TypeInv, TypeOK, TcDispatch, Services, Tiers
    <2>2. <<"tc", TierOf(tcsrv)>> \in Links
      BY <2>1 DEF Links, Tiers
    <2>3. chan' = [chan EXCEPT ![<<"tc", TierOf(tcsrv)>>] = Append(@, tcfd)]
      BY <1>5 DEF TcDispatch, send_file_descriptor
    <2> HIDE DEF Was
    <2>4. Was \/ (l = <<"tc", TierOf(tcsrv)>> /\ chan'[l][j] = tcfd)
      BY <1>4, <2>1, <2>2, <2>3
    <2> QED
      BY <1>5, <2>4 DEF Was
  <1>6. ASSUME NEW t \in Tiers, TierForward(t)
        PROVE  Was \/ (l = <<t, Overflow[t]>> /\ chan'[l][j] = Held(t))
    <2>1. <<t, Overflow[t]>> \in Links
      BY <1>6, RankFacts DEF TierForward, Tiers, Links
    <2>2. Held(t) \in Fds
      BY <1>6, HeldType DEF TierForward, TypeInv
    <2>3. chan' = [chan EXCEPT ![<<t, Overflow[t]>>] = Append(@, Held(t))]
      BY <1>6 DEF TierForward, send_file_descriptor
    <2> HIDE DEF Was
    <2> QED
      BY <1>4, <2>1, <2>2, <2>3
  <1>7. ASSUME NEW c \in Clients, ClientStep(c) PROVE Was
    BY <1>1, <1>7 DEF ClientStep, ClientConnect, ClientRefused, ClientSend, ClientQuit,
                      ClientHangup
  <1>8. ASSUME TcStep, ~TcDispatch PROVE Was
    <2>1. Die("tc") \/ UNCHANGED chan
      BY <1>8 DEF TcStep, TcAccept, TcRecv, TcIgnore, TcBroken, TcSignal, TcExit, TcDies
    <2> QED
      BY <1>1, <1>2, <2>1 DEF Procs
  <1>9. ASSUME NEW t \in Tiers, TierSpawn(t) \/ TierBroken(t) \/ ThreadStep(t) PROVE Was
    <2>1. Die(t) \/ UNCHANGED chan
      BY <1>9 DEF TierSpawn, TierBroken, ThreadStep, ThreadLoad, ThreadBroken, TierDies
    <2> QED
      BY <1>1, <1>2, <2>1 DEF Procs
  <1>10. ASSUME EKill \/ EExit \/ UNCHANGED vars PROVE Was
    <2>1. Die("e") \/ UNCHANGED chan
      BY <1>10 DEF EKill, EExit, TierDies, vars
    <2> QED
      BY <1>1, <1>2, <2>1 DEF Procs, Tiers
  <1> HIDE DEF Was
  <1>11. \/ Was
         \/ /\ TcDispatch /\ l = <<"tc", TierOf(tcsrv)>>
            /\ chan'[l][j] = tcfd
         \/ \E t \in Tiers : /\ TierForward(t) /\ l = <<t, Overflow[t]>>
                             /\ chan'[l][j] = Held(t)
    BY <1>3, <1>5, <1>6, <1>7, <1>8, <1>9, <1>10 DEF Next, TierStep, Was
  <1> QED
    BY <1>11 DEF Was

\* What a block may hold after a step: what it held, or what it received.
LEMMA HeldStep ==
    ASSUME TypeInv, [Next]_vars, NEW t \in Tiers, at'[t] \in Sources
    PROVE  \/ at[t] \in Sources /\ Held(t)' = Held(t)
           \/ \E src \in Sources : TierRecv(t, src) /\ Held(t)' = Received(<<src, t>>)
  <1> DEFINE Was == at[t] \in Sources /\ Held(t)' = Held(t)
  <1>t. at \in [Tiers -> Sources \union {"poll", "exit"}] /\ slot \in [Tiers -> [Sources -> Fds]]
    BY DEF TypeInv, TypeOK
  <1>s. "poll" \notin Sources /\ "exit" \notin Sources
    BY DEF Sources
  <1>1. ASSUME UNCHANGED <<at, slot>> PROVE Was
    BY <1>1 DEF Held
  <1>2. ASSUME NEW u \in Tiers, at' = [at EXCEPT ![u] = "poll"] \/ at' = [at EXCEPT ![u] = "exit"],
               \/ UNCHANGED slot
               \/ slot' = [slot EXCEPT ![u] = [src \in Sources |-> Junk]]
        PROVE  Was
    BY <1>2, <1>t, <1>s DEF Held
  <1>3. ASSUME NEW u \in Tiers, NEW src \in Sources, TierRecv(u, src)
        PROVE  Was \/ (u = t /\ Held(t)' = Received(<<src, t>>))
    <2>1. /\ at' = [at EXCEPT ![u] = src]
          /\ slot' = [slot EXCEPT ![u][Cell(src)] = Received(<<src, u>>)]
          /\ Cell(src) \in Sources
      BY <1>3, CellType DEF TierRecv
    <2>2. CASE u = t
      BY <1>t, <2>1, <2>2 DEF Held
    <2>3. CASE u # t
      BY <1>t, <2>1, <2>3 DEF Held
    <2> QED
      BY <2>2, <2>3
  <1>4. ASSUME NEW c \in Clients, ClientStep(c) PROVE Was
    BY <1>1, <1>4 DEF ClientStep, ClientConnect, ClientRefused, ClientSend, ClientQuit,
                      ClientHangup, tierVars
  <1>5. ASSUME TcStep PROVE Was
    BY <1>1, <1>5 DEF TcStep, TcAccept, TcRecv, TcIgnore, TcDispatch, TcBroken, TcSignal,
                      TcExit, TcDies, tierVars
  <1>6. ASSUME NEW u \in Tiers, TierSpawn(u) \/ TierForward(u) PROVE Was
    BY <1>2, <1>6 DEF TierSpawn, TierForward
  <1>7. ASSUME NEW u \in Tiers, TierDies(u) PROVE Was
    BY <1>2, <1>7 DEF TierDies
  <1>8. ASSUME NEW u \in Tiers, TierBroken(u) \/ ThreadStep(u) PROVE Was
    BY <1>1, <1>7, <1>8 DEF TierBroken, ThreadStep, ThreadLoad, ThreadBroken
  <1>9. ASSUME EKill \/ EExit \/ UNCHANGED vars PROVE Was
    <2>1. "e" \in Tiers
      BY DEF Tiers
    <2> QED
      BY <1>1, <1>2, <1>7, <1>9, <2>1 DEF EKill, EExit, vars, tierVars
  <1> HIDE DEF Was
  <1>10. Was \/ \E src \in Sources : TierRecv(t, src) /\ Held(t)' = Received(<<src, t>>)
    BY <1>3, <1>4, <1>5, <1>6, <1>8, <1>9 DEF Next, TierStep
  <1> QED
    BY <1>10 DEF Was

\* What a ticket may be after a step: an old one, or one for what the block held.
LEMMA SoldStep ==
    ASSUME TypeInv, [Next]_vars, NEW t \in Tiers, NEW i \in 1..clients_no(t)'
    PROVE  \/ i \in 1..clients_no(t) /\ threads'[t][i].own = threads[t][i].own
           \/ TierSpawn(t) /\ i = clients_no(t) + 1 /\ threads'[t][i].own = Held(t)
  <1>0. clients_no(t) \in Nat
    BY DEF TypeInv, TypeOK, clients_no
  <1>1. CASE SameOwners
    BY <1>1 DEF SameOwners
  <1>2. ASSUME NEW u \in Tiers, TierSpawn(u)
        PROVE  \/ i \in 1..clients_no(t) /\ threads'[t][i].own = threads[t][i].own
               \/ u = t /\ i = clients_no(t) + 1 /\ threads'[t][i].own = Held(t)
    BY <1>0, <1>2, SpawnOwners DEF clients_no, TypeInv
  <1> QED
    BY <1>1, <1>2, OwnersStep

LEMMA OverflowStep ==
    ASSUME TypeInv, ClassOnce, OverflowOnlyWhenFull, [Next]_vars
    PROVE  OverflowOnlyWhenFull'
  <1> DEFINE Ok(x, t) == x # Junk => Placed(x, t)'
  <1>0. PlacedFlying /\ PlacedHeld /\ PlacedSold
    BY OverflowParts
  <1>1. ASSUME NEW x \in Fds, NEW t \in Tiers, x # Junk => Placed(x, t)
        PROVE  Ok(x, t)
    BY <1>1, PlacedStable DEF Fds
  <1>2. ASSUME NEW l \in Links, NEW i \in 1..Len(chan[l])
        PROVE  chan[l][i] \in Fds /\ l[2] \in Tiers /\ \A x : x = chan[l][i] => Ok(x, l[2])
    <2>1. chan[l][i] \in Fds /\ l[2] \in Tiers
      BY LinkEnds DEF TypeInv, TypeOK
    <2> QED
      BY <1>0, <1>1, <2>1 DEF PlacedFlying
  <1>3. ASSUME NEW t \in Tiers, at[t] \in Sources
        PROVE  Held(t) \in Fds /\ \A x : x = Held(t) => Ok(x, t)
    <2>1. Held(t) \in Fds
      BY <1>3, HeldType DEF TypeInv
    <2> QED
      BY <1>0, <1>1, <1>3, <2>1 DEF PlacedHeld
  <1>4. ASSUME NEW t \in Tiers, NEW i \in 1..clients_no(t)
        PROVE  \A x : x = threads[t][i].own => Ok(x, t)
    <2>0. threads[t][i] \in Threads
      BY DEF TypeInv, TypeOK, clients_no
    <2>1. threads[t][i].own \in Fds
      BY <2>0 DEF Threads
    <2> QED
      BY <1>0, <1>1, <2>1 DEF PlacedSold
  <1>5. PlacedFlying'
    <2> SUFFICES ASSUME NEW l \in Links, NEW j \in 1..Len(chan'[l]),
                        NEW x, x = chan'[l][j]
                 PROVE  Ok(x, l[2])
      BY DEF PlacedFlying
    <2>1. CASE \E i \in 1..Len(chan[l]) : x = chan[l][i]
      BY <1>2, <2>1
    <2>2. CASE TcDispatch /\ l = <<"tc", TierOf(tcsrv)>> /\ x = tcfd
      <3>1. tcsrv \in 1..3 /\ tcfd \in Clients /\ class[tcfd] = tcsrv
        BY <2>2 DEF TcDispatch, TypeInv, TypeOK, Services, ClassOnce
      <3>2. Rank[TierOf(tcsrv)] = tcsrv /\ TierOf(tcsrv) \in Tiers
        BY <3>1, RankFacts DEF Tiers
      <3>3. Placed(tcfd, TierOf(tcsrv))
        BY <3>1, <3>2, RankType DEF Placed
      <3>4. l[2] = TierOf(tcsrv)
        BY <2>2
      <3> QED
        BY <1>1, <2>2, <3>1, <3>2, <3>3, <3>4 DEF Fds
    <2>3. ASSUME NEW t \in Tiers, TierForward(t), l = <<t, Overflow[t]>>, x = Held(t)
          PROVE  Ok(x, l[2])
      <3>1. at[t] \in Sources /\ Full(t) /\ t # "e"
        BY <2>3 DEF TierForward
      <3>2. Overflow[t] \in Tiers /\ Rank[Overflow[t]] = Rank[t] + 1
        BY <3>1, RankFacts DEF Tiers
      <3>3. \A u \in Tiers : Rank[u] = Rank[t] => u = t
        BY RankFacts DEF Tiers
      <3>4. Held(t) # Junk => Placed(Held(t), t) /\ Held(t) \in Clients
        BY <1>0, <1>3, <3>1 DEF PlacedHeld, Fds
      <3>5. Held(t) # Junk => Placed(Held(t), Overflow[t])
        <4> SUFFICES ASSUME NEW x1, x1 = Held(t), x1 # Junk
                     PROVE  Placed(x1, Overflow[t])
          OBVIOUS
        <4>1. Placed(x1, t) /\ class[x1] \in 1..3
          BY <3>4, RankType DEF Placed
        <4>2. \A u \in Tiers : Rank[u] \in class[x1]..(Rank[Overflow[t]] - 1) =>
                                  Rank[u] = Rank[t] \/ Rank[u] \in class[x1]..(Rank[t] - 1)
          BY <3>2, <4>1, RankType
        <4> QED
          BY <3>1, <3>2, <3>3, <4>1, <4>2, RankType DEF Placed
      <3>6. l[2] = Overflow[t] /\ Held(t) \in Fds
        BY <1>3, <2>3, <3>1
      <3> QED
        BY <1>1, <2>3, <3>2, <3>5, <3>6
    <2> QED
      BY <2>1, <2>2, <2>3, FlyingStep
  <1>6. PlacedHeld'
    <2> SUFFICES ASSUME NEW t \in Tiers, at'[t] \in Sources, NEW x, x = Held(t)'
                 PROVE  Ok(x, t)
      BY DEF PlacedHeld
    <2>1. ASSUME NEW src \in Sources, TierRecv(t, src), x = Received(<<src, t>>), x # Junk
          PROVE  Placed(x, t)'
      <3>1. <<src, t>> \in Links /\ chan[<<src, t>>] # <<>>
            /\ Received(<<src, t>>) = Head(chan[<<src, t>>])
        BY <2>1 DEF TierRecv, Selected, Received
      <3>2. 1 \in 1..Len(chan[<<src, t>>]) /\ Head(chan[<<src, t>>]) = chan[<<src, t>>][1]
        BY <3>1, ElementsTail DEF TypeInv, TypeOK
      <3> QED
        BY <1>2, <2>1, <3>1, <3>2
    <2> QED
      BY <1>3, <2>1, HeldStep
  <1>7. PlacedSold'
    <2> SUFFICES ASSUME NEW t \in Tiers, NEW i \in 1..clients_no(t)',
                        NEW x, x = threads'[t][i].own
                 PROVE  Ok(x, t)
      BY DEF PlacedSold
    <2> QED
      BY <1>3, <1>4, SoldStep DEF TierSpawn
  <1> QED
    BY <1>5, <1>6, <1>7, OverflowParts, PTL

-----------------------------------------------------------------------------
(***************************************************************************)
(* Endings and phantom clients.                                             *)
(***************************************************************************)
LEMMA EndsStep ==
    ASSUME TypeInv, Ends, [Next]_vars
    PROVE  Ends'
  <1> USE DEF Ends, Closing
  <1>t. /\ alive \in [Procs -> BOOLEAN] /\ at \in [Tiers -> Sources \union {"poll", "exit"}]
        /\ "tc" \in Procs /\ "c" \in Tiers /\ "s" \in Tiers /\ "e" \in Tiers
        /\ "exit" \notin Sources
    BY DEF TypeInv, TypeOK, Procs, Tiers, Sources
  <1>1. ASSUME UNCHANGED <<alive, tcpc, at, sigusr1>> PROVE Ends'
    BY <1>1
  <1>2. ASSUME NEW c \in Clients, ClientStep(c) PROVE Ends'
    BY <1>1, <1>2 DEF ClientStep, ClientConnect, ClientRefused, ClientSend, ClientQuit,
                      ClientHangup, tcVars, tierVars
  <1>3. CASE TcAccept \/ TcRecv \/ TcIgnore \/ TcDispatch
    BY <1>3 DEF TcAccept, TcRecv, TcIgnore, TcDispatch, tierVars
  <1>4. CASE TcSignal
    BY <1>4 DEF TcSignal, tierVars
  <1>5. CASE TcDies
    BY <1>t, <1>5 DEF TcDies, Die, tierVars
  <1>6. ASSUME NEW t \in Tiers, NEW src \in Sources, TierRecv(t, src) PROVE Ends'
    BY <1>t, <1>6 DEF TierRecv, tcVars
  <1>7. ASSUME NEW t \in Tiers, TierSpawn(t) \/ TierForward(t) PROVE Ends'
    BY <1>t, <1>7 DEF TierSpawn, TierForward, tcVars
  <1>8. ASSUME NEW t \in Tiers, TierDies(t) PROVE Ends'
    BY <1>t, <1>8 DEF TierDies, Die, tcVars, Tiers
  <1>9. ASSUME NEW t \in Tiers, NEW i \in 1..clients_no(t), ThreadLoad(t, i) PROVE Ends'
    BY <1>1, <1>9 DEF ThreadLoad, tcVars
  <1>10. CASE EKill
    BY <1>t, <1>10 DEF EKill
  <1>11. CASE UNCHANGED vars
    BY <1>1, <1>11 DEF vars, tcVars, tierVars
  <1> HIDE DEF Ends
  <1> QED
    BY <1>t, <1>2, <1>3, <1>4, <1>5, <1>6, <1>7, <1>8, <1>9, <1>10, <1>11
       DEF Next, TcStep, TcBroken, TcExit, TierStep, TierBroken, ThreadStep, ThreadBroken,
           EExit

Calm == gone = {} /\ ~Closing

\* Nobody comes back, and the office does not reopen.
LEMMA CalmBefore ==
    ASSUME TypeInv, Ends, [Next]_vars
    PROVE  /\ gone' = {} => gone = {}
           /\ Closing => Closing'
  <1> USE DEF Closing
  <1>1. ASSUME UNCHANGED <<gone, tcpc, sigusr1>> PROVE gone' = gone /\ (Closing => Closing')
    BY <1>1
  <1>2. ASSUME NEW c \in Clients, ClientStep(c)
        PROVE  (gone' = {} => gone = {}) /\ (Closing => Closing')
    BY <1>2 DEF ClientStep, ClientConnect, ClientRefused, ClientSend, ClientQuit,
                ClientHangup, tcVars
  <1>3. ASSUME TcStep PROVE gone' = gone /\ (Closing => Closing')
    BY <1>3 DEF TcStep, TcAccept, TcRecv, TcIgnore, TcDispatch, TcSignal, TcBroken, TcExit,
                TcDies, cliVars
  <1>4. ASSUME NEW t \in Tiers, TierStep(t) \/ ThreadStep(t) \/ EExit
        PROVE  UNCHANGED <<gone, tcpc, sigusr1>>
    BY <1>4 DEF TierStep, ThreadStep, TierRecv, TierSpawn, TierForward, TierBroken,
                TierDies, ThreadLoad, ThreadBroken, EExit, tcVars, cliVars
  <1>5. ASSUME EKill PROVE gone' = gone /\ (Closing => Closing')
    BY <1>5 DEF EKill, Ends, cliVars, TypeInv, TypeOK
  <1>6. ASSUME UNCHANGED vars PROVE UNCHANGED <<gone, tcpc, sigusr1>>
    BY <1>6 DEF vars, tcVars, cliVars
  <1>7. "e" \in Tiers
    BY DEF Tiers
  <1> QED
    BY <1>1, <1>2, <1>3, <1>4, <1>5, <1>6, <1>7 DEF Next

\* In calm times nobody ends.
LEMMA NobodyEnds ==
    ASSUME TypeInv, Ends, NoPhantomYet, [Next]_vars, Calm, Calm'
    PROVE  \A p \in Procs : alive'[p]
  <1>a. \A p \in Procs : alive[p]
    BY DEF NoPhantomYet, Calm
  <1>t. "e" \in Tiers /\ \A t \in Tiers : t \in Procs /\ (t # "e" => Overflow[t] \in Procs)
    BY RankFacts DEF Tiers, Procs
  <1>1. ASSUME NEW c \in Clients, ClientStep(c) PROVE UNCHANGED alive
    BY <1>1 DEF ClientStep, ClientConnect, ClientRefused, ClientSend, ClientQuit,
                ClientHangup
  <1>2. ~TcBroken
    <2>1. TcBroken => TierOf(tcsrv) \in Tiers
      BY RankFacts DEF TcBroken, TypeInv, TypeOK, Services, Tiers
    <2> QED
      BY <1>a, <1>t, <2>1 DEF TcBroken
  <1>3. ~TcExit
    BY DEF TcExit, Calm, Closing
  <1>4. ASSUME TcStep PROVE UNCHANGED alive
    BY <1>2, <1>3, <1>4 DEF TcStep, TcAccept, TcRecv, TcIgnore, TcDispatch, TcSignal
  <1>5. ASSUME NEW t \in Tiers, TierStep(t) PROVE UNCHANGED alive
    BY <1>a, <1>t, <1>5 DEF TierStep, TierRecv, TierSpawn, TierForward, TierBroken
  <1>6. ASSUME NEW t \in Tiers, ThreadStep(t) PROVE UNCHANGED alive
    BY <1>6 DEF ThreadStep, ThreadLoad, ThreadBroken, Calm
  <1>7. ASSUME EKill \/ EExit \/ UNCHANGED vars PROVE UNCHANGED alive
    BY <1>7 DEF EKill, EExit, Ends, Calm, vars
  <1> QED
    BY <1>a, <1>1, <1>4, <1>5, <1>6, <1>7 DEF Next

LEMMA InCareIs ==
    \A t \in Tiers : \A x :
       x \in InCare(t) <=> \/ \E l \in Links : l[2] = t /\ \E i \in 1..Len(chan[l]) : x = chan[l][i]
                           \/ at[t] \in Sources /\ x = Held(t)
                           \/ \E i \in 1..clients_no(t) : x = threads[t][i].own
  BY DEF InCare, InFlight, HeldBy, Sold, Elements

LEMMA PhantomStep ==
    ASSUME TypeInv, Ends, NoPhantomYet, [Next]_vars
    PROVE  NoPhantomYet'
  <1> SUFFICES ASSUME Calm'
               PROVE  /\ \A p \in Procs : alive'[p]
                      /\ \A t \in Tiers : Junk \notin InCare(t)'
    BY DEF NoPhantomYet, Calm
  <1>1. Calm
    BY CalmBefore DEF Calm
  <1>2. \A p \in Procs : alive'[p]
    BY <1>1, NobodyEnds
  <1>3. /\ \A l \in Links : \A i \in 1..Len(chan[l]) : chan[l][i] # Junk
        /\ \A t \in Tiers : at[t] \in Sources => Held(t) # Junk
        /\ \A t \in Tiers : \A i \in 1..clients_no(t) : threads[t][i].own # Junk
        /\ \A p \in Procs : alive[p]
    BY <1>1, InCareIs, LinkEnds DEF NoPhantomYet, Calm
  <1>4. ASSUME NEW l \in Links, NEW j \in 1..Len(chan'[l])
        PROVE  chan'[l][j] # Junk
    <2>1. TcDispatch => tcfd # Junk
      BY DEF TcDispatch, TypeInv, TypeOK
    <2>2. \A t \in Tiers : TierForward(t) => Held(t) # Junk
      BY <1>3 DEF TierForward
    <2> QED
      BY <1>3, <2>1, <2>2, FlyingStep
  <1>5. ASSUME NEW t \in Tiers, at'[t] \in Sources
        PROVE  Held(t)' # Junk
    <2>1. ASSUME NEW src \in Sources, TierRecv(t, src)
          PROVE  Received(<<src, t>>) # Junk
      <3>1. <<src, t>> \in Links /\ src \in Procs
        BY <2>1, LinkEnds DEF TierRecv, Selected, Sources, Procs, Tiers
      <3>2. chan[<<src, t>>] # <<>>
        BY <1>3, <2>1, <3>1 DEF TierRecv, Selected, Readable
      <3>3. 1 \in 1..Len(chan[<<src, t>>]) /\ Head(chan[<<src, t>>]) = chan[<<src, t>>][1]
        BY <3>1, <3>2, ElementsTail DEF TypeInv, TypeOK
      <3> QED
        BY <1>3, <3>1, <3>2, <3>3 DEF Received
    <2> QED
      BY <1>3, <1>5, <2>1, HeldStep
  <1>6. ASSUME NEW t \in Tiers, NEW i \in 1..clients_no(t)'
        PROVE  threads'[t][i].own # Junk
    BY <1>3, SoldStep DEF TierSpawn
  <1>7. \A t \in Tiers : Junk \notin InCare(t)'
    <2>1. ASSUME NEW t \in Tiers, Junk \in InCare(t)'
          PROVE  \/ \E l \in Links : \E i \in 1..Len(chan'[l]) : Junk = chan'[l][i]
                 \/ at'[t] \in Sources /\ Junk = Held(t)'
                 \/ \E i \in 1..clients_no(t)' : Junk = threads'[t][i].own
      BY <2>1 DEF InCare, InFlight, HeldBy, Sold, Elements
    <2> QED
      BY <1>4, <1>5, <1>6, <2>1
  <1> QED
    BY <1>2, <1>7

LEMMA CapacityStep ==
    ASSUME TypeInv, CapacityKept, [Next]_vars
    PROVE  CapacityKept'
  <1>0. \A t \in Tiers : clients_no(t) \in Nat /\ MaxClients[t] \in Nat
    BY DEF TypeInv, TypeOK, clients_no
  <1>1. CASE SameOwners
    BY <1>1 DEF SameOwners, CapacityKept
  <1>2. ASSUME NEW t \in Tiers, TierSpawn(t) PROVE CapacityKept'
    <2>0. clients_no(t)' = clients_no(t) + 1
      BY <1>2, SpawnOwners DEF TypeInv
    <2>1. clients_no(t) < MaxClients[t]
      BY <1>0, <1>2 DEF TierSpawn, Full
    <2>2. \A u \in Tiers \ {t} : clients_no(u)' = clients_no(u)
      BY <1>2, SpawnOwners DEF TypeInv, clients_no
    <2> QED
      BY <1>0, <2>0, <2>1, <2>2 DEF CapacityKept
  <1> QED
    BY <1>1, <1>2, OwnersStep

LEMMA GenuineStep ==
    ASSUME TypeInv, Ends, NoPhantomYet, CapacityKept, GenuineClose, [Next]_vars
    PROVE  GenuineClose'
  <1> SUFFICES ASSUME gone' = {}, Closing' PROVE SoldOut'
    BY DEF GenuineClose
  <1>e. "e" \in Tiers /\ clients_no("e") \in Nat /\ MaxClients["e"] \in Nat
    BY DEF TypeInv, TypeOK, Tiers, clients_no
  <1>1. gone = {}
    BY CalmBefore
  <1>2. ASSUME SoldOut, ~TierSpawn("e") PROVE SoldOut'
    <2>1. clients_no("e")' = clients_no("e")
          /\ \A i \in 1..clients_no("e") : threads'["e"][i].own = threads["e"][i].own
      <3>1. CASE SameOwners
        BY <1>e, <3>1 DEF SameOwners
      <3>2. ASSUME NEW t \in Tiers, TierSpawn(t), t # "e" PROVE threads'["e"] = threads["e"]
        BY <1>e, <3>2, SpawnOwners DEF TypeInv
      <3> QED
        BY <1>2, <3>1, <3>2, OwnersStep DEF clients_no
    <2> QED
      BY <1>2, <2>1 DEF SoldOut, Sold
  <1>3. CASE Closing
    <2>1. SoldOut
      BY <1>1, <1>3 DEF GenuineClose
    <2>2. ~TierSpawn("e")
      BY <1>e, <2>1 DEF TierSpawn, Full, SoldOut
    <2> QED
      BY <1>2, <2>1, <2>2
  <1>4. CASE ~Closing
    <2>1. \A p \in Procs : alive[p]
      BY <1>1, <1>4 DEF NoPhantomYet
    <2>2. EKill
      <3>1. ASSUME UNCHANGED <<tcpc, sigusr1>> PROVE FALSE
        BY <1>4, <3>1 DEF Closing
      <3>2. ASSUME NEW c \in Clients, ClientStep(c) PROVE FALSE
        BY <1>4, <3>2 DEF ClientStep, ClientConnect, ClientRefused, ClientSend, ClientQuit,
                          ClientHangup, tcVars, Closing
      <3>3. ~TcBroken
        <4>1. TcBroken => TierOf(tcsrv) \in Tiers
          BY RankFacts DEF TcBroken, TypeInv, TypeOK, Services, Tiers
        <4> QED
          BY <2>1, <4>1 DEF TcBroken, Procs
      <3>4. ~TcStep
        BY <1>4, <3>3 DEF TcStep, TcAccept, TcRecv, TcIgnore, TcDispatch, TcSignal, TcExit,
                          Closing
      <3>5. ASSUME NEW t \in Tiers, TierStep(t) \/ ThreadStep(t) \/ EExit
            PROVE  UNCHANGED <<tcpc, sigusr1>>
        BY <3>5 DEF TierStep, ThreadStep, TierRecv, TierSpawn, TierForward, TierBroken,
                    TierDies, ThreadLoad, ThreadBroken, EExit, tcVars
      <3>6. ASSUME UNCHANGED vars PROVE UNCHANGED <<tcpc, sigusr1>>
        BY <3>6 DEF vars, tcVars
      <3> QED
        BY <1>e, <3>1, <3>2, <3>4, <3>5, <3>6 DEF Next
    <2>3. clients_no("e") = MaxClients["e"]
      BY <1>e, <2>2 DEF EKill, Full, CapacityKept
    <2>4. Junk \notin Sold("e")
      BY <1>1, <1>4, <1>e DEF NoPhantomYet, InCare
    <2>5. SoldOut /\ ~TierSpawn("e")
      BY <1>e, <2>3, <2>4 DEF SoldOut, TierSpawn, Full
    <2> QED
      BY <1>2, <2>5
  <1> QED
    BY <1>3, <1>4

-----------------------------------------------------------------------------
(***************************************************************************)
(* OnePlace. A step moves at most one client, from its place to the next.   *)
(***************************************************************************)
Elsewhere(c) == Flies(c) \/ IsHeld(c) \/ HasTicket(c)

\* Class servers only know clients that the counter classified.
LEMMA ElsewhereClassified ==
    ASSUME TypeInv, OverflowOnlyWhenFull, NEW c \in Clients, Elsewhere(c)
    PROVE  ~Unclassified(c)
  <1>0. PlacedFlying /\ PlacedHeld /\ PlacedSold /\ c # Junk
    BY OverflowParts
  <1>1. \E t \in Tiers : Placed(c, t)
    BY <1>0, LinkEnds DEF Elsewhere, Flies, IsHeld, HasTicket, Sold, Elements,
                          PlacedFlying, PlacedHeld, PlacedSold
  <1> QED
    BY <1>1, RankType DEF Placed, Unclassified

LEMMA BacklogFrom ==
    ASSUME TypeInv, [Next]_vars, NEW c \in Clients, OnBacklog(c)'
    PROVE  OnBacklog(c) \/ \E n \in Requests : ClientConnect(c, n)
  <1>t. backlog \in Seq(Clients)
    BY DEF TypeInv, TypeOK
  <1>1. ASSUME NEW d \in Clients, NEW n \in Requests, ClientConnect(d, n), d # c
        PROVE  OnBacklog(c)
    <2>1. Elements(backlog') = Elements(backlog) \union {d}
      BY <1>t, <1>1, ElementsAppend DEF ClientConnect
    <2> QED
      BY <1>1, <2>1 DEF OnBacklog
  <1>2. ASSUME TcAccept PROVE OnBacklog(c)
    <2>1. Elements(backlog) = Elements(backlog') \union {Head(backlog)}
      BY <1>t, <1>2, ElementsTail DEF TcAccept
    <2> QED
      BY <2>1 DEF OnBacklog
  <1>3. ~TcDies
    BY DEF TcDies, OnBacklog, Elements
  <1>4. ASSUME UNCHANGED backlog PROVE OnBacklog(c)
    BY <1>4 DEF OnBacklog
  <1>5. ASSUME TcStep, ~TcAccept PROVE UNCHANGED backlog
    BY <1>3, <1>5 DEF TcStep, TcRecv, TcIgnore, TcDispatch, TcBroken, TcSignal, TcExit
  <1>6. ASSUME NEW d \in Clients, ClientRefused(d) \/ ClientSend(d) \/ ClientQuit(d)
                                  \/ ClientHangup(d)
        PROVE  UNCHANGED backlog
    BY <1>6 DEF ClientRefused, ClientSend, ClientQuit, ClientHangup, tcVars
  <1>7. ASSUME NEW t \in Tiers, TierStep(t) \/ ThreadStep(t) PROVE UNCHANGED backlog
    BY <1>7 DEF TierStep, ThreadStep, TierRecv, TierSpawn, TierForward, TierBroken,
                TierDies, ThreadLoad, ThreadBroken, tcVars
  <1>8. ASSUME EKill \/ EExit \/ UNCHANGED vars PROVE UNCHANGED backlog
    BY <1>8 DEF EKill, EExit, TierDies, tcVars, vars
  <1> QED
    BY <1>1, <1>2, <1>4, <1>5, <1>6, <1>7, <1>8 DEF Next, ClientStep

LEMMA CounterFrom ==
    ASSUME TypeInv, [Next]_vars, NEW c \in Clients, AtCounter(c)'
    PROVE  AtCounter(c) \/ (TcAccept /\ Head(backlog) = c)
  <1> USE DEF AtCounter
  <1>1. ASSUME UNCHANGED <<tcpc, tcfd>> PROVE AtCounter(c)
    BY <1>1
  <1>2. ASSUME TcStep, ~TcAccept PROVE AtCounter(c)
    BY <1>2 DEF TcStep, TcRecv, TcIgnore, TcDispatch, TcBroken, TcSignal, TcExit, TcDies
  <1>3. ASSUME NEW d \in Clients, ClientStep(d) PROVE UNCHANGED <<tcpc, tcfd>>
    BY <1>3 DEF ClientStep, ClientConnect, ClientRefused, ClientSend, ClientQuit,
                ClientHangup, tcVars
  <1>4. ASSUME NEW t \in Tiers, TierStep(t) \/ ThreadStep(t) PROVE UNCHANGED <<tcpc, tcfd>>
    BY <1>4 DEF TierStep, ThreadStep, TierRecv, TierSpawn, TierForward, TierBroken,
                TierDies, ThreadLoad, ThreadBroken, tcVars
  <1>5. ASSUME EKill \/ EExit \/ UNCHANGED vars PROVE UNCHANGED <<tcpc, tcfd>>
    BY <1>5 DEF EKill, EExit, TierDies, tcVars, vars
  <1>6. TcAccept => Head(backlog) = c
    BY DEF TcAccept
  <1> QED
    BY <1>1, <1>2, <1>3, <1>4, <1>5, <1>6 DEF Next

LEMMA FliesFrom ==
    ASSUME TypeInv, [Next]_vars, NEW c \in Clients, Flies(c)'
    PROVE  \/ Flies(c)
           \/ TcDispatch /\ tcfd = c
           \/ \E t \in Tiers : TierForward(t) /\ Held(t) = c
  <1>1. PICK l \in Links : \E j \in 1..Len(chan'[l]) : chan'[l][j] = c
    BY DEF Flies, Elements
  <1> QED
    BY <1>1, FlyingStep DEF Flies, Elements

LEMMA HeldFrom ==
    ASSUME TypeInv, [Next]_vars, NEW c \in Clients, IsHeld(c)'
    PROVE  \/ \E t \in Tiers : at[t] \in Sources /\ Held(t) = c /\ at'[t] \in Sources
           \/ \E t \in Tiers, src \in Sources : TierRecv(t, src) /\ Received(<<src, t>>) = c
  <1>1. PICK t \in Tiers : at'[t] \in Sources /\ Held(t)' = c
    BY DEF IsHeld
  <1> QED
    BY <1>1, HeldStep

LEMMA TicketFrom ==
    ASSUME TypeInv, [Next]_vars, NEW c \in Clients, HasTicket(c)'
    PROVE  HasTicket(c) \/ \E t \in Tiers : TierSpawn(t) /\ Held(t) = c
  <1>1. PICK t \in Tiers : \E i \in 1..clients_no(t)' : threads'[t][i].own = c
    BY DEF HasTicket, Sold
  <1> QED
    BY <1>1, SoldStep DEF HasTicket, Sold

\* A client that is received is no longer in flight.
LEMMA ReceivedLeaves ==
    ASSUME TypeInv, OneFlies, NEW t \in Tiers, NEW src \in Sources, TierRecv(t, src),
           NEW c \in Clients, Received(<<src, t>>) = c
    PROVE  Flies(c) /\ ~Flies(c)'
  <1> DEFINE k == <<src, t>>
  <1>1. /\ k \in Links /\ chan[k] # <<>> /\ c = Head(chan[k]) /\ c # Junk
        /\ chan' = [chan EXCEPT ![k] = Tail(chan[k])]
    BY DEF TierRecv, Selected, Received
  <1>t. chan \in [Links -> Seq(Fds)]
    BY DEF TypeInv, TypeOK
  <1> HIDE DEF k
  <1>2. /\ 1 \in 1..Len(chan[k]) /\ chan[k][1] = c
        /\ \A i \in 1..Len(Tail(chan[k])) : i + 1 \in 1..Len(chan[k])
                                            /\ Tail(chan[k])[i] = chan[k][i + 1]
    BY <1>1, <1>t, ElementsTail
  <1>3. Flies(c)
    BY <1>1, <1>2 DEF Flies, Elements
  <1>4. ASSUME NEW l \in Links, NEW j \in 1..Len(chan'[l]), chan'[l][j] = c
        PROVE  FALSE
    <2>1. CASE l = k
      <3>1. j \in 1..Len(Tail(chan[k])) /\ Tail(chan[k])[j] = c
        BY <1>1, <1>t, <1>4, <2>1
      <3>2. j + 1 \in 1..Len(chan[k]) /\ chan[k][j + 1] = c
        BY <1>2, <3>1
      <3>3. 1 = j + 1
        BY <1>1, <1>2, <3>2 DEF OneFlies
      <3> QED
        BY <3>1, <3>3
    <2>2. CASE l # k
      <3>1. chan'[l] = chan[l]
        BY <1>1, <1>t, <2>2
      <3> QED
        BY <1>1, <1>2, <1>4, <2>2, <3>1 DEF OneFlies
    <2> QED
      BY <2>1, <2>2
  <1>5. ~Flies(c)'
    BY <1>4 DEF Flies, Elements
  <1> QED
    BY <1>3, <1>5

\* A block that forwards or spawns gives up what it held.
LEMMA HeldLeaves ==
    ASSUME TypeInv, OneHeld, [Next]_vars, NEW t \in Tiers, TierForward(t) \/ TierSpawn(t),
           NEW c \in Clients, Held(t) = c
    PROVE  IsHeld(c) /\ ~IsHeld(c)'
  <1>1. at[t] \in Sources /\ at' = [at EXCEPT ![t] = "poll"] /\ c # Junk
        /\ slot' = slot
    BY DEF TierForward, TierSpawn
  <1>t. at \in [Tiers -> Sources \union {"poll", "exit"}] /\ "poll" \notin Sources
    BY DEF TypeInv, TypeOK, Sources
  <1>2. IsHeld(c)
    BY <1>1 DEF IsHeld
  <1>3. ASSUME NEW u \in Tiers, at'[u] \in Sources, Held(u)' = c PROVE FALSE
    <2>1. u # t /\ at'[u] = at[u]
      BY <1>1, <1>t, <1>3
    <2>2. Held(u) = c
      BY <1>1, <1>3, <2>1 DEF Held
    <2> QED
      BY <1>1, <1>3, <2>1, <2>2 DEF OneHeld
  <1> QED
    BY <1>2, <1>3 DEF IsHeld

LEMMA OneKindStep ==
    ASSUME TypeInv, ClassOnce, OverflowOnlyWhenFull, OnePlace, [Next]_vars
    PROVE  OneKind'
  <1> SUFFICES ASSUME NEW c \in Clients
               PROVE  /\ OnBacklog(c)' => ~(AtCounter(c)' \/ Flies(c)' \/ IsHeld(c)' \/ HasTicket(c)')
                      /\ AtCounter(c)' => ~(Flies(c)' \/ IsHeld(c)' \/ HasTicket(c)')
                      /\ Flies(c)'     => ~(IsHeld(c)' \/ HasTicket(c)')
                      /\ IsHeld(c)'    => ~HasTicket(c)'
    BY DEF OneKind
  <1> DEFINE Connects == \E n \in Requests : ClientConnect(c, n)
             Accepted == TcAccept /\ Head(backlog) = c
             Dispatched == TcDispatch /\ tcfd = c
             Forwarded == \E t \in Tiers : TierForward(t) /\ Held(t) = c
             Taken == \E t \in Tiers, src \in Sources : TierRecv(t, src) /\ Received(<<src, t>>) = c
             Spawned == \E t \in Tiers : TierSpawn(t) /\ Held(t) = c
  <1>0. /\ OnBacklog(c) => ~(AtCounter(c) \/ Flies(c) \/ IsHeld(c) \/ HasTicket(c))
        /\ AtCounter(c) => ~(Flies(c) \/ IsHeld(c) \/ HasTicket(c))
        /\ Flies(c)     => ~(IsHeld(c) \/ HasTicket(c))
        /\ IsHeld(c)    => ~HasTicket(c)
    BY DEF OnePlace, OneKind
  <1>1. /\ OnBacklog(c)' => OnBacklog(c) \/ Connects
        /\ AtCounter(c)' => AtCounter(c) \/ Accepted
        /\ Flies(c)' => Flies(c) \/ Dispatched \/ Forwarded
        /\ IsHeld(c)' => IsHeld(c) \/ Taken
        /\ HasTicket(c)' => HasTicket(c) \/ Spawned
    BY BacklogFrom, CounterFrom, FliesFrom, HeldFrom, TicketFrom DEF IsHeld
  <1>2. Connects => ~(OnBacklog(c) \/ AtCounter(c) \/ Flies(c) \/ IsHeld(c) \/ HasTicket(c))
    BY ElsewhereClassified DEF ClientConnect, ClassOnce, Elsewhere
  <1>3. Accepted => OnBacklog(c) /\ ~OnBacklog(c)'
    <2> SUFFICES ASSUME Accepted PROVE OnBacklog(c) /\ ~OnBacklog(c)'
      OBVIOUS
    <2>1. backlog \in Seq(Clients) /\ backlog # <<>> /\ backlog' = Tail(backlog)
          /\ c = Head(backlog)
      BY DEF TcAccept, TypeInv, TypeOK
    <2>2. Head(backlog) \in Elements(backlog) /\ Head(backlog) \notin Elements(backlog')
      BY <2>1, ElementsTail DEF Elements, OnePlace, OneOnBacklog
    <2> QED
      BY <2>1, <2>2 DEF OnBacklog
  <1>4. Dispatched => AtCounter(c) /\ ~AtCounter(c)'
    BY DEF TcDispatch, AtCounter
  <1>5. Forwarded \/ Spawned => IsHeld(c) /\ ~IsHeld(c)'
    BY HeldLeaves DEF OnePlace
  <1>6. Taken => Flies(c) /\ ~Flies(c)'
    BY ReceivedLeaves DEF OnePlace
  <1>7. ~(Forwarded /\ Spawned)
    <2>1. ASSUME NEW t \in Tiers, NEW u \in Tiers, TierForward(t), TierSpawn(u),
                 Held(t) = c, Held(u) = c
          PROVE  FALSE
      <3>1. t = u
        BY <2>1 DEF OnePlace, OneHeld, TierForward, TierSpawn
      <3> QED
        BY <2>1, <3>1 DEF TierForward, TierSpawn
    <2> QED
      BY <2>1
  <1> HIDE DEF Connects, Accepted, Dispatched, Forwarded, Taken, Spawned
  <1> QED
    BY <1>0, <1>1, <1>2, <1>3, <1>4, <1>5, <1>6, <1>7

\* How the connections change as a whole.
LEMMA ChanStep ==
    ASSUME TypeInv, [Next]_vars
    PROVE  \/ \A l \in Links : chan'[l] = chan[l] \/ chan'[l] = <<>>
           \/ \E t \in Tiers, src \in Sources :
                 TierRecv(t, src) /\ chan[<<src, t>>] # <<>>
           \/ TcDispatch
           \/ \E t \in Tiers : TierForward(t)
  <1> DEFINE Shrinks == \A l \in Links : chan'[l] = chan[l] \/ chan'[l] = <<>>
  <1>t. chan \in [Links -> Seq(Fds)]
    BY DEF TypeInv, TypeOK
  <1>1. ASSUME UNCHANGED chan PROVE Shrinks
    BY <1>1
  <1>2. ASSUME NEW p \in Procs, Die(p) PROVE Shrinks
    BY <1>2, <1>t DEF Die
  <1>3. ASSUME NEW t \in Tiers, NEW src \in Sources, TierRecv(t, src), chan[<<src, t>>] = <<>>
        PROVE  Shrinks
    BY <1>3, <1>t DEF TierRecv, Selected
  <1>4. ASSUME NEW c \in Clients, ClientStep(c) PROVE Shrinks
    BY <1>1, <1>4 DEF ClientStep, ClientConnect, ClientRefused, ClientSend, ClientQuit,
                      ClientHangup
  <1>5. ASSUME TcStep, ~TcDispatch PROVE Shrinks
    <2>1. Die("tc") \/ UNCHANGED chan
      BY <1>5 DEF TcStep, TcAccept, TcRecv, TcIgnore, TcBroken, TcSignal, TcExit, TcDies
    <2> QED
      BY <1>1, <1>2, <2>1 DEF Procs
  <1>6. ASSUME NEW t \in Tiers, TierSpawn(t) \/ TierBroken(t) \/ ThreadStep(t) PROVE Shrinks
    <2>1. Die(t) \/ UNCHANGED chan
      BY <1>6 DEF TierSpawn, TierBroken, ThreadStep, ThreadLoad, ThreadBroken, TierDies
    <2> QED
      BY <1>1, <1>2, <2>1 DEF Procs
  <1>7. ASSUME EKill \/ EExit \/ UNCHANGED vars PROVE Shrinks
    <2>1. Die("e") \/ UNCHANGED chan
      BY <1>7 DEF EKill, EExit, TierDies, vars
    <2> QED
      BY <1>1, <1>2, <2>1 DEF Procs, Tiers
  <1> HIDE DEF Shrinks
  <1>8. \/ Shrinks
        \/ \E t \in Tiers, src \in Sources : TierRecv(t, src) /\ chan[<<src, t>>] # <<>>
        \/ TcDispatch
        \/ \E t \in Tiers : TierForward(t)
    BY <1>3, <1>4, <1>5, <1>6, <1>7 DEF Next, TierStep
  <1> QED
    BY <1>8 DEF Shrinks

\* A queue that loses its head, or gains an element that does not fly yet, keeps
\* the clients in flight distinct.
LEMMA OneFliesAppend ==
    ASSUME chan \in [Links -> Seq(Fds)], OneFlies, NEW m \in Links, NEW x \in Fds,
           x # Junk => ~Flies(x), chan' = [chan EXCEPT ![m] = Append(@, x)]
    PROVE  OneFlies'
  <1>1. ASSUME NEW l \in Links, NEW i \in 1..Len(chan'[l])
        PROVE  \/ i \in 1..Len(chan[l]) /\ chan'[l][i] = chan[l][i]
               \/ l = m /\ i = Len(chan[l]) + 1 /\ chan'[l][i] = x
    OBVIOUS
  <1>2. x # Junk => \A l \in Links : \A i \in 1..Len(chan[l]) : chan[l][i] # x
    BY DEF Flies, Elements
  <1> QED
    BY <1>1, <1>2 DEF OneFlies

LEMMA OneFliesTail ==
    ASSUME chan \in [Links -> Seq(Fds)], OneFlies, NEW m \in Links, chan[m] # <<>>,
           chan' = [chan EXCEPT ![m] = Tail(@)]
    PROVE  OneFlies'
  <1>1. ASSUME NEW i \in 1..Len(chan'[m])
        PROVE  i \in Nat /\ i + 1 \in 1..Len(chan[m]) /\ chan'[m][i] = chan[m][i + 1]
    <2>1. chan'[m] = Tail(chan[m])
      OBVIOUS
    <2> QED
      BY <2>1, ElementsTail
  <1>2. \A l \in Links : l # m => chan'[l] = chan[l]
    OBVIOUS
  <1> SUFFICES ASSUME NEW l \in Links, NEW k \in Links,
                      NEW i \in 1..Len(chan'[l]), NEW j \in 1..Len(chan'[k]),
                      chan'[l][i] = chan'[k][j], chan'[l][i] # Junk
               PROVE  l = k /\ i = j
    BY DEF OneFlies
  <1>3. CASE l = m /\ k = m
    <2>1. i + 1 = j + 1 /\ i \in Nat /\ j \in Nat
      BY <1>1, <1>3 DEF OneFlies
    <2> QED
      BY <1>3, <2>1
  <1>4. CASE l = m /\ k # m
    BY <1>1, <1>2, <1>4 DEF OneFlies
  <1>5. CASE l # m /\ k = m
    BY <1>1, <1>2, <1>5 DEF OneFlies
  <1>6. CASE l # m /\ k # m
    BY <1>2, <1>6 DEF OneFlies
  <1> QED
    BY <1>3, <1>4, <1>5, <1>6

LEMMA OneFliesStep ==
    ASSUME TypeInv, OnePlace, [Next]_vars
    PROVE  OneFlies'
  <1>t. chan \in [Links -> Seq(Fds)] /\ OneFlies
    BY DEF TypeInv, TypeOK, OnePlace
  <1>1. CASE \A l \in Links : chan'[l] = chan[l] \/ chan'[l] = <<>>
    BY <1>t, <1>1 DEF OneFlies
  <1>2. ASSUME NEW t \in Tiers, NEW src \in Sources, TierRecv(t, src), chan[<<src, t>>] # <<>>
        PROVE  OneFlies'
    <2>1. <<src, t>> \in Links /\ chan' = [chan EXCEPT ![<<src, t>>] = Tail(@)]
      BY <1>2 DEF TierRecv, Selected
    <2> QED
      BY <1>t, <1>2, <2>1, OneFliesTail
  <1>3. CASE TcDispatch
    <2>1. TierOf(tcsrv) \in Tiers /\ tcfd \in Clients
      BY <1>3, RankFacts DEF TypeInv, TypeOK, TcDispatch, Services, Tiers
    <2>2. <<"tc", TierOf(tcsrv)>> \in Links /\ tcfd \in Fds
      BY <2>1 DEF Links, Tiers, Fds
    <2>3. chan' = [chan EXCEPT ![<<"tc", TierOf(tcsrv)>>] = Append(@, tcfd)]
      BY <1>3 DEF TcDispatch, send_file_descriptor
    <2>4. ~Flies(tcfd)
      BY <1>3, <2>1 DEF TcDispatch, AtCounter, OnePlace, OneKind
    <2> QED
      BY <1>t, <2>2, <2>3, <2>4, OneFliesAppend
  <1>4. ASSUME NEW t \in Tiers, TierForward(t) PROVE OneFlies'
    <2>1. <<t, Overflow[t]>> \in Links
      BY <1>4, RankFacts DEF TierForward, Tiers, Links
    <2>2. Held(t) \in Fds /\ at[t] \in Sources
      BY <1>4, HeldType DEF TierForward, TypeInv
    <2>3. chan' = [chan EXCEPT ![<<t, Overflow[t]>>] = Append(@, Held(t))]
      BY <1>4 DEF TierForward, send_file_descriptor
    <2>4. Held(t) # Junk => ~Flies(Held(t))
      BY <2>2 DEF IsHeld, OnePlace, OneKind, Fds
    <2> QED
      BY <1>t, <2>1, <2>2, <2>3, <2>4, OneFliesAppend
  <1> QED
    BY <1>1, <1>2, <1>3, <1>4, ChanStep

LEMMA OneHeldStep ==
    ASSUME TypeInv, OnePlace, [Next]_vars
    PROVE  OneHeld'
  <1> SUFFICES ASSUME NEW t \in Tiers, NEW u \in Tiers, at'[t] \in Sources, at'[u] \in Sources,
                      NEW x, x = Held(t)', x = Held(u)', x # Junk
               PROVE  t = u
    BY DEF OneHeld
  <1> DEFINE Was(v) == at[v] \in Sources /\ Held(v) = x
             Came(v) == \E src \in Sources : TierRecv(v, src) /\ Received(<<src, v>>) = x
  <1>1. (Was(t) \/ Came(t)) /\ (Was(u) \/ Came(u))
    BY HeldStep
  <1>2. CASE Was(t) /\ Was(u)
    BY <1>2 DEF OnePlace, OneHeld
  <1>3. ASSUME NEW v \in Tiers, NEW w \in Tiers, Was(v), Came(w) PROVE FALSE
    <2>1. x \in Clients
      BY <1>3, HeldType DEF TypeInv, Fds
    <2>2. Flies(x)
      BY <1>3, <2>1, ReceivedLeaves DEF OnePlace
    <2> QED
      BY <1>3, <2>1, <2>2 DEF IsHeld, OnePlace, OneKind
  <1>4. CASE Came(t) /\ Came(u)
    <2>1. PICK src \in Sources : TierRecv(t, src)
      BY <1>4
    <2>2. PICK srd \in Sources : TierRecv(u, srd)
      BY <1>4
    <2>3. at[t] = "poll" /\ at' = [at EXCEPT ![t] = src]
      BY <2>1 DEF TierRecv
    <2>4. at[u] = "poll" /\ at' = [at EXCEPT ![u] = srd]
      BY <2>2 DEF TierRecv
    <2>5. at \in [Tiers -> Sources \union {"poll", "exit"}] /\ "poll" \notin Sources
      BY DEF TypeInv, TypeOK, Sources
    <2> QED
      BY <2>3, <2>4, <2>5
  <1> QED
    BY <1>1, <1>2, <1>3, <1>4

LEMMA OneTicketStep ==
    ASSUME TypeInv, OnePlace, [Next]_vars
    PROVE  OneTicket'
  <1> SUFFICES ASSUME NEW t \in Tiers, NEW u \in Tiers,
                      NEW i \in 1..clients_no(t)', NEW j \in 1..clients_no(u)',
                      NEW x, x = threads'[t][i].own, x = threads'[u][j].own, x # Junk
               PROVE  t = u /\ i = j
    BY DEF OneTicket
  <1> DEFINE Was(v, k) == k \in 1..clients_no(v) /\ threads[v][k].own = x
             New(v, k) == TierSpawn(v) /\ k = clients_no(v) + 1 /\ Held(v) = x
  <1>1. (Was(t, i) \/ New(t, i)) /\ (Was(u, j) \/ New(u, j))
    BY SoldStep
  <1>2. CASE Was(t, i) /\ Was(u, j)
    BY <1>2 DEF OnePlace, OneTicket
  <1>3. ASSUME NEW v \in Tiers, NEW w \in Tiers, NEW k, NEW m, Was(v, k), New(w, m)
        PROVE  FALSE
    <2>1. at[w] \in Sources /\ Held(w) = x /\ x \in Clients
      BY <1>3, HeldType DEF TierSpawn, TypeInv, Fds
    <2>2. IsHeld(x) /\ HasTicket(x)
      BY <1>3, <2>1 DEF IsHeld, HasTicket, Sold
    <2> QED
      BY <2>1, <2>2 DEF OnePlace, OneKind
  <1>4. CASE New(t, i) /\ New(u, j)
    <2>1. t = u
      BY <1>4 DEF TierSpawn, OnePlace, OneHeld
    <2> QED
      BY <1>4, <2>1
  <1> QED
    BY <1>1, <1>2, <1>3, <1>4

-----------------------------------------------------------------------------
(***************************************************************************)
(* The inductive invariant and what follows from it.                        *)
(***************************************************************************)
Inv == TypeInv /\ IndInv /\ OverflowOnlyWhenFull /\ OnePlace

LEMMA InvInit == Init => Inv
  <1> SUFFICES ASSUME Init PROVE Inv
    OBVIOUS
  <1>1. TypeInv
    BY TypeInit
  <1>2. /\ \A l \in Links : Elements(chan[l]) = {} /\ Len(chan[l]) = 0
        /\ \A t \in Tiers : clients_no(t) = 0 /\ at[t] = "poll"
        /\ Elements(backlog) = {} /\ Len(backlog) = 0
    BY DEF Init, Elements, clients_no
  <1>3. "poll" \notin Sources /\ "poll" # "exit"
    BY DEF Sources
  <1>4. \A t \in Tiers : InCare(t) = {}
    <2>1. \A t \in Tiers : \A x : x \notin InCare(t)
      BY <1>2, <1>3, InCareIs
    <2> QED
      BY <2>1
  <1>5. OverflowOnlyWhenFull
    BY <1>4 DEF OverflowOnlyWhenFull
  <1>6. OnePlace
    BY <1>2, <1>3 DEF Init, OnePlace, OneKind, OneOnBacklog, OneFlies, OneHeld, OneTicket,
                      OnBacklog, AtCounter, Flies, IsHeld, HasTicket, Sold
  <1>7. ClassOnce
    BY <1>2 DEF Init, ClassOnce, OnBacklog, AtCounter, Unclassified
  <1>8. Ends
    BY DEF Init, Ends, Procs, Tiers
  <1>9. NoPhantomYet
    BY <1>4 DEF Init, NoPhantomYet
  <1>10. CapacityKept
    BY <1>2 DEF CapacityKept
  <1>11. GenuineClose
    BY DEF Init, GenuineClose, Closing
  <1> QED
    BY <1>1, <1>5, <1>6, <1>7, <1>8, <1>9, <1>10, <1>11 DEF Inv, IndInv

LEMMA InvStep == Inv /\ [Next]_vars => Inv'
  <1> SUFFICES ASSUME Inv, [Next]_vars PROVE Inv'
    OBVIOUS
  <1>0. /\ TypeInv /\ ClassOnce /\ Ends /\ NoPhantomYet /\ CapacityKept /\ GenuineClose
        /\ OverflowOnlyWhenFull /\ OnePlace /\ OneOnBacklog
    BY DEF Inv, IndInv, OnePlace
  <1>1. TypeInv' /\ OverflowOnlyWhenFull'
    BY <1>0, TypeStep, OverflowStep
  <1>2. ClassOnce' /\ Ends' /\ NoPhantomYet' /\ CapacityKept' /\ GenuineClose'
    BY <1>0, ClassOnceStep, EndsStep, PhantomStep, CapacityStep, GenuineStep
  <1>3. OnePlace'
    BY <1>0, BacklogStep, OneKindStep, OneFliesStep, OneHeldStep, OneTicketStep DEF OnePlace
  <1> QED
    BY <1>1, <1>2, <1>3 DEF Inv, IndInv

LEMMA InvAlways == Spec => []Inv
  BY InvInit, InvStep, PTL DEF Spec

\* The overflow rule of the class servers (c.c:148-154, s.c:178-202): whatever the
\* capacities, the number of clients and the order of events, a client is never at
\* a class below its own, and above it only past servers that are full.
THEOREM OverflowCorrect == Spec => []OverflowOnlyWhenFull
  <1>1. Inv => OverflowOnlyWhenFull
    BY DEF Inv
  <1> QED
    BY <1>1, InvAlways, PTL

\* Passing descriptors between processes (send_file_descriptor and
\* recv_file_descriptor) never duplicates a client: it is on the backlog, at the
\* counter, in flight, held by one block, or on one ticket.
THEOREM OnePlaceCorrect == Spec => []OnePlace
  <1>1. Inv => OnePlace
    BY DEF Inv
  <1> QED
    BY <1>1, InvAlways, PTL

\* As long as no client has left, the counter runs its handler (tc.c:57-62) only
\* when all tickets of e are sold, each to a client.
THEOREM GenuineShutdownCorrect == Spec => []GenuineShutdown
  <1>1. Inv => GenuineShutdown
    BY DEF Inv, IndInv, GenuineClose, GenuineShutdown, Closing
  <1> QED
    BY <1>1, InvAlways, PTL

-----------------------------------------------------------------------------
(***************************************************************************)
(* The programs implement TicketOffice.                                     *)
(***************************************************************************)
sold == [t \in Tiers |-> Owners(t)]

LEMMA OwnersSeq ==
    ASSUME TypeInv, NEW t \in Tiers
    PROVE  /\ Owners(t) \in Seq(Fds)
           /\ Len(Owners(t)) = clients_no(t)
           /\ \A i \in 1..clients_no(t) : Owners(t)[i] = threads[t][i].own
  <1>1. clients_no(t) \in Nat /\ \A i \in 1..clients_no(t) : threads[t][i].own \in Fds
    <2>1. threads[t] \in Seq(Threads)
      BY DEF TypeInv, TypeOK
    <2>2. \A i \in 1..Len(threads[t]) : threads[t][i] \in Threads
      BY <2>1
    <2> QED
      BY <2>1, <2>2 DEF clients_no, Threads
  <1> QED
    BY <1>1 DEF Owners

LEMMA SoldSame ==
    ASSUME SameOwners
    PROVE  sold' = sold
  <1>1. \A t \in Tiers : Owners(t)' = Owners(t)
    BY DEF SameOwners, Owners
  <1> QED
    BY <1>1 DEF sold

LEMMA SoldAppend ==
    ASSUME TypeInv, TypeInv', NEW t \in Tiers, TierSpawn(t)
    PROVE  sold' = [sold EXCEPT ![t] = Append(@, Held(t))]
  <1>1. \A u \in Tiers \ {t} : Owners(u)' = Owners(u)
    BY SpawnOwners DEF Owners, clients_no, TypeInv
  <1>2. Held(t) \in Fds
    BY HeldType DEF TierSpawn, TypeInv
  <1>3. /\ Owners(t) \in Seq(Fds) /\ Len(Owners(t)) = clients_no(t)
        /\ \A i \in 1..clients_no(t) : Owners(t)[i] = threads[t][i].own
    BY OwnersSeq
  <1>4. Owners(t)' = [i \in 1..(clients_no(t) + 1) |-> threads'[t][i].own]
    BY SpawnOwners DEF Owners, TypeInv
  <1>5. \A i \in 1..(clients_no(t) + 1) :
            threads'[t][i].own = IF i = clients_no(t) + 1 THEN Held(t) ELSE Owners(t)[i]
    BY <1>3, SpawnOwners DEF TypeInv
  <1>6. Owners(t)' = Append(Owners(t), Held(t))
    <2> DEFINE q == Owners(t)
               r == [i \in 1..(Len(q) + 1) |-> IF i = Len(q) + 1 THEN Held(t) ELSE q[i]]
    <2>1. Owners(t)' = r
      BY <1>3, <1>4, <1>5
    <2>2. q \in Seq(Fds)
      BY <1>3
    <2> HIDE DEF q
    <2>3. r \in Seq(Fds) /\ Len(r) = Len(q) + 1
      BY <1>2, <2>2
    <2>4. /\ Append(q, Held(t)) \in Seq(Fds) /\ Len(Append(q, Held(t))) = Len(q) + 1
          /\ \A i \in 1..Len(r) : r[i] = Append(q, Held(t))[i]
      BY <1>2, <2>2, <2>3
    <2> HIDE DEF r
    <2>5. r = Append(q, Held(t))
      BY <2>3, <2>4, SeqEqual
    <2> QED
      BY <2>1, <2>5 DEF q
  <1> QED
    BY <1>1, <1>6 DEF sold

LEMMA OfficeInit == Init => Office!Init
  <1> SUFFICES ASSUME Init PROVE Office!Init
    OBVIOUS
  <1>1. \A t \in Tiers : Owners(t) = <<>>
    BY TypeInit, OwnersSeq DEF Init, clients_no
  <1>2. (gone # {}) = FALSE /\ Closing = FALSE
    BY DEF Init, Closing
  <1> QED
    BY <1>1, <1>2 DEF Init, Office!Init, Office!Tiers, Tiers

\* The office's view of a state in which only some of its variables change.
officeVars == <<class, sold, gone # {}, Closing>>

\* Every client action leaves classes and tickets alone; it may be a departure.
LEMMA OfficeClient ==
    ASSUME Inv, NEW c \in Clients, ClientStep(c)
    PROVE  Office!Leave \/ UNCHANGED officeVars
  <1>1. UNCHANGED <<class, threads, tcpc, sigusr1>> /\ (gone' = gone \/ gone' # {})
    BY DEF ClientStep, ClientConnect, ClientRefused, ClientSend, ClientQuit, ClientHangup,
           tierVars, tcVars
  <1>2. SameOwners
    BY <1>1 DEF SameOwners, clients_no
  <1>3. sold' = sold /\ class' = class /\ Closing' = Closing
    BY <1>1, <1>2, SoldSame DEF Closing
  <1>4. CASE gone' = gone
    BY <1>3, <1>4 DEF officeVars
  <1>5. CASE gone' # {}
    BY <1>3, <1>5 DEF Office!Leave, sold
  <1> QED
    BY <1>1, <1>4, <1>5

\* The counter reads a class, or shuts down.
LEMMA OfficeTc ==
    ASSUME Inv, TcStep
    PROVE  \/ \E c \in Clients, n \in 1..3 : Office!Ask(c, n)
           \/ Office!Close
           \/ UNCHANGED officeVars
  <1>i. TypeInv /\ ClassOnce /\ Ends /\ NoPhantomYet
    BY DEF Inv, IndInv
  <1>1. UNCHANGED <<gone, threads>>
    BY DEF TcStep, TcAccept, TcRecv, TcIgnore, TcDispatch, TcBroken, TcSignal, TcExit,
           TcDies, tierVars, cliVars
  <1>2. SameOwners
    BY <1>1 DEF SameOwners, clients_no
  <1>3. sold' = sold /\ (gone # {})' = (gone # {})
    BY <1>1, <1>2, SoldSame
  <1>4. CASE TcRecv
    <2>1. /\ tcfd \in Clients /\ class[tcfd] = 0 /\ class \in [Clients -> Services]
          /\ class' = [class EXCEPT ![tcfd] = tcsrv']
          /\ Closing' = Closing
      BY <1>i, <1>4 DEF TcRecv, TypeInv, TypeOK, ClassOnce, Unclassified, Closing
    <2>2. tcsrv' \in Services
      BY <1>i, <1>4 DEF TcRecv, StaleOr, TypeInv, TypeOK, SentNumber
    <2>3. CASE tcsrv' = 0
      <3>1. class' = class
        BY <2>1, <2>3
      <3> QED
        BY <1>3, <2>1, <3>1 DEF officeVars
    <2>4. CASE tcsrv' # 0
      <3>1. tcsrv' \in 1..3
        BY <2>2, <2>4 DEF Services
      <3>2. PICK n \in 1..3 : n = tcsrv'
        BY <3>1
      <3>3. Office!Ask(tcfd, n)
        BY <1>3, <2>1, <3>2 DEF Office!Ask, sold
      <3> QED
        BY <2>1, <3>3
    <2> QED
      BY <2>3, <2>4
  <1>5. CASE TcAccept \/ TcIgnore \/ TcDispatch \/ TcSignal \/ TcExit
    <2>1. class' = class /\ Closing' = Closing
      BY <1>5 DEF TcAccept, TcIgnore, TcDispatch, TcSignal, TcExit, TcDies, Closing
    <2> QED
      BY <1>3, <2>1 DEF officeVars
  <1>6. CASE TcBroken
    <2>1. class' = class /\ Closing' = TRUE
      BY <1>6 DEF TcBroken, TcDies, Closing
    <2>2. TierOf(tcsrv) \in Procs /\ ~alive[TierOf(tcsrv)]
      BY <1>i, <1>6, RankFacts DEF TcBroken, TypeInv, TypeOK, Services, Procs, Tiers
    <2>3. gone # {} \/ Closing
      BY <1>i, <2>2 DEF NoPhantomYet
    <2>4. CASE gone # {}
      BY <1>3, <2>1, <2>4 DEF Office!Close, sold
    <2>5. CASE Closing
      <3>1. Closing' = Closing
        BY <2>1, <2>5 DEF Closing
      <3> QED
        BY <1>3, <2>1, <3>1 DEF officeVars
    <2> QED
      BY <2>3, <2>4, <2>5
  <1> QED
    BY <1>4, <1>5, <1>6 DEF TcStep

\* A class server sells a ticket to the client its block holds, or wastes one.
LEMMA OfficeSpawn ==
    ASSUME Inv, Inv', NEW t \in Tiers, TierSpawn(t)
    PROVE  (\E c \in Clients : Office!Sell(c, t)) \/ Office!Waste(t)
  <1>i. TypeInv /\ TypeInv' /\ NoPhantomYet /\ OverflowOnlyWhenFull /\ OnePlace
    BY DEF Inv, IndInv
  <1>1. /\ sold' = [sold EXCEPT ![t] = Append(@, Held(t))]
        /\ class' = class /\ gone' = gone /\ Closing' = Closing
    BY <1>i, SoldAppend DEF TierSpawn, cliVars, tcVars, Closing
  <1>2. at[t] \in Sources /\ ~Full(t) /\ Held(t) \in Fds
    BY <1>i, HeldType DEF TierSpawn, TypeInv
  <1>3. \A u \in Tiers : /\ Len(sold[u]) = clients_no(u)
                         /\ \A i \in 1..clients_no(u) : sold[u][i] = threads[u][i].own
    BY <1>i, OwnersSeq DEF sold
  <1>4. \A u \in Tiers : Len(sold[u]) >= MaxClients[u] <=> Full(u)
    BY <1>3 DEF Full
  <1>5. CASE Held(t) = Junk
    <2>1. gone # {} \/ Closing
      BY <1>i, <1>2, <1>5 DEF NoPhantomYet, InCare, HeldBy
    <2>2. ~(Len(sold[t]) >= MaxClients[t])
      BY <1>2, <1>4
    <2> QED
      BY <1>1, <1>5, <2>1, <2>2 DEF Office!Waste, Office!SoldOut, sold
  <1>6. CASE Held(t) # Junk
    <2>1. Held(t) \in Clients /\ Placed(Held(t), t)
      BY <1>i, <1>2, <1>6, OverflowParts DEF PlacedHeld, Fds
    <2>2. ~HasTicket(Held(t))
      BY <1>i, <1>2, <2>1 DEF OnePlace, OneKind, IsHeld
    <2>3. \A u \in Tiers : ~\E i \in 1..Len(sold[u]) : sold[u][i] = Held(t)
      BY <1>3, <2>2 DEF HasTicket, Sold
    <2>4. Office!Sell(Held(t), t)
      <3>1. \A u \in Tiers : ~Office!Owns(Held(t), u)
        BY <2>3 DEF Office!Owns, sold
      <3>2. \A u \in Tiers : Office!SoldOut(u) <=> Full(u)
        BY <1>4 DEF Office!SoldOut, sold
      <3>3. /\ class[Held(t)] \in 1..Office!Rank[t]
            /\ \A u \in Tiers : Office!Rank[u] \in class[Held(t)]..(Office!Rank[t] - 1)
                                   => Office!SoldOut(u)
        BY <2>1, <3>2 DEF Placed, Rank, Office!Rank
      <3> QED
        BY <1>1, <1>2, <3>1, <3>2, <3>3 DEF Office!Sell, Office!Tiers, Tiers, sold
    <2> QED
      BY <2>1, <2>4
  <1> QED
    BY <1>5, <1>6

\* The other steps of the class servers do not show, save e's call to close.
LEMMA OfficeTier ==
    ASSUME Inv, [Next]_vars, NEW t \in Tiers,
           \/ TierStep(t) /\ ~TierSpawn(t)
           \/ ThreadStep(t)
           \/ EExit
    PROVE  UNCHANGED officeVars
  <1>i. TypeInv
    BY DEF Inv
  <1>1. UNCHANGED <<class, gone, tcpc, sigusr1>>
    BY DEF TierStep, ThreadStep, TierRecv, TierForward, TierBroken, TierDies, ThreadLoad,
           ThreadBroken, EExit, tcVars, cliVars
  <1>2. UNCHANGED threads \/ (\E u \in Tiers : TierDies(u))
                          \/ (\E i \in 1..clients_no(t) : ThreadLoad(t, i))
    BY DEF TierStep, ThreadStep, TierRecv, TierForward, TierBroken, ThreadBroken, EExit, Tiers
  <1>3. SameOwners
    <2>1. ASSUME UNCHANGED threads PROVE SameOwners
      BY <2>1 DEF SameOwners, clients_no
    <2> QED
      BY <1>i, <1>2, <2>1, TierDiesOwners, ThreadLoadOwners DEF SameOwners, TypeInv
  <1> QED
    BY <1>1, <1>3, SoldSame DEF officeVars, Closing

LEMMA OfficeKill ==
    ASSUME Inv, EKill
    PROVE  Office!Close \/ UNCHANGED officeVars
  <1>i. TypeInv /\ Ends /\ "e" \in Tiers
    BY DEF Inv, IndInv, Tiers
  <1>1. UNCHANGED <<class, gone, threads, tcpc>> /\ sigusr1' = alive["tc"] /\ Full("e")
    BY DEF EKill, cliVars
  <1>2. SameOwners
    BY <1>1 DEF SameOwners, clients_no
  <1>3. sold' = sold /\ (gone # {})' = (gone # {}) /\ class' = class
    BY <1>1, <1>2, SoldSame
  <1>4. Len(sold["e"]) >= MaxClients["e"]
    BY <1>i, <1>1, OwnersSeq DEF sold, Full
  <1>5. Closing' = TRUE
    BY <1>i, <1>1 DEF Ends, Closing, TypeInv, TypeOK
  <1> QED
    BY <1>3, <1>4, <1>5 DEF Office!Close, Office!SoldOut, sold

\* Every step of the programs is a step of the office or invisible to it.
LEMMA OfficeStep == Inv /\ Inv' /\ [Next]_vars => [Office!Next]_(Office!vars)
  <1> SUFFICES ASSUME Inv, Inv', [Next]_vars
               PROVE  Office!Next \/ UNCHANGED officeVars
    BY DEF officeVars, sold, Office!vars
  <1>1. CASE UNCHANGED vars
    <2>1. UNCHANGED <<class, gone, threads, tcpc, sigusr1>>
      BY <1>1 DEF vars, cliVars, tcVars, tierVars
    <2>2. SameOwners
      BY <2>1 DEF SameOwners, clients_no
    <2> QED
      BY <2>1, <2>2, SoldSame DEF officeVars, Closing
  <1>2. ASSUME NEW c \in Clients, ClientStep(c) PROVE Office!Next \/ UNCHANGED officeVars
    BY <1>2, OfficeClient DEF Office!Next
  <1>3. CASE TcStep
    BY <1>3, OfficeTc DEF Office!Next
  <1>4. ASSUME NEW t \in Tiers, TierSpawn(t) PROVE Office!Next
    BY <1>4, OfficeSpawn DEF Office!Next, Office!Tiers, Tiers
  <1>5. ASSUME NEW t \in Tiers, TierStep(t) \/ ThreadStep(t), ~TierSpawn(t)
        PROVE  UNCHANGED officeVars
    BY <1>5, OfficeTier
  <1>6. CASE EKill
    BY <1>6, OfficeKill DEF Office!Next
  <1>7. CASE EExit
    BY <1>7, OfficeTier DEF Tiers
  <1> QED
    BY <1>1, <1>2, <1>3, <1>4, <1>5, <1>6, <1>7 DEF Next

\* The counter and the three class servers implement the ticket office, for every
\* set of clients, all capacities and both layouts of the stack: no client gets two
\* tickets or one of the wrong class, and no ticket is wasted on a phantom before a
\* client has left or the office closes.
THEOREM Implementation == Spec => ImplementsOffice
  <1>1. Spec => []Inv
    BY InvAlways
  <1>2. Init => Office!Init
    BY OfficeInit
  <1>3. Inv /\ Inv' /\ [Next]_vars => [Office!Next]_(Office!vars)
    BY OfficeStep
  <1> QED
    BY <1>1, <1>2, <1>3, PTL DEF Spec, ImplementsOffice, Office!Spec

-----------------------------------------------------------------------------
(***************************************************************************)
(* What a thread will read. A thread keeps the address of a stack slot of   *)
(* the main loop and loads it late, so that the slot matters as much as the *)
(* descriptor it has loaded: neither is the client of an earlier ticket.    *)
(***************************************************************************)
NotStale ==
    \A t \in Tiers : \A i, j \in 1..clients_no(t) :
        i < j /\ threads[t][i].own # Junk =>
            /\ threads[t][j].fd # threads[t][i].own
            /\ slot[t][threads[t][j].cell] # threads[t][i].own

LEMMA StaleDies ==
    ASSUME TypeOK, NotStale, NEW t \in Tiers, TierDies(t)
    PROVE  NotStale'
  <1>1. /\ \A u \in Tiers : clients_no(u)' = clients_no(u)
        /\ \A u \in Tiers : \A i \in 1..clients_no(u) :
              threads'[u][i].own = threads[u][i].own
    BY TierDiesOwners
  <1>t. /\ threads \in [Tiers -> Seq(Threads)] /\ slot \in [Tiers -> [Sources -> Fds]]
        /\ \A u \in Tiers : Len(threads[u]) \in Nat
        /\ \A u \in Tiers : \A i \in 1..Len(threads[u]) : threads[u][i] \in Threads
    BY DEF TypeOK
  <1>2. \A i \in 1..clients_no(t) :
           threads'[t][i].fd = Unread /\ threads'[t][i].cell = threads[t][i].cell
    BY <1>t DEF TierDies, clients_no, Threads
  <1>3. \A u \in Tiers \ {t} : threads'[u] = threads[u] /\ slot'[u] = slot[u]
    BY <1>t DEF TierDies
  <1>4. \A src \in Sources : slot'[t][src] = Junk
    BY <1>t DEF TierDies
  <1>5. \A i \in 1..clients_no(t) : threads[t][i].own # Unread /\ threads[t][i].cell \in Sources
    BY <1>t DEF clients_no, Threads, Fds
  <1>6. ASSUME NEW u \in Tiers, NEW i \in 1..clients_no(u), NEW j \in 1..clients_no(u),
               i < j, threads[u][i].own # Junk
        PROVE  /\ threads'[u][j].fd # threads[u][i].own
               /\ slot'[u][threads'[u][j].cell] # threads[u][i].own
    <2>1. CASE u = t
      BY <1>2, <1>4, <1>5, <1>6, <2>1
    <2>2. CASE u # t
      BY <1>3, <1>6, <2>2 DEF NotStale
    <2> QED
      BY <2>1, <2>2
  <1> QED
    BY <1>1, <1>6 DEF NotStale

LEMMA StaleStep ==
    ASSUME Inv, NotStale, [Next]_vars
    PROVE  NotStale'
  <1>i. TypeOK /\ TypeInv /\ OnePlace /\ OneKind /\ OneFlies
    BY DEF Inv, TypeInv, OnePlace
  <1>t. /\ threads \in [Tiers -> Seq(Threads)] /\ slot \in [Tiers -> [Sources -> Fds]]
        /\ \A u \in Tiers : Len(threads[u]) \in Nat
        /\ \A u \in Tiers : \A i \in 1..Len(threads[u]) : threads[u][i] \in Threads
    BY <1>i DEF TypeOK
  <1>o. \A u \in Tiers : \A i \in 1..clients_no(u) :
           /\ threads[u][i].own \in Fds /\ threads[u][i].own # Unread
           /\ threads[u][i].cell \in Sources
    BY <1>t DEF clients_no, Threads, Fds
  <1>1. ASSUME UNCHANGED <<threads, slot>> PROVE NotStale'
    BY <1>1 DEF NotStale, clients_no
  <1>2. ASSUME NEW c \in Clients, ClientStep(c) PROVE NotStale'
    BY <1>1, <1>2 DEF ClientStep, ClientConnect, ClientRefused, ClientSend, ClientQuit,
                      ClientHangup, tierVars
  <1>3. CASE TcStep
    BY <1>1, <1>3 DEF TcStep, TcAccept, TcRecv, TcIgnore, TcDispatch, TcBroken, TcSignal,
                      TcExit, TcDies, tierVars
  <1>4. ASSUME NEW t \in Tiers, NEW src \in Sources, TierRecv(t, src) PROVE NotStale'
    <2>1. /\ threads' = threads
          /\ slot' = [slot EXCEPT ![t][Cell(src)] = Received(<<src, t>>)]
      BY <1>4 DEF TierRecv
    <2>2. \A u \in Tiers : \A i \in 1..clients_no(u) :
             threads[u][i].own # Junk => Received(<<src, t>>) # threads[u][i].own
      <3> SUFFICES ASSUME NEW u \in Tiers, NEW i \in 1..clients_no(u),
                          threads[u][i].own # Junk,
                          Received(<<src, t>>) = threads[u][i].own
                   PROVE  FALSE
        OBVIOUS
      <3>1. threads[u][i].own \in Clients
        BY <1>o DEF Fds
      <3>2. Flies(threads[u][i].own)
        BY <1>4, <1>i, <3>1, ReceivedLeaves
      <3>3. HasTicket(threads[u][i].own)
        BY DEF HasTicket, Sold
      <3> QED
        BY <1>i, <3>1, <3>2, <3>3 DEF OneKind
    <2>3. \A u \in Tiers : \A x \in Sources :
             slot'[u][x] = slot[u][x] \/ slot'[u][x] = Received(<<src, t>>)
      BY <1>t, <2>1
    <2> QED
      BY <1>o, <2>1, <2>2, <2>3 DEF NotStale, clients_no
  <1>5. ASSUME NEW t \in Tiers, TierSpawn(t) PROVE NotStale'
    <2>1. /\ \A u \in Tiers \ {t} : threads'[u] = threads[u]
          /\ clients_no(t)' = clients_no(t) + 1
          /\ threads'[t][clients_no(t) + 1].own = Held(t)
          /\ \A i \in 1..clients_no(t) : threads'[t][i] = threads[t][i]
      BY <1>5, <1>i, SpawnOwners
    <2>2. /\ threads'[t][clients_no(t) + 1].fd = Unread
          /\ threads'[t][clients_no(t) + 1].cell = Cell(at[t])
          /\ slot' = slot /\ at[t] \in Sources
      BY <1>5, <1>t DEF TierSpawn, clients_no
    <2>3. \A i \in 1..clients_no(t) : threads[t][i].own # Junk => Held(t) # threads[t][i].own
      <3> SUFFICES ASSUME NEW i \in 1..clients_no(t), threads[t][i].own # Junk,
                          Held(t) = threads[t][i].own
                   PROVE  FALSE
        OBVIOUS
      <3>1. threads[t][i].own \in Clients
        BY <1>o DEF Fds
      <3>2. IsHeld(threads[t][i].own)
        BY <2>2 DEF IsHeld
      <3>3. HasTicket(threads[t][i].own)
        BY DEF HasTicket, Sold
      <3> QED
        BY <1>i, <3>1, <3>2, <3>3 DEF OneKind
    <2>4. ASSUME NEW i \in 1..(clients_no(t) + 1), NEW j \in 1..(clients_no(t) + 1),
                 i < j, threads'[t][i].own # Junk
          PROVE  /\ threads'[t][j].fd # threads'[t][i].own
                 /\ slot'[t][threads'[t][j].cell] # threads'[t][i].own
      <3>n. clients_no(t) \in Nat
        BY <1>t DEF clients_no
      <3>1. i \in 1..clients_no(t) /\ threads'[t][i] = threads[t][i]
        BY <2>1, <2>4, <3>n
      <3>2. CASE j \in 1..clients_no(t)
        BY <2>1, <2>2, <2>4, <3>1, <3>2 DEF NotStale
      <3>3. CASE j = clients_no(t) + 1
        BY <1>o, <2>2, <2>3, <2>4, <3>1, <3>3 DEF Held
      <3> QED
        BY <3>2, <3>3, <3>n
    <2>5. \A u \in Tiers \ {t} : clients_no(u)' = clients_no(u)
      BY <2>1 DEF clients_no
    <2> QED
      BY <2>1, <2>2, <2>4, <2>5 DEF NotStale
  <1>6. ASSUME NEW t \in Tiers, TierForward(t) PROVE NotStale'
    BY <1>1, <1>6 DEF TierForward
  <1>7. ASSUME NEW t \in Tiers, NEW k \in 1..clients_no(t), ThreadLoad(t, k) PROVE NotStale'
    <2>1. SameOwners
      BY <1>7, <1>i, ThreadLoadOwners DEF SameOwners
    <2>2. slot' = slot
      BY <1>7 DEF ThreadLoad
    <2>3. \A u \in Tiers : \A j \in 1..clients_no(u) :
             /\ threads'[u][j].cell = threads[u][j].cell
             /\ \/ threads'[u][j].fd = threads[u][j].fd
                \/ threads'[u][j].fd = slot[u][threads[u][j].cell]
      BY <1>7, <1>t DEF ThreadLoad, clients_no, Threads
    <2> QED
      BY <2>1, <2>2, <2>3 DEF NotStale, SameOwners
  <1>8. ASSUME NEW t \in Tiers, TierBroken(t) \/ ThreadStep(t) PROVE NotStale'
    BY <1>7, <1>8, <1>i, StaleDies DEF TierBroken, ThreadStep, ThreadBroken
  <1>9. CASE EKill
    BY <1>1, <1>9 DEF EKill
  <1>10. CASE EExit
    BY <1>10, <1>i, StaleDies DEF EExit, Tiers
  <1>11. CASE UNCHANGED vars
    BY <1>1, <1>11 DEF vars, tierVars
  <1> QED
    BY <1>2, <1>3, <1>4, <1>5, <1>6, <1>8, <1>9, <1>10, <1>11 DEF Next, TierStep

\* Threads read their descriptor late, from the slot of the main loop (c.c:98,154;
\* s.c:99,186,202; e.c:69,157,171), and may miss their own client; but however long
\* they are delayed, and in both layouts of the stack, none serves the client of an
\* earlier ticket.
THEOREM ServiceNeverStale == Spec => []NoStaleService
  <1>1. Init => NotStale
    BY DEF Init, NotStale, clients_no
  <1>2. Inv /\ NotStale /\ [Next]_vars => NotStale'
    BY StaleStep
  <1>3. NotStale => NoStaleService
    BY DEF NotStale, NoStaleService
  <1> QED
    BY <1>1, <1>2, <1>3, InvAlways, PTL DEF Spec
=============================================================================
