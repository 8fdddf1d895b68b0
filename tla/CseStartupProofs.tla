-------------------------- MODULE CseStartupProofs --------------------------
(***************************************************************************)
(* Proofs about programs that their users start, and stop, in any order.   *)
(* CseStartup: however often the programs of the ticket counter are        *)
(* started, fail and are started again, e has a fresh pid and a process    *)
(* that has connected keeps its peer.  FifoStation: until a user stops a   *)
(* program a platform takes in at most one train before its announcement,  *)
(* and a train arrives once at most for each time it was started.          *)
(***************************************************************************)
EXTENDS MCStarts, FiniteSetTheorems, SequenceTheorems, WellFoundedInduction, TLAPS

(***************************************************************************)
(* The inductive invariant                                                 *)
(***************************************************************************)
\* where the process at one end of a link connects, and the other one accepts
ConnectAt(l) ==
    IF l[1] # "tc" THEN 1 ELSE IF l[2] = "c" THEN 2 ELSE IF l[2] = "s" THEN 4 ELSE 6
AcceptAt(l) ==
    IF l[1] = "s" THEN 3 ELSE IF l[2] = "c" THEN 4
    ELSE IF l[1] = "tc" /\ l[2] = "s" THEN 7 ELSE 5

Types ==
    /\ pc \in [Procs -> 0..9]
    /\ \A p \in Procs : pc[p] <= Len(Program[p]) + 1
    /\ gen \in [Procs -> Pids]
    /\ listening \subseteq Links
    /\ queue \in [Links -> Seq(1..MaxStarts)]
    /\ conn \in [Links -> Pids]
    /\ greeted \subseteq Links \X (1..MaxStarts)
    /\ shm \in Pids
    /\ pid \in Pids
    /\ halfway \in BOOLEAN

\* A process that runs has a pid.
HasPid == \A p \in Procs : Up(p) => gen[p] >= 1

\* Nothing has come to a process that has not got beyond its first step: where a
\* program can fail it does so there, so that it takes no connection with it.
NothingYet ==
    \A l \in Links : pc[l[2]] <= 1 => l \notin listening /\ queue[l] = <<>> /\ conn[l] = 0

\* Whoever is beyond the accept of a link has the connection.
Accepted == \A l \in Links : pc[l[2]] > AcceptAt(l) => conn[l] >= 1

\* The pid in shared memory is the counter's once it has published it, and no older
\* than any counter that ever connected to e.
Published ==
    /\ shm <= gen["tc"]
    /\ pc["tc"] > 1 => shm = gen["tc"]
    /\ conn[<<"tc", "e">>] <= shm
    /\ \A n \in 1..Len(queue[<<"tc", "e">>]) : queue[<<"tc", "e">>][n] <= shm

\* What is on a link is one connection, of the process that now runs, and only
\* after it has connected; a counter that gave up half-way leaves others behind.
OneConnection ==
    \A l \in Links : l[1] # "tc" \/ ~halfway =>
        IF pc[l[1]] > ConnectAt(l)
        THEN \/ conn[l] = 0 /\ queue[l] = <<gen[l[1]]>>
             \/ conn[l] = gen[l[1]] /\ queue[l] = <<>>
        ELSE conn[l] = 0 /\ queue[l] = <<>>

Inv == Types /\ HasPid /\ NothingYet /\ Accepted /\ Published /\ OneConnection /\ FreshPid

-----------------------------------------------------------------------------
(***************************************************************************)
(* The scripts                                                             *)
(***************************************************************************)
\* What the four scripts are, step by step.
LEMMA StepsOfTc ==
    /\ Len(Program["tc"]) = 7
    /\ Program["tc"][1].op = "publish" /\ Program["tc"][1].link = <<"tc", "e">>
    /\ Program["tc"][2].op = "connect" /\ Program["tc"][2].link = <<"tc", "c">>
    /\ Program["tc"][3].op = "greet" /\ Program["tc"][3].link = <<"tc", "c">>
    /\ Program["tc"][4].op = "connect" /\ Program["tc"][4].link = <<"tc", "s">>
    /\ Program["tc"][5].op = "greet" /\ Program["tc"][5].link = <<"tc", "s">>
    /\ Program["tc"][6].op = "connect" /\ Program["tc"][6].link = <<"tc", "e">>
    /\ Program["tc"][7].op = "greet" /\ Program["tc"][7].link = <<"tc", "e">>
  BY DEF Program, ProgramTc, Op, Plain, Connect, Greet

LEMMA StepsOfC ==
    /\ Len(Program["c"]) = 5
    /\ Program["c"][1].op = "connect" /\ Program["c"][1].link = <<"c", "s">>
    /\ Program["c"][2].op = "greet" /\ Program["c"][2].link = <<"c", "s">>
    /\ Program["c"][3].op = "listen" /\ Program["c"][3].link = <<"tc", "c">>
    /\ Program["c"][4].op = "accept" /\ Program["c"][4].link = <<"tc", "c">>
    /\ Program["c"][5].op = "recv" /\ Program["c"][5].link = <<"tc", "c">>
  BY DEF Program, ProgramC, Op, Connect, Greet, Listen, Accept, Recv

LEMMA StepsOfS ==
    /\ Len(Program["s"]) = 8
    /\ Program["s"][1].op = "connect" /\ Program["s"][1].link = <<"s", "e">>
    /\ Program["s"][2].op = "greet" /\ Program["s"][2].link = <<"s", "e">>
    /\ Program["s"][3].op = "listen" /\ Program["s"][3].link = <<"tc", "s">>
    /\ Program["s"][4].op = "listen" /\ Program["s"][4].link = <<"c", "s">>
    /\ Program["s"][5].op = "accept" /\ Program["s"][5].link = <<"c", "s">>
    /\ Program["s"][6].op = "recv" /\ Program["s"][6].link = <<"c", "s">>
    /\ Program["s"][7].op = "accept" /\ Program["s"][7].link = <<"tc", "s">>
    /\ Program["s"][8].op = "recv" /\ Program["s"][8].link = <<"tc", "s">>
  BY DEF Program, ProgramS, Op, Connect, Greet, Listen, Accept, Recv

LEMMA StepsOfE ==
    /\ Len(Program["e"]) = 7
    /\ Program["e"][1].op = "listen" /\ Program["e"][1].link = <<"tc", "e">>
    /\ Program["e"][2].op = "listen" /\ Program["e"][2].link = <<"s", "e">>
    /\ Program["e"][3].op = "accept" /\ Program["e"][3].link = <<"s", "e">>
    /\ Program["e"][4].op = "recv" /\ Program["e"][4].link = <<"s", "e">>
    /\ Program["e"][5].op = "accept" /\ Program["e"][5].link = <<"tc", "e">>
    /\ Program["e"][6].op = "recv" /\ Program["e"][6].link = <<"tc", "e">>
    /\ Program["e"][7].op = "gettspid" /\ Program["e"][7].link = <<"tc", "e">>
  BY DEF Program, ProgramE, Op, Listen, Accept, Recv, Plain

\* The links, and which processes they join.
LEMMA LinkFacts ==
    ASSUME NEW l \in Links
    PROVE  /\ l[1] \in Procs /\ l[2] \in Procs
           /\ ConnectAt(l) \in 1..6 /\ AcceptAt(l) \in 3..7
  BY DEF Links, Procs, ConnectAt, AcceptAt

\* A process that is up and not in its loop is at a step of its script.
LEMMA AtStep ==
    ASSUME Types, NEW p \in Procs, NEW op, AtOp(p, op)
    PROVE  /\ pc[p] \in 1..Len(Program[p]) /\ Len(Program[p]) \in Nat
           /\ Program[p][pc[p]].op = op
  <1>1. Len(Program[p]) \in Nat
    <2>1. /\ Len(Program["tc"]) = 7 /\ Len(Program["c"]) = 5
          /\ Len(Program["s"]) = 8 /\ Len(Program["e"]) = 7
      BY StepsOfTc, StepsOfC, StepsOfS, StepsOfE
    <2>2. p = "tc" \/ p = "c" \/ p = "s" \/ p = "e"
      BY DEF Procs
    <2> QED
      BY <2>1, <2>2
  <1>2. pc[p] \in Nat /\ pc[p] <= Len(Program[p]) + 1
    BY DEF Types
  <1> QED
    BY <1>1, <1>2 DEF AtOp, Up, InLoop

\* Where the steps of each kind are, and on which link.
LEMMA ConnectSteps ==
    ASSUME NEW p \in Procs, NEW n \in 1..Len(Program[p]), Program[p][n].op = "connect",
           NEW l, l = Program[p][n].link
    PROVE  /\ l \in Links /\ l[1] = p /\ n = ConnectAt(l)
           /\ p # "e" /\ (p # "tc" => n = 1) /\ (p = "tc" => n > 1)
  <1>1. CASE p = "tc"
    <2>0. n \in {2, 4, 6}
      BY <1>1, StepsOfTc
    <2>1. CASE n = 2
      BY <1>1, <2>1, StepsOfTc DEF Links, ConnectAt
    <2>2. CASE n = 4
      BY <1>1, <2>2, StepsOfTc DEF Links, ConnectAt
    <2>3. CASE n = 6
      BY <1>1, <2>3, StepsOfTc DEF Links, ConnectAt
    <2> QED
      BY <2>0, <2>1, <2>2, <2>3
  <1>2. CASE p = "c"
    <2>0. n \in {1}
      BY <1>2, StepsOfC
    <2>1. CASE n = 1
      BY <1>2, <2>1, StepsOfC DEF Links, ConnectAt
    <2> QED
      BY <2>0, <2>1
  <1>3. CASE p = "s"
    <2>0. n \in {1}
      BY <1>3, StepsOfS
    <2>1. CASE n = 1
      BY <1>3, <2>1, StepsOfS DEF Links, ConnectAt
    <2> QED
      BY <2>0, <2>1
  <1>4. CASE p = "e"
    BY <1>4, StepsOfE
  <1> QED
    BY <1>1, <1>2, <1>3, <1>4 DEF Procs

LEMMA AcceptSteps ==
    ASSUME NEW p \in Procs, NEW n \in 1..Len(Program[p]), Program[p][n].op = "accept",
           NEW l, l = Program[p][n].link
    PROVE  l \in Links /\ l[2] = p /\ n = AcceptAt(l) /\ n > 1
  <1>1. CASE p = "tc"
    BY <1>1, StepsOfTc
  <1>2. CASE p = "c"
    <2>0. n \in {4}
      BY <1>2, StepsOfC
    <2>1. CASE n = 4
      BY <1>2, <2>1, StepsOfC DEF Links, AcceptAt
    <2> QED
      BY <2>0, <2>1
  <1>3. CASE p = "s"
    <2>0. n \in {5, 7}
      BY <1>3, StepsOfS
    <2>1. CASE n = 5
      BY <1>3, <2>1, StepsOfS DEF Links, AcceptAt
    <2>2. CASE n = 7
      BY <1>3, <2>2, StepsOfS DEF Links, AcceptAt
    <2> QED
      BY <2>0, <2>1, <2>2
  <1>4. CASE p = "e"
    <2>0. n \in {3, 5}
      BY <1>4, StepsOfE
    <2>1. CASE n = 3
      BY <1>4, <2>1, StepsOfE DEF Links, AcceptAt
    <2>2. CASE n = 5
      BY <1>4, <2>2, StepsOfE DEF Links, AcceptAt
    <2> QED
      BY <2>0, <2>1, <2>2
  <1> QED
    BY <1>1, <1>2, <1>3, <1>4 DEF Procs

LEMMA RecvSteps ==
    ASSUME NEW p \in Procs, NEW n \in 1..Len(Program[p]), Program[p][n].op = "recv",
           NEW l, l = Program[p][n].link
    PROVE  l \in Links /\ l[2] = p /\ n = AcceptAt(l) + 1
  <1>1. CASE p = "tc"
    BY <1>1, StepsOfTc
  <1>2. CASE p = "c"
    <2>0. n \in {5}
      BY <1>2, StepsOfC
    <2>1. CASE n = 5
      BY <1>2, <2>1, StepsOfC DEF Links, AcceptAt
    <2> QED
      BY <2>0, <2>1
  <1>3. CASE p = "s"
    <2>0. n \in {6, 8}
      BY <1>3, StepsOfS
    <2>1. CASE n = 6
      BY <1>3, <2>1, StepsOfS DEF Links, AcceptAt
    <2>2. CASE n = 8
      BY <1>3, <2>2, StepsOfS DEF Links, AcceptAt
    <2> QED
      BY <2>0, <2>1, <2>2
  <1>4. CASE p = "e"
    <2>0. n \in {4, 6}
      BY <1>4, StepsOfE
    <2>1. CASE n = 4
      BY <1>4, <2>1, StepsOfE DEF Links, AcceptAt
    <2>2. CASE n = 6
      BY <1>4, <2>2, StepsOfE DEF Links, AcceptAt
    <2> QED
      BY <2>0, <2>1, <2>2
  <1> QED
    BY <1>1, <1>2, <1>3, <1>4 DEF Procs

LEMMA ListenSteps ==
    ASSUME NEW p \in Procs, NEW n \in 1..Len(Program[p]), Program[p][n].op = "listen",
           NEW l, l = Program[p][n].link
    PROVE  l \in Links /\ l[2] = p
  <1>1. CASE p = "tc"
    BY <1>1, StepsOfTc
  <1>2. CASE p = "c"
    <2>0. n \in {3}
      BY <1>2, StepsOfC
    <2>1. CASE n = 3
      BY <1>2, <2>1, StepsOfC DEF Links
    <2> QED
      BY <2>0, <2>1
  <1>3. CASE p = "s"
    <2>0. n \in {3, 4}
      BY <1>3, StepsOfS
    <2>1. CASE n = 3
      BY <1>3, <2>1, StepsOfS DEF Links
    <2>2. CASE n = 4
      BY <1>3, <2>2, StepsOfS DEF Links
    <2> QED
      BY <2>0, <2>1, <2>2
  <1>4. CASE p = "e"
    <2>0. n \in {1, 2}
      BY <1>4, StepsOfE
    <2>1. CASE n = 1
      BY <1>4, <2>1, StepsOfE DEF Links
    <2>2. CASE n = 2
      BY <1>4, <2>2, StepsOfE DEF Links
    <2> QED
      BY <2>0, <2>1, <2>2
  <1> QED
    BY <1>1, <1>2, <1>3, <1>4 DEF Procs

LEMMA GreetSteps ==
    ASSUME NEW p \in Procs, NEW n \in 1..Len(Program[p]), Program[p][n].op = "greet",
           NEW l, l = Program[p][n].link
    PROVE  l \in Links /\ l[1] = p
  <1>1. CASE p = "tc"
    <2>0. n \in {3, 5, 7}
      BY <1>1, StepsOfTc
    <2>1. CASE n = 3
      BY <1>1, <2>1, StepsOfTc DEF Links
    <2>2. CASE n = 5
      BY <1>1, <2>2, StepsOfTc DEF Links
    <2>3. CASE n = 7
      BY <1>1, <2>3, StepsOfTc DEF Links
    <2> QED
      BY <2>0, <2>1, <2>2, <2>3
  <1>2. CASE p = "c"
    <2>0. n \in {2}
      BY <1>2, StepsOfC
    <2>1. CASE n = 2
      BY <1>2, <2>1, StepsOfC DEF Links
    <2> QED
      BY <2>0, <2>1
  <1>3. CASE p = "s"
    <2>0. n \in {2}
      BY <1>3, StepsOfS
    <2>1. CASE n = 2
      BY <1>3, <2>1, StepsOfS DEF Links
    <2> QED
      BY <2>0, <2>1
  <1>4. CASE p = "e"
    BY <1>4, StepsOfE
  <1> QED
    BY <1>1, <1>2, <1>3, <1>4 DEF Procs

\* A place and a pid are numbers.
LEMMA Places == ASSUME Types, NEW p \in Procs PROVE pc[p] \in Nat /\ gen[p] \in Nat
  <1>1. pc \in [Procs -> 0..9] /\ gen \in [Procs -> Pids]
    BY DEF Types
  <1> QED
    BY <1>1 DEF Pids

\* The scripts have between five and eight steps.
LEMMA Lengths == ASSUME NEW p \in Procs PROVE Len(Program[p]) \in 5..8
  <1>1. CASE p = "tc"
    BY <1>1, StepsOfTc
  <1>2. CASE p = "c"
    BY <1>2, StepsOfC
  <1>3. CASE p = "s"
    BY <1>3, StepsOfS
  <1>4. CASE p = "e"
    BY <1>4, StepsOfE
  <1> QED
    BY <1>1, <1>2, <1>3, <1>4 DEF Procs

\* The connect and the accept of each link.
LEMMA LinkSteps ==
    ASSUME NEW l \in Links
    PROVE  /\ ConnectAt(l) \in 1..Len(Program[l[1]])
           /\ Program[l[1]][ConnectAt(l)].op = "connect"
           /\ Program[l[1]][ConnectAt(l)].link = l
           /\ Program[l[1]][ConnectAt(l)] = Connect(l)
           /\ AcceptAt(l) \in 1..Len(Program[l[2]])
           /\ Program[l[2]][AcceptAt(l)].op = "accept"
           /\ Program[l[2]][AcceptAt(l)].link = l
  <1>1. CASE l = <<"tc", "c">>
    <2>1. ConnectAt(l) = 2 /\ AcceptAt(l) = 4 /\ l[1] = "tc" /\ l[2] = "c"
      BY <1>1 DEF ConnectAt, AcceptAt
    <2>2. Program["tc"][2] = Connect(l)
      BY <1>1 DEF Program, ProgramTc
    <2>3. /\ Len(Program["tc"]) = 7 /\ Program["tc"][2].op = "connect"
          /\ Program["tc"][2].link = l
      BY <1>1, StepsOfTc
    <2>4. /\ Len(Program["c"]) = 5 /\ Program["c"][4].op = "accept"
          /\ Program["c"][4].link = l
      BY <1>1, StepsOfC
    <2> QED
      BY <2>1, <2>2, <2>3, <2>4
  <1>2. CASE l = <<"tc", "s">>
    <2>1. ConnectAt(l) = 4 /\ AcceptAt(l) = 7 /\ l[1] = "tc" /\ l[2] = "s"
      BY <1>2 DEF ConnectAt, AcceptAt
    <2>2. Program["tc"][4] = Connect(l)
      BY <1>2 DEF Program, ProgramTc
    <2>3. /\ Len(Program["tc"]) = 7 /\ Program["tc"][4].op = "connect"
          /\ Program["tc"][4].link = l
      BY <1>2, StepsOfTc
    <2>4. /\ Len(Program["s"]) = 8 /\ Program["s"][7].op = "accept"
          /\ Program["s"][7].link = l
      BY <1>2, StepsOfS
    <2> QED
      BY <2>1, <2>2, <2>3, <2>4
  <1>3. CASE l = <<"tc", "e">>
    <2>1. ConnectAt(l) = 6 /\ AcceptAt(l) = 5 /\ l[1] = "tc" /\ l[2] = "e"
      BY <1>3 DEF ConnectAt, AcceptAt
    <2>2. Program["tc"][6] = Connect(l)
      BY <1>3 DEF Program, ProgramTc
    <2>3. /\ Len(Program["tc"]) = 7 /\ Program["tc"][6].op = "connect"
          /\ Program["tc"][6].link = l
      BY <1>3, StepsOfTc
    <2>4. /\ Len(Program["e"]) = 7 /\ Program["e"][5].op = "accept"
          /\ Program["e"][5].link = l
      BY <1>3, StepsOfE
    <2> QED
      BY <2>1, <2>2, <2>3, <2>4
  <1>4. CASE l = <<"c", "s">>
    <2>1. ConnectAt(l) = 1 /\ AcceptAt(l) = 5 /\ l[1] = "c" /\ l[2] = "s"
      BY <1>4 DEF ConnectAt, AcceptAt
    <2>2. Program["c"][1] = Connect(l)
      BY <1>4 DEF Program, ProgramC
    <2>3. /\ Len(Program["c"]) = 5 /\ Program["c"][1].op = "connect"
          /\ Program["c"][1].link = l
      BY <1>4, StepsOfC
    <2>4. /\ Len(Program["s"]) = 8 /\ Program["s"][5].op = "accept"
          /\ Program["s"][5].link = l
      BY <1>4, StepsOfS
    <2> QED
      BY <2>1, <2>2, <2>3, <2>4
  <1>5. CASE l = <<"s", "e">>
    <2>1. ConnectAt(l) = 1 /\ AcceptAt(l) = 3 /\ l[1] = "s" /\ l[2] = "e"
      BY <1>5 DEF ConnectAt, AcceptAt
    <2>2. Program["s"][1] = Connect(l)
      BY <1>5 DEF Program, ProgramS
    <2>3. /\ Len(Program["s"]) = 8 /\ Program["s"][1].op = "connect"
          /\ Program["s"][1].link = l
      BY <1>5, StepsOfS
    <2>4. /\ Len(Program["e"]) = 7 /\ Program["e"][3].op = "accept"
          /\ Program["e"][3].link = l
      BY <1>5, StepsOfE
    <2> QED
      BY <2>1, <2>2, <2>3, <2>4
  <1> QED
    BY <1>1, <1>2, <1>3, <1>4, <1>5 DEF Links

\* Whether a process has connected is seen from where it is.
LEMMA PastConnect ==
    ASSUME Types, NEW l \in Links
    PROVE  Past(l[1], Connect(l)) <=> pc[l[1]] > ConnectAt(l)
  <1> PICK p : p = l[1]
    OBVIOUS
  <1>0. p \in Procs /\ pc[p] \in Nat /\ ConnectAt(l) \in Nat
    <2>1. p \in Procs /\ ConnectAt(l) \in 1..6
      BY LinkFacts
    <2>2. pc \in [Procs -> 0..9]
      BY DEF Types
    <2> QED
      BY <2>1, <2>2
  <1>1. ASSUME NEW n \in 1..(pc[p] - 1), n <= Len(Program[p]), Program[p][n] = Connect(l)
        PROVE  pc[p] > ConnectAt(l)
    <2>1. Len(Program[p]) \in Nat
      BY <1>0, Lengths
    <2>2. n \in 1..Len(Program[p])
      BY <1>1, <2>1
    <2>3. Program[p][n].op = "connect" /\ Program[p][n].link = l
      BY <1>1 DEF Connect, Op
    <2>4. n = ConnectAt(l)
      BY <1>0, <2>2, <2>3, ConnectSteps
    <2> QED
      BY <1>0, <2>4
  <1>2. ASSUME pc[p] > ConnectAt(l)
        PROVE  \E n \in 1..(pc[p] - 1) : n <= Len(Program[p]) /\ Program[p][n] = Connect(l)
    <2>1. Len(Program[p]) \in Nat
      BY <1>0, Lengths
    <2>2. ConnectAt(l) \in 1..Len(Program[p]) /\ Program[p][ConnectAt(l)] = Connect(l)
      BY LinkSteps
    <2>3. ConnectAt(l) \in 1..(pc[p] - 1) /\ ConnectAt(l) <= Len(Program[p])
      BY <1>0, <1>2, <2>1, <2>2
    <2> QED
      BY <2>2, <2>3
  <1> QED
    BY <1>1, <1>2 DEF Past

\* What a step of process p does to the places.
LEMMA Advance ==
    ASSUME Types, NEW p \in Procs, NEW op, AtOp(p, op), Proceed(p)
    PROVE  /\ pc' \in [Procs -> 0..9]
           /\ \A q \in Procs : pc'[q] <= Len(Program[q]) + 1
           /\ pc[p] >= 1 /\ pc'[p] = pc[p] + 1
           /\ \A q \in Procs \ {p} : pc'[q] = pc[q]
           /\ \A q \in Procs : pc'[q] # 0 => pc[q] # 0
           /\ \A l \in Links : op # "connect" \/ l # TheLink(p) =>
                (pc'[l[1]] > ConnectAt(l) <=> pc[l[1]] > ConnectAt(l))
           /\ \A l \in Links : op # "accept" \/ l # TheLink(p) =>
                (pc'[l[2]] > AcceptAt(l) => pc[l[2]] > AcceptAt(l))
           /\ \A l \in Links : pc'[l[2]] <= 1 => pc[l[2]] <= 1
           /\ op # "publish" => (pc'["tc"] > 1 => pc["tc"] > 1)
           /\ op # "gettspid" => (pc'["e"] = 8 => pc["e"] = 8)
  <1>0. /\ pc[p] \in 1..Len(Program[p]) /\ Len(Program[p]) \in Nat
        /\ Program[p][pc[p]].op = op
    BY AtStep
  <1>1. pc'[p] = pc[p] + 1 /\ \A q \in Procs \ {p} : pc'[q] = pc[q]
    BY DEF Proceed, Types
  <1>2. \A q \in Procs : pc[q] \in Nat
    BY DEF Types
  <1>3. Len(Program[p]) \in 5..8
    BY Lengths
  <1>4. pc' \in [Procs -> 0..9]
    <2>0. \A n \in Nat, m \in 5..8 : n \in 1..m => n + 1 \in 0..9
      OBVIOUS
    <2>1. pc[p] + 1 \in 0..9
      BY <1>0, <1>2, <1>3, <2>0
    <2> QED
      BY <2>1 DEF Proceed, Types
  <1>5. \A q \in Procs : pc'[q] <= Len(Program[q]) + 1
    <2>1. pc'[p] <= Len(Program[p]) + 1
      BY <1>0, <1>1
    <2>2. \A q \in Procs : pc[q] <= Len(Program[q]) + 1
      BY DEF Types
    <2> QED
      BY <1>1, <2>1, <2>2
  <1>6. ASSUME NEW l \in Links, op # "connect" \/ l # TheLink(p)
        PROVE  pc'[l[1]] > ConnectAt(l) <=> pc[l[1]] > ConnectAt(l)
    <2>1. ~(p = l[1] /\ pc[p] = ConnectAt(l))
      BY <1>0, <1>6, LinkSteps DEF TheLink
    <2> QED
      BY <1>0, <1>1, <1>2, <2>1, LinkFacts
  <1>7. ASSUME NEW l \in Links, op # "accept" \/ l # TheLink(p)
        PROVE  pc'[l[2]] > AcceptAt(l) => pc[l[2]] > AcceptAt(l)
    <2>1. ~(p = l[2] /\ pc[p] = AcceptAt(l))
      BY <1>0, <1>7, LinkSteps DEF TheLink
    <2> QED
      BY <1>0, <1>1, <1>2, <2>1, LinkFacts
  <1>8. \A l \in Links : pc'[l[2]] <= 1 => pc[l[2]] <= 1
    BY <1>0, <1>1, <1>2, LinkFacts
  <1>9. op # "publish" => (pc'["tc"] > 1 => pc["tc"] > 1)
    BY <1>0, <1>1, <1>2, StepsOfTc DEF Procs
  <1>10. op # "gettspid" => (pc'["e"] = 8 => pc["e"] = 8)
    <2>1. CASE p = "e"
      <3>1. pc["e"] \in 1..7 /\ Program["e"][pc["e"]].op = op
        BY <1>0, <2>1, StepsOfE
      <3>2. CASE pc["e"] = 7
        BY <3>1, <3>2, StepsOfE
      <3>3. CASE pc["e"] # 7
        BY <1>1, <2>1, <3>1, <3>3
      <3> QED
        BY <3>2, <3>3
    <2>2. CASE p # "e"
      BY <1>1, <2>2 DEF Procs
    <2> QED
      BY <2>1, <2>2
  <1>11. \A q \in Procs : pc'[q] # 0 => pc[q] # 0
    BY <1>0, <1>1
  <1> QED
    BY <1>0, <1>1, <1>4, <1>5, <1>6, <1>7, <1>8, <1>9, <1>10, <1>11

-----------------------------------------------------------------------------
(***************************************************************************)
(* Each action preserves the invariant                                     *)
(***************************************************************************)
LEMMA InitInv == Init => Inv
  <1> SUFFICES ASSUME Init PROVE Inv
    OBVIOUS
  <1> USE StartsAssumption
  <1>1. \A p \in Procs : pc[p] = 0 /\ gen[p] = 0
    BY DEF Init
  <1>2. \A l \in Links : queue[l] = <<>> /\ conn[l] = 0
    BY DEF Init
  <1>3. \A l \in Links : /\ l[1] \in Procs /\ l[2] \in Procs
                         /\ ConnectAt(l) \in 1..6 /\ AcceptAt(l) \in 3..7
    BY LinkFacts
  <1>4. Types
    <2>1. \A p \in Procs : pc[p] <= Len(Program[p]) + 1
      <3>1. \A p \in Procs : Len(Program[p]) \in 5..8
        BY Lengths
      <3> QED
        BY <1>1, <3>1
    <2>2. 0 \in Pids /\ 0 \in 0..9
      BY DEF Pids
    <2>3. pc \in [Procs -> 0..9] /\ gen \in [Procs -> Pids] /\ conn \in [Links -> Pids]
      BY <2>2 DEF Init
    <2>4. queue \in [Links -> Seq(1..MaxStarts)]
      <3>1. <<>> \in Seq(1..MaxStarts)
        OBVIOUS
      <3> QED
        BY <3>1 DEF Init
    <2> QED
      BY <2>1, <2>2, <2>3, <2>4 DEF Init, Types
  <1>5. HasPid /\ FreshPid
    <2>1. HasPid
      BY <1>1 DEF HasPid, Up
    <2>2. pc["e"] = 0 /\ Len(Program["e"]) = 7
      BY <1>1, StepsOfE DEF Procs
    <2> QED
      BY <2>1, <2>2 DEF FreshPid, InLoop
  <1>6. NothingYet /\ Accepted /\ OneConnection
    <2>1. \A l \in Links : ~(pc[l[1]] > ConnectAt(l)) /\ ~(pc[l[2]] > AcceptAt(l))
      BY <1>1, <1>3
    <2>2. listening = {}
      BY DEF Init
    <2> QED
      BY <1>2, <2>1, <2>2 DEF NothingYet, Accepted, OneConnection
  <1>7. Published
    <2>1. "tc" \in Procs /\ <<"tc", "e">> \in Links
      BY DEF Procs, Links
    <2>2. gen["tc"] = 0 /\ pc["tc"] = 0 /\ conn[<<"tc", "e">>] = 0 /\ shm = 0
      BY <1>1, <1>2, <2>1 DEF Init
    <2>3. \A n \in 1..Len(queue[<<"tc", "e">>]) : FALSE
      BY <1>2, <2>1
    <2> QED
      BY <2>2, <2>3 DEF Published
  <1> QED
    BY <1>4, <1>5, <1>6, <1>7 DEF Inv

\* The clauses that a step of process p leaves alone when it moves nothing but places.
LEMMA PlacesOnly ==
    ASSUME Inv, NEW p \in Procs, NEW op, AtOp(p, op), Proceed(p),
           op \notin {"connect", "accept", "publish", "gettspid"},
           UNCHANGED <<gen, queue, conn, shm, pid, halfway>>
    PROVE  HasPid' /\ Accepted' /\ Published' /\ OneConnection' /\ FreshPid'
  <1> USE DEF Inv
  <1>1. HasPid'
    BY Advance DEF HasPid, Up
  <1>2. Accepted'
    BY Advance DEF Accepted
  <1>3. Published'
    BY Advance DEF Published
  <1>4. OneConnection'
    BY Advance DEF OneConnection
  <1>5. FreshPid'
    BY Advance, StepsOfE DEF FreshPid, InLoop
  <1> QED
    BY <1>1, <1>2, <1>3, <1>4, <1>5

LEMMA StartInv ==
    ASSUME Inv, NEW p \in Procs, Start(p)
    PROVE  Inv'
  <1> USE StartsAssumption DEF Inv
  <1>1. /\ pc[p] = 0 /\ pc'[p] = 1 /\ \A q \in Procs \ {p} : pc'[q] = pc[q]
        /\ gen'[p] = gen[p] + 1 /\ \A q \in Procs \ {p} : gen'[q] = gen[q]
        /\ \A q \in Procs : gen[q] \in Nat
    BY DEF Start, Types, Up, Pids
  <1>2. UNCHANGED <<listening, queue, conn, greeted, shm, pid, halfway>>
    BY DEF Start
  <1>3. Types'
    <2>1. gen[p] + 1 \in Pids
      BY <1>1 DEF Start, Types, Pids
    <2>2. pc' \in [Procs -> 0..9] /\ gen' \in [Procs -> Pids]
      BY <2>1 DEF Start, Types
    <2>3. \A q \in Procs : pc'[q] <= Len(Program[q]) + 1
      BY <1>1, Lengths DEF Types
    <2> QED
      BY <1>2, <2>2, <2>3 DEF Types
  <1>4. HasPid'
    BY <1>1 DEF HasPid, Up
  <1>5. NothingYet'
    BY <1>1, <1>2, LinkFacts DEF NothingYet
  <1>6. Accepted'
    BY <1>1, <1>2, LinkFacts DEF Accepted
  <1>7. Published'
    <2>1. shm \in Nat /\ "tc" \in Procs
      BY DEF Types, Pids, Procs
    <2> QED
      BY <1>1, <1>2, <2>1 DEF Published
  <1>8. OneConnection'
    <2> SUFFICES ASSUME NEW l \in Links, l[1] # "tc" \/ ~halfway
                 PROVE  IF pc'[l[1]] > ConnectAt(l)
                        THEN \/ conn[l] = 0 /\ queue[l] = <<gen'[l[1]]>>
                             \/ conn[l] = gen'[l[1]] /\ queue[l] = <<>>
                        ELSE conn[l] = 0 /\ queue[l] = <<>>
      BY <1>2 DEF OneConnection
    <2>1. l[1] \in Procs /\ ConnectAt(l) \in 1..6
      BY LinkFacts
    <2>2. CASE l[1] = p
      BY <1>1, <2>1, <2>2 DEF OneConnection
    <2>3. CASE l[1] # p
      BY <1>1, <2>1, <2>3 DEF OneConnection
    <2> QED
      BY <2>2, <2>3
  <1>9. FreshPid'
    BY <1>1, <1>2, StepsOfE DEF FreshPid, InLoop, Procs
  <1> QED
    BY <1>3, <1>4, <1>5, <1>6, <1>7, <1>8, <1>9

LEMMA ListenInv ==
    ASSUME Inv, NEW p \in Procs, ListenStep(p)
    PROVE  Inv'
  <1> USE DEF Inv
  <1>0. AtOp(p, "listen") /\ Proceed(p) /\ UNCHANGED <<gen, queue, conn, shm, pid, halfway>>
    BY DEF ListenStep
  <1>1. TheLink(p) \in Links /\ TheLink(p)[2] = p
    BY <1>0, AtStep, ListenSteps DEF TheLink
  <1>2. Types'
    BY <1>0, <1>1, Advance DEF ListenStep, Types
  <1>3. NothingYet'
    <2>0. pc'[p] = pc[p] + 1 /\ pc[p] >= 1 /\ pc[p] \in Nat
      <3>1. pc[p] \in Nat
        BY Places
      <3> QED
        BY <1>0, <3>1, Advance
    <2>1. \A l \in Links : pc'[l[2]] <= 1 => l # TheLink(p) /\ pc[l[2]] <= 1
      <3> SUFFICES ASSUME NEW l \in Links, pc'[l[2]] <= 1
                   PROVE  l # TheLink(p) /\ pc[l[2]] <= 1
        OBVIOUS
      <3>1. pc[l[2]] <= 1
        BY <1>0, Advance
      <3>2. l[2] # p
        BY <2>0
      <3> QED
        BY <1>1, <3>1, <3>2
    <2> QED
      BY <1>0, <2>1 DEF NothingYet, ListenStep
  <1> QED
    BY <1>0, <1>2, <1>3, PlacesOnly

LEMMA GreetInv ==
    ASSUME Inv, NEW p \in Procs, GreetStep(p)
    PROVE  Inv'
  <1> USE DEF Inv
  <1>0. AtOp(p, "greet") /\ Proceed(p) /\ UNCHANGED <<gen, queue, conn, shm, pid, halfway>>
    BY DEF GreetStep
  <1>1. TheLink(p) \in Links
    BY <1>0, AtStep, GreetSteps DEF TheLink
  <1>2. Types'
    <2>1. gen[p] \in 1..MaxStarts
      BY <1>0, StartsAssumption DEF HasPid, AtOp, Types, Pids
    <2> QED
      BY <1>0, <1>1, <2>1, Advance DEF GreetStep, Types
  <1>3. NothingYet'
    BY <1>0, Advance DEF NothingYet, GreetStep
  <1> QED
    BY <1>0, <1>2, <1>3, PlacesOnly

LEMMA RecvInv ==
    ASSUME Inv, NEW p \in Procs, RecvStep(p)
    PROVE  Inv'
  <1> USE DEF Inv
  <1>0. /\ AtOp(p, "recv") /\ Proceed(p)
        /\ UNCHANGED <<gen, listening, greeted, queue, conn, shm, pid, halfway>>
    BY DEF RecvStep
  <1>2. Types'
    BY <1>0, Advance DEF Types
  <1>3. NothingYet'
    BY <1>0, Advance DEF NothingYet
  <1> QED
    BY <1>0, <1>2, <1>3, PlacesOnly

LEMMA ConnectInv ==
    ASSUME Inv, NEW p \in Procs, ConnectStep(p)
    PROVE  Inv'
  <1> USE DEF Inv
  <1> PICK c : c = TheLink(p)
    OBVIOUS
  <1>0. /\ AtOp(p, "connect") /\ Proceed(p) /\ c \in listening
        /\ UNCHANGED <<gen, listening, conn, greeted, shm, pid, halfway>>
    BY DEF ConnectStep
  <1>1. c \in Links /\ c[1] = p /\ pc[p] = ConnectAt(c) /\ (p = "tc" => pc[p] > 1)
    BY <1>0, AtStep, ConnectSteps DEF TheLink
  <1>2. /\ queue'[c] = Append(queue[c], gen[p]) /\ queue[c] \in Seq(1..MaxStarts)
        /\ \A l \in Links \ {c} : queue'[l] = queue[l]
    BY <1>1 DEF ConnectStep, Types
  <1>3. pc'[p] = pc[p] + 1 /\ pc[p] >= 1 /\ pc[p] \in Nat
    BY <1>0, Places, Advance
  <1>4. gen[p] \in 1..MaxStarts
    <2>1. gen[p] >= 1 /\ gen[p] \in Pids
      BY <1>0 DEF HasPid, AtOp, Types
    <2> QED
      BY <2>1, StartsAssumption DEF Pids
  <1>5. Types'
    <2>1. Append(queue[c], gen[p]) \in Seq(1..MaxStarts)
      BY <1>2, <1>4
    <2>2. queue' \in [Links -> Seq(1..MaxStarts)]
      BY <1>1, <2>1 DEF ConnectStep, Types
    <2> QED
      BY <1>0, <2>2, Advance DEF Types
  <1>6. HasPid'
    BY <1>0, Advance DEF HasPid, Up
  <1>7. NothingYet'
    <2>1. ~(pc[c[2]] <= 1)
      BY <1>0, <1>1 DEF NothingYet
    <2> QED
      BY <1>0, <1>2, <2>1, Advance DEF NothingYet
  <1>8. Accepted'
    BY <1>0, Advance DEF Accepted
  <1>9. Published'
    <2>1. /\ shm <= gen["tc"] /\ (pc'["tc"] > 1 => shm = gen["tc"])
          /\ conn[<<"tc", "e">>] <= shm
      BY <1>0, Advance DEF Published
    <2>2. \A n \in 1..Len(queue'[<<"tc", "e">>]) : queue'[<<"tc", "e">>][n] <= shm
      <3>0. \A n \in 1..Len(queue[<<"tc", "e">>]) : queue[<<"tc", "e">>][n] <= shm
        BY DEF Published
      <3>1. CASE c = <<"tc", "e">>
        <4>1. gen[p] = shm
          BY <1>1, <3>1 DEF Published
        <4>2. gen[p] <= shm
          BY <1>4, <4>1, StartsAssumption
        <4>3. \A n \in 1..Len(queue'[c]) : queue'[c][n] <= shm
          BY <1>2, <3>0, <3>1, <4>2
        <4> QED
          BY <3>1, <4>3
      <3>2. CASE c # <<"tc", "e">>
        <4>1. <<"tc", "e">> \in Links
          BY DEF Links
        <4> QED
          BY <1>2, <3>0, <3>2, <4>1
      <3> QED
        BY <3>1, <3>2
    <2> QED
      BY <1>0, <2>1, <2>2 DEF Published
  <1>10. OneConnection'
    <2> SUFFICES ASSUME NEW l \in Links, l[1] # "tc" \/ ~halfway
                 PROVE  IF pc'[l[1]] > ConnectAt(l)
                        THEN \/ conn[l] = 0 /\ queue'[l] = <<gen[l[1]]>>
                             \/ conn[l] = gen[l[1]] /\ queue'[l] = <<>>
                        ELSE conn[l] = 0 /\ queue'[l] = <<>>
      BY <1>0 DEF OneConnection
    <2>1. CASE l = c
      <3>1. conn[c] = 0 /\ queue[c] = <<>>
        BY <1>1, <1>3, <2>1 DEF OneConnection
      <3>2. queue'[c] = <<gen[p]>>
        BY <1>2, <3>1
      <3>3. pc'[p] > ConnectAt(c)
        BY <1>1, <1>3
      <3> QED
        BY <1>1, <2>1, <3>1, <3>2, <3>3
    <2>2. CASE l # c
      <3>1. pc'[l[1]] > ConnectAt(l) <=> pc[l[1]] > ConnectAt(l)
        BY <1>0, <2>2, Advance
      <3> QED
        BY <1>2, <2>2, <3>1 DEF OneConnection
    <2> QED
      BY <2>1, <2>2
  <1>11. FreshPid'
    BY <1>0, Advance, StepsOfE DEF FreshPid, InLoop
  <1> QED
    BY <1>5, <1>6, <1>7, <1>8, <1>9, <1>10, <1>11

LEMMA ConnectFailsInv ==
    ASSUME Inv, NEW p \in Procs, ConnectFails(p)
    PROVE  Inv'
  <1> USE DEF Inv
  <1> PICK c : c = TheLink(p)
    OBVIOUS
  <1>0. AtOp(p, "connect") /\ UNCHANGED <<gen, greeted, shm, pid>>
    BY DEF ConnectFails
  <1>1. /\ c \in Links /\ c[1] = p /\ pc[p] = ConnectAt(c)
        /\ p # "e" /\ (p # "tc" => pc[p] = 1)
    BY <1>0, AtStep, ConnectSteps DEF TheLink
  <1>2. pc'[p] = 0 /\ \A q \in Procs \ {p} : pc'[q] = pc[q]
    BY DEF ConnectFails, Types
  <1>3. \A l \in Links : l[2] = p => l \notin listening /\ queue[l] = <<>> /\ conn[l] = 0
    <2>1. \A l \in Links : l[2] # "tc"
      BY DEF Links
    <2> QED
      BY <1>1, <2>1 DEF NothingYet
  <1>4. UNCHANGED <<listening, queue, conn>>
    <2>1. listening' = listening
      BY <1>3 DEF ConnectFails, Types
    <2>2. queue' = [l \in Links |-> IF l \in {m \in Links : m[2] = p} THEN <<>> ELSE queue[l]]
      BY DEF ConnectFails
    <2>3. conn' = [l \in Links |-> IF l \in {m \in Links : m[2] = p} THEN 0 ELSE conn[l]]
      BY DEF ConnectFails
    <2>4. queue \in [Links -> Seq(1..MaxStarts)] /\ conn \in [Links -> Pids]
      BY DEF Types
    <2>5. queue' = queue
      BY <1>3, <2>2, <2>4
    <2>6. conn' = conn
      BY <1>3, <2>3, <2>4
    <2> QED
      BY <2>1, <2>5, <2>6
  <1>5. Types'
    <2>1. pc' \in [Procs -> 0..9]
      BY DEF ConnectFails, Types
    <2>2. halfway' \in BOOLEAN
      BY DEF ConnectFails, Types
    <2>3. \A q \in Procs : pc'[q] <= Len(Program[q]) + 1
      <3>1. Len(Program[p]) \in 5..8
        BY Lengths
      <3>2. 0 <= Len(Program[p]) + 1
        BY <3>1
      <3> QED
        BY <1>2, <3>2 DEF Types
    <2> QED
      BY <1>0, <1>4, <2>1, <2>2, <2>3 DEF Types
  <1>6. HasPid'
    BY <1>0, <1>2 DEF HasPid, Up
  <1>7. NothingYet'
    <2>1. \A l \in Links : l[2] \in Procs
      BY LinkFacts
    <2> QED
      BY <1>2, <1>3, <1>4, <2>1 DEF NothingYet
  <1>8. Accepted'
    <2>1. \A l \in Links : l[2] \in Procs /\ AcceptAt(l) \in 3..7
      BY LinkFacts
    <2>2. \A l \in Links : ~(0 > AcceptAt(l))
      BY <2>1
    <2> QED
      BY <1>2, <1>4, <2>1, <2>2 DEF Accepted
  <1>9. Published'
    BY <1>0, <1>2, <1>4 DEF Published, Procs
  <1>10. OneConnection'
    <2> SUFFICES ASSUME NEW l \in Links, l[1] # "tc" \/ ~halfway'
                 PROVE  IF pc'[l[1]] > ConnectAt(l)
                        THEN \/ conn[l] = 0 /\ queue[l] = <<gen[l[1]]>>
                             \/ conn[l] = gen[l[1]] /\ queue[l] = <<>>
                        ELSE conn[l] = 0 /\ queue[l] = <<>>
      BY <1>0, <1>4 DEF OneConnection
    <2>0. l[1] \in Procs /\ ConnectAt(l) \in 1..6
      BY LinkFacts
    <2>1. l[1] # "tc" \/ ~halfway
      BY DEF ConnectFails
    <2>2. CASE l[1] = p
      <3>1. ~(pc[p] > ConnectAt(l))
        <4>1. CASE p = "tc"
          <5>1. c = <<"tc", "c">>
            BY <2>2, <4>1 DEF ConnectFails
          <5>2. ConnectAt(c) = 2
            BY <5>1 DEF ConnectAt
          <5>3. ConnectAt(l) >= 2
            BY <2>2, <4>1 DEF ConnectAt
          <5> QED
            BY <1>1, <2>0, <5>2, <5>3
        <4>2. CASE p # "tc"
          BY <1>1, <2>0, <4>2
        <4> QED
          BY <4>1, <4>2
      <3>2. ~(pc'[p] > ConnectAt(l))
        BY <1>2, <2>0
      <3> QED
        BY <2>1, <2>2, <3>1, <3>2 DEF OneConnection
    <2>3. CASE l[1] # p
      BY <1>2, <2>0, <2>1, <2>3 DEF OneConnection
    <2> QED
      BY <2>2, <2>3
  <1>11. FreshPid'
    BY <1>0, <1>1, <1>2, <1>4 DEF FreshPid, InLoop, Procs
  <1> QED
    BY <1>5, <1>6, <1>7, <1>8, <1>9, <1>10, <1>11

LEMMA ElementsOf == ASSUME NEW S, NEW q \in Seq(S) PROVE \A n \in 1..Len(q) : q[n] \in S
  OBVIOUS

LEMMA HeadTail ==
    ASSUME NEW S, NEW q \in Seq(S), q # <<>>
    PROVE  /\ Head(q) \in S /\ Tail(q) \in Seq(S)
           /\ Head(q) = q[1] /\ 1 \in 1..Len(q)
           /\ \A n \in 1..Len(Tail(q)) : n + 1 \in 1..Len(q) /\ Tail(q)[n] = q[n + 1]
  <1>1. Len(q) \in Nat /\ Len(q) # 0
    OBVIOUS
  <1>2. Head(q) = q[1] /\ 1 \in 1..Len(q) /\ Head(q) \in S
    BY <1>1
  <1>3. Tail(q) \in Seq(S) /\ Len(Tail(q)) = Len(q) - 1
    BY <1>1
  <1>4. \A n \in 1..Len(Tail(q)) : n + 1 \in 1..Len(q) /\ Tail(q)[n] = q[n + 1]
    BY <1>1, <1>3
  <1> QED
    BY <1>2, <1>3, <1>4

LEMMA AcceptInv ==
    ASSUME Inv, NEW p \in Procs, AcceptStep(p)
    PROVE  Inv'
  <1> USE DEF Inv
  <1> PICK c : c = TheLink(p)
    OBVIOUS
  <1>0. /\ AtOp(p, "accept") /\ Proceed(p) /\ queue[c] # <<>>
        /\ UNCHANGED <<gen, listening, greeted, shm, pid, halfway>>
    BY DEF AcceptStep
  <1>1. c \in Links /\ c[2] = p /\ pc[p] = AcceptAt(c) /\ pc[p] > 1
    BY <1>0, AtStep, AcceptSteps DEF TheLink
  <1>2. /\ conn'[c] = Head(queue[c]) /\ queue'[c] = Tail(queue[c])
        /\ queue[c] \in Seq(1..MaxStarts)
        /\ \A l \in Links \ {c} : queue'[l] = queue[l] /\ conn'[l] = conn[l]
    BY <1>1 DEF AcceptStep, Types
  <1>3. pc'[p] = pc[p] + 1 /\ pc[p] \in Nat
    BY <1>0, Places, Advance
  <1>4. /\ Head(queue[c]) \in 1..MaxStarts /\ Tail(queue[c]) \in Seq(1..MaxStarts)
        /\ Head(queue[c]) = queue[c][1] /\ 1 \in 1..Len(queue[c])
        /\ \A n \in 1..Len(Tail(queue[c])) :
                n + 1 \in 1..Len(queue[c]) /\ Tail(queue[c])[n] = queue[c][n + 1]
    BY <1>0, <1>2, HeadTail
  <1>5. Types'
    <2>1. Head(queue[c]) \in Pids
      BY <1>4, StartsAssumption DEF Pids
    <2>2. queue' \in [Links -> Seq(1..MaxStarts)] /\ conn' \in [Links -> Pids]
      BY <1>1, <1>4, <2>1 DEF AcceptStep, Types
    <2> QED
      BY <1>0, <2>2, Advance DEF Types
  <1>6. HasPid'
    BY <1>0, Advance DEF HasPid, Up
  <1>7. NothingYet'
    <2>1. ~(pc'[c[2]] <= 1)
      BY <1>1, <1>3
    <2> QED
      BY <1>0, <1>2, <2>1, Advance DEF NothingYet
  <1>8. Accepted'
    <2>1. conn'[c] >= 1
      BY <1>2, <1>4
    <2>2. \A l \in Links \ {c} : pc'[l[2]] > AcceptAt(l) => pc[l[2]] > AcceptAt(l)
      BY <1>0, Advance
    <2> QED
      BY <1>2, <2>1, <2>2 DEF Accepted
  <1>9. Published'
    <2>1. shm <= gen["tc"] /\ (pc'["tc"] > 1 => shm = gen["tc"])
      BY <1>0, Advance DEF Published
    <2>2. /\ conn'[<<"tc", "e">>] <= shm
          /\ \A n \in 1..Len(queue'[<<"tc", "e">>]) : queue'[<<"tc", "e">>][n] <= shm
      <3>0. /\ conn[<<"tc", "e">>] <= shm
            /\ \A n \in 1..Len(queue[<<"tc", "e">>]) : queue[<<"tc", "e">>][n] <= shm
        BY DEF Published
      <3>1. CASE c = <<"tc", "e">>
        <4>1. conn'[c] <= shm
          BY <1>2, <1>4, <3>0, <3>1
        <4>2. \A n \in 1..Len(queue'[c]) : queue'[c][n] <= shm
          BY <1>2, <1>4, <3>0, <3>1
        <4> QED
          BY <3>1, <4>1, <4>2
      <3>2. CASE c # <<"tc", "e">>
        <4>1. <<"tc", "e">> \in Links
          BY DEF Links
        <4> QED
          BY <1>2, <3>0, <3>2, <4>1
      <3> QED
        BY <3>1, <3>2
    <2> QED
      BY <1>0, <2>1, <2>2 DEF Published
  <1>10. OneConnection'
    <2> SUFFICES ASSUME NEW l \in Links, l[1] # "tc" \/ ~halfway
                 PROVE  IF pc'[l[1]] > ConnectAt(l)
                        THEN \/ conn'[l] = 0 /\ queue'[l] = <<gen[l[1]]>>
                             \/ conn'[l] = gen[l[1]] /\ queue'[l] = <<>>
                        ELSE conn'[l] = 0 /\ queue'[l] = <<>>
      BY <1>0 DEF OneConnection
    <2>0. pc'[l[1]] > ConnectAt(l) <=> pc[l[1]] > ConnectAt(l)
      BY <1>0, Advance
    <2>1. CASE l = c
      <3>1. pc[c[1]] > ConnectAt(c) /\ queue[c] = <<gen[c[1]]>>
        BY <1>0, <2>1 DEF OneConnection
      <3>2. conn'[c] = gen[c[1]] /\ queue'[c] = <<>>
        BY <1>2, <3>1
      <3> QED
        BY <2>0, <2>1, <3>1, <3>2
    <2>2. CASE l # c
      BY <1>2, <2>0, <2>2 DEF OneConnection
    <2> QED
      BY <2>1, <2>2
  <1>11. FreshPid'
    <2>1. SUFFICES ASSUME pc'["e"] = 8 PROVE pid >= conn'[<<"tc", "e">>] /\ pid > 0
      BY <1>0, StepsOfE DEF FreshPid, InLoop
    <2>2. pc["e"] = 8 /\ pid >= conn[<<"tc", "e">>] /\ pid > 0
      BY <1>0, <2>1, Advance, StepsOfE DEF FreshPid, InLoop
    <2>3. c # <<"tc", "e">>
      <3>1. p # "e"
        <4> SUFFICES ASSUME p = "e" PROVE FALSE
          OBVIOUS
        <4>1. pc["e"] = 7
          BY <1>3, <2>1
        <4> QED
          BY <2>2, <4>1
      <3> QED
        BY <1>1, <3>1
    <2>4. <<"tc", "e">> \in Links
      BY DEF Links
    <2> QED
      BY <1>2, <2>2, <2>3, <2>4
  <1> QED
    BY <1>5, <1>6, <1>7, <1>8, <1>9, <1>10, <1>11

LEMMA PublishInv ==
    ASSUME Inv, PublishStep
    PROVE  Inv'
  <1> USE DEF Inv
  <1>0. /\ AtOp("tc", "publish") /\ Proceed("tc") /\ shm' = gen["tc"] /\ "tc" \in Procs
        /\ UNCHANGED <<gen, listening, queue, conn, greeted, pid, halfway>>
    BY DEF PublishStep, Procs
  <1>1. Types'
    <2>1. gen["tc"] \in Pids
      BY <1>0 DEF Types
    <2> QED
      BY <1>0, <2>1, Advance DEF Types
  <1>2. HasPid'
    BY <1>0, Advance DEF HasPid, Up
  <1>3. NothingYet'
    BY <1>0, Advance DEF NothingYet
  <1>4. Accepted'
    BY <1>0, Advance DEF Accepted
  <1>5. Published'
    <2>0. <<"tc", "e">> \in Links
      BY DEF Links
    <2>1. /\ shm \in Nat /\ gen["tc"] \in Nat /\ conn[<<"tc", "e">>] \in Nat
          /\ \A n \in 1..Len(queue[<<"tc", "e">>]) : queue[<<"tc", "e">>][n] \in Nat
      <3>1. queue[<<"tc", "e">>] \in Seq(1..MaxStarts)
        BY <2>0 DEF Types
      <3>2. \A n \in 1..Len(queue[<<"tc", "e">>]) : queue[<<"tc", "e">>][n] \in Nat
        <4> PICK q : q = queue[<<"tc", "e">>]
          OBVIOUS
        <4>1. \A n \in 1..Len(q) : q[n] \in 1..MaxStarts
          BY <3>1, ElementsOf
        <4>2. \A m \in 1..MaxStarts : m \in Nat
          BY StartsAssumption
        <4> QED
          BY <4>1, <4>2
      <3> QED
        BY <1>0, <2>0, <3>2, Places DEF Types, Pids
    <2> QED
      BY <1>0, <2>1 DEF Published
  <1>6. OneConnection'
    BY <1>0, Advance DEF OneConnection
  <1>7. FreshPid'
    BY <1>0, Advance, StepsOfE DEF FreshPid, InLoop
  <1> QED
    BY <1>1, <1>2, <1>3, <1>4, <1>5, <1>6, <1>7

LEMMA GettspidInv ==
    ASSUME Inv, gettspid
    PROVE  Inv'
  <1> USE DEF Inv
  <1>0. /\ AtOp("e", "gettspid") /\ Proceed("e") /\ pid' = shm /\ "e" \in Procs
        /\ UNCHANGED <<gen, listening, queue, conn, greeted, shm, halfway>>
    BY DEF gettspid, Procs
  <1>1. Types'
    BY <1>0, Advance DEF Types
  <1>2. HasPid'
    BY <1>0, Advance DEF HasPid, Up
  <1>3. NothingYet'
    BY <1>0, Advance DEF NothingYet
  <1>4. Accepted'
    BY <1>0, Advance DEF Accepted
  <1>5. Published'
    BY <1>0, Advance DEF Published
  <1>6. OneConnection'
    BY <1>0, Advance DEF OneConnection
  <1>7. FreshPid'
    <2>1. pc["e"] \in 1..7 /\ Program["e"][pc["e"]].op = "gettspid"
      BY <1>0, AtStep, StepsOfE
    <2>2. pc["e"] = 7
      BY <2>1, StepsOfE
    <2>3. <<"tc", "e">> \in Links /\ AcceptAt(<<"tc", "e">>) = 5
      BY DEF Links, AcceptAt
    <2>4. conn[<<"tc", "e">>] >= 1 /\ conn[<<"tc", "e">>] <= shm
      BY <2>2, <2>3 DEF Accepted, Published
    <2>5. conn[<<"tc", "e">>] \in Nat /\ shm \in Nat
      BY <2>3 DEF Types, Pids
    <2> QED
      BY <1>0, <2>4, <2>5 DEF FreshPid
  <1> QED
    BY <1>1, <1>2, <1>3, <1>4, <1>5, <1>6, <1>7

LEMMA StutterInv == ASSUME Inv, UNCHANGED vars PROVE Inv'
  BY DEF Inv, vars, Types, HasPid, NothingYet, Accepted, Published, OneConnection, FreshPid,
         Up, InLoop

\* Every step of the four programs and of their users preserves the invariant.
LEMMA NextInv == ASSUME Inv, [Next]_vars PROVE Inv'
  <1>1. ASSUME NEW p \in Procs, Start(p) PROVE Inv'
    BY <1>1, StartInv
  <1>2. ASSUME NEW p \in Procs, ProcStep(p) PROVE Inv'
    <2>1. CASE ListenStep(p)
      BY <2>1, ListenInv
    <2>2. CASE ConnectStep(p)
      BY <2>2, ConnectInv
    <2>3. CASE ConnectFails(p)
      BY <2>3, ConnectFailsInv
    <2>4. CASE GreetStep(p)
      BY <2>4, GreetInv
    <2>5. CASE AcceptStep(p)
      BY <2>5, AcceptInv
    <2>6. CASE RecvStep(p)
      BY <2>6, RecvInv
    <2>7. CASE PublishStep
      BY <2>7, PublishInv
    <2>8. CASE gettspid
      BY <2>8, GettspidInv
    <2> QED
      BY <1>2, <2>1, <2>2, <2>3, <2>4, <2>5, <2>6, <2>7, <2>8 DEF ProcStep
  <1>3. CASE UNCHANGED vars
    BY <1>3, StutterInv
  <1> QED
    BY <1>1, <1>2, <1>3 DEF Next

\* The invariant gives the properties: who is at a recv is beyond the accept, and the one
\* connection on a link is its peer's.
LEMMA InvStartedRight == Inv => StartedRight
  <1> SUFFICES ASSUME Inv PROVE StartedRight
    OBVIOUS
  <1> USE DEF Inv
  <1>1. TypeOK
    <2>1. ASSUME NEW p \in Procs, AtOp(p, "recv") PROVE conn[TheLink(p)] # 0
      <3> PICK c : c = TheLink(p)
        OBVIOUS
      <3>1. c \in Links /\ c[2] = p /\ pc[p] = AcceptAt(c) + 1
        BY <2>1, AtStep, RecvSteps DEF TheLink
      <3>2. AcceptAt(c) \in 3..7
        BY <3>1, LinkFacts
      <3>3. pc[c[2]] > AcceptAt(c)
        BY <3>1, <3>2
      <3> QED
        BY <3>1, <3>3 DEF Accepted
    <2> QED
      BY <2>1 DEF TypeOK, Types
  <1>2. LinksStand
    <2> SUFFICES ASSUME ~halfway, NEW l \in Links, Past(l[1], Connect(l))
                 PROVE  \/ conn[l] = gen[l[1]]
                        \/ conn[l] = 0 /\ queue[l] # <<>> /\ Head(queue[l]) = gen[l[1]]
      BY DEF LinksStand
    <2>1. \/ conn[l] = 0 /\ queue[l] = <<gen[l[1]]>>
          \/ conn[l] = gen[l[1]] /\ queue[l] = <<>>
      BY PastConnect DEF OneConnection
    <2> QED
      BY <2>1
  <1> QED
    BY <1>1, <1>2 DEF StartedRight

-----------------------------------------------------------------------------
(***************************************************************************)
(* The theorems                                                            *)
(***************************************************************************)
\* The invariant holds however the four programs are started, fail and are started
\* again. (tc.c:78-117, c.c:127-141, s.c:136-158, e.c:117-132)
THEOREM Invariance == Spec => []Inv
  <1>1. Init => Inv
    BY InitInv
  <1>2. Inv /\ [Next]_vars => Inv'
    BY NextInv
  <1> QED
    BY <1>1, <1>2, PTL DEF Spec

\* The same where the programs of the ticket counter run beside others: for any number
\* of starts, e signals the counter it is connected to or a later one, and whoever has
\* connected keeps its peer unless a counter gave up half-way.
\* (tc.c:78,104-109, c.c:127-135, s.c:136-147, e.c:128-132)
THEOREM ServersStartRight == AllInit /\ [][AllNext]_allVars => []StartedRight
  <1>1. AllInit => Inv
    BY InitInv DEF AllInit
  <1>2. Inv /\ [AllNext]_allVars => Inv'
    <2> SUFFICES ASSUME Inv, [AllNext]_allVars PROVE Inv'
      OBVIOUS
    <2>1. [Next]_vars
      BY DEF AllNext, allVars, InCounter, InStation
    <2> QED
      BY <2>1, NextInv
  <1>3. Inv => StartedRight
    BY InvStartedRight
  <1> QED
    BY <1>1, <1>2, <1>3, PTL

(***************************************************************************)
(* The station over FIFOs                                                  *)
(***************************************************************************)
Labels ==
    {"off", "poll", "broadcast", "announce", "tell", "told", "second", "new", "say", "wait",
     "arrive", "sequence", "sleep"}
Words == {"ready", "coming", "sequence", "leaving"} \cup Nat

StationTypes ==
    /\ at \in [F!Programs -> Labels]
    /\ fifo \in [F!Fifos -> Seq(Words)]
    /\ open \subseteq F!Programs \X F!Fifos \X {"r", "w"}
    /\ ahead \in [F!Platforms -> Int]
    /\ arrivals \in [F!Trains -> Nat]
    /\ starts \in [F!Programs -> Nat]
    /\ kills \in Nat
    /\ F!TypeOK

\* The master broadcasts to the platforms in turn before it tells the train, and the
\* trains its poll found have something to say: it keeps their FIFOs open.
MasterInv ==
    /\ at[F!SM] \in {"broadcast", "announce"} => k <= NPlatforms
    /\ at[F!SM] \in {"tell", "told"} => k = NPlatforms + 1
    /\ at[F!SM] = "poll" => k = 1
    /\ at[F!SM] # "off" =>
          /\ \A t \in revents : fifo[F!ReadyFifo(t)] # <<>>
          /\ \A t \in F!Trains : <<F!SM, F!ReadyFifo(t), "r">> \in open

\* What a start of a train has become: a question to be asked, asked, answered, or the
\* way to the platform.
Bit(b) == IF b THEN 1 ELSE 0
InHand == at[F!SM] \in {"broadcast", "announce", "tell", "told"}
Asks(t) == at[F!T(t)] \in {"new", "say"}
Goes(t) == at[F!T(t)] \in {"arrive", "sequence"}
NAsks(t) == Bit(Asks(t))
NServes(t) == Bit(InHand /\ i = t)
NGoes(t) == Bit(Goes(t))
NSaid(t) == Len(fifo[F!ReadyFifo(t)])
NTold(t) == Len(fifo[F!TrainFifo(t)])
Asked(t) == NAsks(t) + NSaid(t) + NServes(t) + NTold(t) + NGoes(t)
AskedInv == \A t \in F!Trains : arrivals[t] + Asked(t) <= starts[F!T(t)]

\* Until a user stops a program none ends: whoever writes has a reader.
ReadersInv == kills = 0 =>
    /\ \A x \in F!Programs : starts[x] = Bit(at[x] # "off")
    /\ \A f \in F!Fifos : fifo[f] # <<>> => F!HasReader(f)
    /\ at[F!SM] = "announce" => F!HasReader(F!BrodFifo(k))
    /\ at[F!SM] = "told" => F!HasReader(F!TrainFifo(i))
    /\ \A t \in F!Trains :
          /\ at[F!T(t)] = "say" => F!HasReader(F!ReadyFifo(t))
          /\ at[F!T(t)] \in {"sequence", "sleep"} => F!HasReader(F!InfoFifo(plat[t]))

\* The trains that were sent to platform p and have not told it so.
Coming(p) ==
    {t \in F!Trains : \/ fifo[F!TrainFifo(t)] # <<>> /\ Head(fifo[F!TrainFifo(t)]) = p
                      \/ Goes(t) /\ plat[t] = p}
NPast(p) == Bit(InHand /\ k > p)
Spots(s, w) == {n \in 1 .. Len(s) : s[n] = w}
Count(s, w) == Cardinality(Spots(s, w))

\* Until a user stops a program, trains come after their announcements: whoever a platform
\* took in, or will, was announced to it.  It takes one in only after it saw no
\* announcement.
NTaken(p) == Count(fifo[F!InfoFifo(p)], "sequence")
NComing(p) == Cardinality(Coming(p))
NAnnounced(p) == Len(fifo[F!BrodFifo(p)])
Owed(p) == ahead[p] + NTaken(p) + NComing(p) + NPast(p) - NAnnounced(p)
AheadInv == kills = 0 => \A p \in F!Platforms :
    /\ Owed(p) <= 0
    /\ ahead[p] <= Bit(at[F!P(p)] # "second")

StationInv == StationTypes /\ MasterInv /\ AskedInv /\ ReadersInv /\ AheadInv

(***************************************************************************)
(* Names of programs and FIFOs                                             *)
(***************************************************************************)
LEMMA ProgramNames ==
    /\ F!SM \in F!Programs
    /\ \A t \in F!Trains : F!T(t) \in F!Programs /\ F!T(t) # F!SM
    /\ \A p \in F!Platforms : F!P(p) \in F!Programs /\ F!P(p) # F!SM
    /\ \A t, u \in F!Trains : F!T(t) = F!T(u) => t = u
    /\ \A p, q \in F!Platforms : F!P(p) = F!P(q) => p = q
    /\ \A t \in F!Trains, p \in F!Platforms : F!T(t) # F!P(p)
    /\ \A x \in F!Programs :
          x = F!SM \/ (\E t \in F!Trains : x = F!T(t)) \/ \E p \in F!Platforms : x = F!P(p)
  BY DEF F!Programs, F!SM, F!T, F!P

LEMMA FifoNames ==
    /\ \A t \in F!Trains : F!ReadyFifo(t) \in F!Fifos /\ F!TrainFifo(t) \in F!Fifos
    /\ \A p \in F!Platforms : F!BrodFifo(p) \in F!Fifos /\ F!InfoFifo(p) \in F!Fifos
    /\ \A t, u \in F!Trains :
          /\ F!ReadyFifo(t) = F!ReadyFifo(u) => t = u
          /\ F!TrainFifo(t) = F!TrainFifo(u) => t = u
          /\ F!ReadyFifo(t) # F!TrainFifo(u)
    /\ \A p, q \in F!Platforms :
          /\ F!BrodFifo(p) = F!BrodFifo(q) => p = q
          /\ F!InfoFifo(p) = F!InfoFifo(q) => p = q
          /\ F!BrodFifo(p) # F!InfoFifo(q)
    /\ \A t \in F!Trains, p \in F!Platforms :
          /\ F!ReadyFifo(t) # F!BrodFifo(p) /\ F!ReadyFifo(t) # F!InfoFifo(p)
          /\ F!TrainFifo(t) # F!BrodFifo(p) /\ F!TrainFifo(t) # F!InfoFifo(p)
  BY DEF F!Fifos, F!ReadyFifo, F!TrainFifo, F!BrodFifo, F!InfoFifo

\* the least of a set of trains or platforms
LEMMA LeastOne ==
    ASSUME NEW N \in Nat, NEW S \in SUBSET (1 .. N), S # {}
    PROVE  F!Min(S) \in S
  <1> S \subseteq Nat
    OBVIOUS
  <1>1. PICK x \in S : \A y \in S : ~(<<y, x>> \in OpToRel(<, Nat))
    BY NatLessThanWellFounded, WFMin
  <1>2. ASSUME NEW y \in S PROVE x <= y
    <2>1. <<y, x>> \notin OpToRel(<, Nat)
      BY <1>1
    <2>2. ~(y < x)
      BY <2>1 DEF OpToRel
    <2> QED
      BY <2>2
  <1> QED
    BY <1>2 DEF F!Min

(***************************************************************************)
(* What steps have in common                                               *)
(***************************************************************************)
Others(x) == \A y \in F!Programs : y # x => at'[y] = at[y]
FifosTyped == fifo' \in [F!Fifos -> Seq(Words)]
OpenTyped == open' \subseteq F!Programs \X F!Fifos \X {"r", "w"}
Kept(f) == fifo'[f] = fifo[f] \/ fifo'[f] = <<>>

LEMMA GotoFacts ==
    ASSUME StationTypes, NEW x \in F!Programs, NEW l \in Labels, F!Goto(x, l)
    PROVE  at' \in [F!Programs -> Labels] /\ at'[x] = l /\ Others(x)
  BY DEF StationTypes, F!Goto, Others

LEMMA ClosedFacts ==
    ASSUME NEW c \in [F!Fifos -> Seq(Words)], NEW D, fifo' = F!Closed(c, D)
    PROVE  /\ FifosTyped
           /\ \A f \in F!Fifos : fifo'[f] = c[f] \/ fifo'[f] = <<>>
           /\ \A d \in D : d[2] \in F!Fifos => fifo'[d[2]] = c[d[2]]
  <1>1. \A f \in F!Fifos :
            fifo'[f] = IF \E d \in D : d[2] = f THEN c[f] ELSE <<>>
    BY DEF F!Closed
  <1>2. <<>> \in Seq(Words)
    OBVIOUS
  <1> QED
    BY <1>1, <1>2 DEF F!Closed, FifosTyped

\* A program ends: FIFOs that are open to another one keep what is in them.
LEMMA EndsFacts ==
    ASSUME StationTypes, NEW x \in F!Programs, F!Ends(x)
    PROVE  /\ at' \in [F!Programs -> Labels] /\ at'[x] = "off" /\ Others(x)
           /\ FifosTyped /\ OpenTyped /\ open' \subseteq open
           /\ \A f \in F!Fifos : Kept(f)
           /\ \A d \in open : d[1] # x => d \in open' /\ fifo'[d[2]] = fifo[d[2]]
  <1>1. fifo \in [F!Fifos -> Seq(Words)] /\ fifo' = F!Closed(fifo, open')
    BY DEF StationTypes, F!Ends
  <1>2. FifosTyped /\ (\A f \in F!Fifos : Kept(f))
        /\ \A d \in open' : d[2] \in F!Fifos => fifo'[d[2]] = fifo[d[2]]
    BY <1>1, ClosedFacts DEF Kept
  <1>3. open' = {d \in open : d[1] # x}
    BY DEF F!Ends
  <1>4. \A d \in open : d[2] \in F!Fifos
    BY DEF StationTypes
  <1>5. at' \in [F!Programs -> Labels] /\ at'[x] = "off" /\ Others(x)
    BY GotoFacts DEF F!Ends, Labels
  <1> QED
    BY <1>2, <1>3, <1>4, <1>5 DEF OpenTyped, StationTypes

\* A message is written: it lands in the FIFO, or the writer ends for want of a reader.
Lands(x, f, msg, l) ==
    /\ F!HasReader(f) /\ at'[x] = l /\ fifo'[f] = Append(fifo[f], msg)
    /\ \A g \in F!Fifos : g # f => Kept(g)
    /\ \A d \in open : d[3] = "r" =>
          d \in open' /\ (d[2] # f => fifo'[d[2]] = fifo[d[2]])
Breaks(x, f) ==
    /\ ~F!HasReader(f) /\ at'[x] = "off"
    /\ \A g \in F!Fifos : Kept(g)
    /\ \A d \in open : d[1] # x => d \in open' /\ fifo'[d[2]] = fifo[d[2]]

LEMMA WriteFacts ==
    ASSUME StationTypes, NEW x \in F!Programs, NEW f \in F!Fifos, NEW msg \in Words,
           NEW l \in Labels, NEW D \in SUBSET open, \A d \in open : d[3] = "r" => d \in D,
           F!WriteAndKeep(x, f, msg, D, l)
    PROVE  /\ at' \in [F!Programs -> Labels] /\ Others(x)
           /\ FifosTyped /\ OpenTyped /\ open' \subseteq open /\ made' = made
           /\ Lands(x, f, msg, l) \/ Breaks(x, f)
  <1>1. CASE F!HasReader(f) /\ fifo' = F!Closed([fifo EXCEPT ![f] = Append(@, msg)], D)
             /\ open' = D /\ F!Goto(x, l)
    <2> DEFINE c == [fifo EXCEPT ![f] = Append(@, msg)]
    <2>1. c \in [F!Fifos -> Seq(Words)] /\ c[f] = Append(fifo[f], msg)
          /\ \A g \in F!Fifos : g # f => c[g] = fifo[g]
      BY DEF StationTypes
    <2>2. /\ FifosTyped
          /\ \A g \in F!Fifos : fifo'[g] = c[g] \/ fifo'[g] = <<>>
          /\ \A d \in D : d[2] \in F!Fifos => fifo'[d[2]] = c[d[2]]
      BY <1>1, <2>1, ClosedFacts
    <2>3. at' \in [F!Programs -> Labels] /\ at'[x] = l /\ Others(x)
      BY <1>1, GotoFacts
    <2>4. PICK r \in open : r[2] = f /\ r[3] = "r"
      BY <1>1 DEF F!HasReader
    <2>5. fifo'[f] = Append(fifo[f], msg)
      BY <2>1, <2>2, <2>4
    <2>6. \A d \in open : d[2] \in F!Fifos
      BY DEF StationTypes
    <2> HIDE DEF c
    <2>7. Lands(x, f, msg, l)
      BY <1>1, <2>1, <2>2, <2>3, <2>5, <2>6 DEF Lands, Kept
    <2> QED
      BY <1>1, <2>2, <2>3, <2>7 DEF OpenTyped, StationTypes, F!WriteAndKeep
  <1>2. CASE ~F!HasReader(f) /\ F!Ends(x)
    BY <1>2, EndsFacts DEF Breaks, F!WriteAndKeep
  <1> QED
    BY <1>1, <1>2 DEF F!WriteAndKeep

LEMMA WriteAndCloseFacts ==
    ASSUME StationTypes, NEW x \in F!Programs, NEW f \in F!Fifos, NEW msg \in Words,
           NEW l \in Labels, F!WriteAndClose(x, f, msg, l)
    PROVE  /\ at' \in [F!Programs -> Labels] /\ Others(x)
           /\ FifosTyped /\ OpenTyped /\ open' \subseteq open /\ made' = made
           /\ Lands(x, f, msg, l) \/ Breaks(x, f)
  <1>1. \A d \in open : d[3] = "r" => d # <<x, f, "w">>
    OBVIOUS
  <1> QED
    BY <1>1, WriteFacts DEF F!WriteAndClose

LEMMA OpenFacts ==
    ASSUME StationTypes, NEW x \in F!Programs, NEW f \in F!Fifos, NEW l \in Labels,
           F!OpenToWrite(x, f, l)
    PROVE  /\ at' \in [F!Programs -> Labels] /\ at'[x] = l /\ Others(x)
           /\ f \in made /\ F!HasReader(f) /\ fifo' = fifo /\ made' = made
           /\ OpenTyped /\ open \subseteq open' /\ \A d \in open' : d[2] \in made
  <1>1. at' \in [F!Programs -> Labels] /\ at'[x] = l /\ Others(x)
    BY GotoFacts DEF F!OpenToWrite
  <1> QED
    BY <1>1 DEF F!OpenToWrite, OpenTyped, StationTypes, F!TypeOK

LEMMA ReadFacts ==
    ASSUME StationTypes, NEW f \in F!Fifos, fifo[f] # <<>>, F!Read(f)
    PROVE  /\ FifosTyped /\ fifo'[f] = Tail(fifo[f]) /\ Len(fifo'[f]) = Len(fifo[f]) - 1
           /\ \A g \in F!Fifos : g # f => fifo'[g] = fifo[g]
  BY DEF StationTypes, F!Read, FifosTyped

MasterPlaces == {"off", "poll", "broadcast", "announce", "tell", "told"}
PlatformPlaces == {"off", "poll", "second"}
TrainPlaces == {"off", "new", "say", "wait", "arrive", "sequence", "sleep"}

\* The types after a step of one program.
LEMMA StepTypes ==
    ASSUME StationTypes, NEW x \in F!Programs, at' \in [F!Programs -> Labels], Others(x),
           x = F!SM => at'[x] \in MasterPlaces,
           \A p \in F!Platforms : x = F!P(p) => at'[x] \in PlatformPlaces,
           \A t \in F!Trains : x = F!T(t) => at'[x] \in TrainPlaces,
           FifosTyped, OpenTyped, made' \subseteq F!Fifos, \A d \in open' : d[2] \in made',
           \A t \in F!Trains : fifo'[F!TrainFifo(t)] \in Seq(F!Platforms),
           ahead' \in [F!Platforms -> Int], arrivals' \in [F!Trains -> Nat],
           starts' \in [F!Programs -> Nat], kills' \in Nat,
           revents' \subseteq F!Trains, i' \in F!Trains, k' \in 1 .. NPlatforms + 1,
           plat' \in [F!Trains -> F!Platforms]
    PROVE  StationTypes'
  <1>1. /\ at'[F!SM] \in MasterPlaces
        /\ \A p \in F!Platforms : at'[F!P(p)] \in PlatformPlaces
        /\ \A t \in F!Trains : at'[F!T(t)] \in TrainPlaces
    BY ProgramNames DEF StationTypes, F!TypeOK, Others, MasterPlaces, PlatformPlaces,
       TrainPlaces
  <1>2. F!TypeOK'
    BY <1>1 DEF F!TypeOK, MasterPlaces, PlatformPlaces, TrainPlaces
  <1> QED
    BY <1>2 DEF StationTypes, FifosTyped, OpenTyped

\* The master's part of the invariant after a step of another program.
LEMMA MasterKept ==
    ASSUME StationTypes, MasterInv, at'[F!SM] = at[F!SM], k' = k, revents' = revents,
           \A d \in open : d[1] = F!SM /\ d[3] = "r" => d \in open',
           \A t \in F!Trains : fifo[F!ReadyFifo(t)] # <<>>
               /\ <<F!SM, F!ReadyFifo(t), "r">> \in open => fifo'[F!ReadyFifo(t)] # <<>>
    PROVE  MasterInv'
  <1>1. at'[F!SM] # "off" => \A t \in F!Trains : <<F!SM, F!ReadyFifo(t), "r">> \in open'
    <2> SUFFICES ASSUME at[F!SM] # "off", NEW t \in F!Trains
                 PROVE  <<F!SM, F!ReadyFifo(t), "r">> \in open'
      OBVIOUS
    <2> DEFINE d == <<F!SM, F!ReadyFifo(t), "r">>
    <2>1. d \in open /\ d[1] = F!SM /\ d[3] = "r"
      BY DEF MasterInv
    <2> QED
      BY <2>1
  <1>2. at'[F!SM] # "off" => \A t \in revents' : fifo'[F!ReadyFifo(t)] # <<>>
    BY DEF MasterInv, StationTypes, F!TypeOK
  <1> QED
    BY <1>1, <1>2 DEF MasterInv

\* The same after a step of its own.
LEMMA MasterGoesOn ==
    ASSUME MasterInv, at[F!SM] # "off",
           at'[F!SM] \in {"broadcast", "announce"} => k' <= NPlatforms,
           at'[F!SM] \in {"tell", "told"} => k' = NPlatforms + 1,
           at'[F!SM] = "poll" => k' = 1,
           \A t \in revents' : t \in revents /\ (fifo[F!ReadyFifo(t)] # <<>> =>
                                                fifo'[F!ReadyFifo(t)] # <<>>),
           \A d \in open : d[3] = "r" => d \in open'
    PROVE  MasterInv'
  <1>1. \A t \in F!Trains : <<F!SM, F!ReadyFifo(t), "r">> \in open'
    <2> SUFFICES ASSUME NEW t \in F!Trains PROVE <<F!SM, F!ReadyFifo(t), "r">> \in open'
      OBVIOUS
    <2> DEFINE d == <<F!SM, F!ReadyFifo(t), "r">>
    <2>1. d \in open /\ d[3] = "r"
      BY DEF MasterInv
    <2> QED
      BY <2>1
  <1>2. \A t \in revents' : fifo'[F!ReadyFifo(t)] # <<>>
    BY DEF MasterInv
  <1> QED
    BY <1>1, <1>2 DEF MasterInv, F!SM, F!ReadyFifo

LEMMA NotFull == ASSUME StationTypes, NEW f \in F!Fifos
                 PROVE  fifo[f] \in Seq(Words) /\ Len(fifo[f]) \in Nat
  BY DEF StationTypes

AskedSum(t) ==
    /\ Asked(t) = NAsks(t) + NSaid(t) + NServes(t) + NTold(t) + NGoes(t)
    /\ NAsks(t) \in Nat /\ NServes(t) \in Nat /\ NGoes(t) \in Nat
    /\ NSaid(t) \in Nat /\ NTold(t) \in Nat /\ Asked(t) \in Nat

LEMMA AskedIs ==
    ASSUME StationTypes, NEW t \in F!Trains
    PROVE  AskedSum(t)
  <1>1. NAsks(t) \in Nat /\ NServes(t) \in Nat /\ NGoes(t) \in Nat
    BY DEF Bit, NAsks, NServes, NGoes
  <1>2. NSaid(t) \in Nat /\ NTold(t) \in Nat
    BY NotFull, FifoNames DEF NSaid, NTold
  <1> QED
    BY <1>1, <1>2 DEF Asked, AskedSum

LEMMA AskedIsNext ==
    ASSUME StationTypes', NEW t \in F!Trains
    PROVE  /\ AskedSum(t)'
           /\ NSaid(t)' = Len(fifo'[F!ReadyFifo(t)]) /\ NTold(t)' = Len(fifo'[F!TrainFifo(t)])
  <1>1. NAsks(t)' \in Nat /\ NServes(t)' \in Nat /\ NGoes(t)' \in Nat
    BY DEF Bit, NAsks, NServes, NGoes
  <1>2. fifo'[F!ReadyFifo(t)] \in Seq(Words) /\ fifo'[F!TrainFifo(t)] \in Seq(Words)
    BY FifoNames DEF StationTypes
  <1>3. NSaid(t)' = Len(fifo'[F!ReadyFifo(t)]) /\ NTold(t)' = Len(fifo'[F!TrainFifo(t)])
    BY DEF NSaid, NTold
  <1>4. NSaid(t)' \in Nat /\ NTold(t)' \in Nat
    BY <1>2, <1>3
  <1>5. Asked(t)' = NAsks(t)' + NSaid(t)' + NServes(t)' + NTold(t)' + NGoes(t)'
    BY DEF Asked
  <1> QED
    BY <1>1, <1>3, <1>4, <1>5 DEF AskedSum

LEMMA StartsNat ==
    ASSUME StationTypes, NEW t \in F!Trains
    PROVE  starts[F!T(t)] \in Nat /\ arrivals[t] \in Nat
  BY ProgramNames DEF StationTypes

\* A train's part of what became of its starts.
LEMMA AskedStep ==
    ASSUME StationTypes, AskedInv, StationTypes',
           \A t \in F!Trains :
               arrivals'[t] + Asked(t)' - starts'[F!T(t)]
                   <= arrivals[t] + Asked(t) - starts[F!T(t)]
    PROVE  AskedInv'
  <1> SUFFICES ASSUME NEW t \in F!Trains
               PROVE  arrivals'[t] + Asked(t)' <= starts'[F!T(t)]
    BY DEF AskedInv
  <1>1. arrivals[t] + Asked(t) <= starts[F!T(t)]
    BY DEF AskedInv
  <1>2. Asked(t) \in Nat /\ Asked(t)' \in Nat
    BY AskedIs, AskedIsNext DEF AskedSum
  <1>3. /\ arrivals[t] \in Nat /\ starts[F!T(t)] \in Nat
        /\ arrivals'[t] \in Nat /\ starts'[F!T(t)] \in Nat
    BY ProgramNames DEF StationTypes
  <1>4. arrivals'[t] + Asked(t)' - starts'[F!T(t)]
                   <= arrivals[t] + Asked(t) - starts[F!T(t)]
    OBVIOUS
  <1> QED
    BY <1>1, <1>2, <1>3, <1>4

LEMMA AskedLess ==
    ASSUME StationTypes, AskedInv, StationTypes', arrivals' = arrivals,
           \A t \in F!Trains : Asked(t)' <= Asked(t) /\ starts[F!T(t)] <= starts'[F!T(t)]
    PROVE  AskedInv'
  <1>1. ASSUME NEW t \in F!Trains
        PROVE  arrivals'[t] + Asked(t)' - starts'[F!T(t)]
                   <= arrivals[t] + Asked(t) - starts[F!T(t)]
    <2>1. starts'[F!T(t)] \in Nat
      BY ProgramNames DEF StationTypes
    <2>2. starts[F!T(t)] \in Nat /\ arrivals[t] \in Nat
      BY StartsNat
    <2>3. Asked(t) \in Nat /\ Asked(t)' \in Nat
      BY AskedIs, AskedIsNext DEF AskedSum
    <2>4. Asked(t)' <= Asked(t) /\ starts[F!T(t)] <= starts'[F!T(t)]
      OBVIOUS
    <2> QED
      BY <2>1, <2>2, <2>3, <2>4
  <1> QED
    BY <1>1, AskedStep

\* In most steps no part of it grows.
LEMMA AskedKept ==
    ASSUME StationTypes, StationTypes', AskedInv, arrivals' = arrivals,
           \A t \in F!Trains :
               /\ starts[F!T(t)] <= starts'[F!T(t)]
               /\ Asks(t)' => Asks(t)
               /\ Kept(F!ReadyFifo(t)) /\ Kept(F!TrainFifo(t))
               /\ (InHand /\ i = t)' => InHand /\ i = t
               /\ Goes(t)' => Goes(t)
    PROVE  AskedInv'
  <1>1. ASSUME NEW t \in F!Trains PROVE Asked(t)' <= Asked(t)
    <2>1. NAsks(t)' <= NAsks(t) /\ NServes(t)' <= NServes(t) /\ NGoes(t)' <= NGoes(t)
      BY DEF Bit, NAsks, NServes, NGoes
    <2>2. fifo[F!ReadyFifo(t)] \in Seq(Words) /\ fifo[F!TrainFifo(t)] \in Seq(Words)
          /\ Kept(F!ReadyFifo(t)) /\ Kept(F!TrainFifo(t))
      BY NotFull, FifoNames
    <2>3. NSaid(t)' <= NSaid(t) /\ NTold(t)' <= NTold(t)
      BY <2>2, AskedIsNext DEF Kept, NSaid, NTold
    <2>4. AskedSum(t) /\ AskedSum(t)'
      BY AskedIs, AskedIsNext
    <2> QED
      BY <2>1, <2>3, <2>4 DEF AskedSum
  <1> QED
    BY <1>1, AskedLess

\* Counting messages of one kind in a FIFO.
LEMMA SpotsFinite ==
    ASSUME NEW s \in Seq(Words), NEW w
    PROVE  IsFiniteSet(Spots(s, w)) /\ Count(s, w) \in Nat
  <1>1. Spots(s, w) \subseteq 1 .. Len(s) /\ IsFiniteSet(1 .. Len(s))
    BY FS_Interval DEF Spots
  <1>2. IsFiniteSet(Spots(s, w))
    BY <1>1, FS_Subset
  <1> QED
    BY <1>2, FS_CardinalityType DEF Count

LEMMA CountAppend ==
    ASSUME NEW s \in Seq(Words), NEW v \in Words, NEW w
    PROVE  Count(Append(s, v), w) = Count(s, w) + Bit(v = w)
  <1>1. /\ Len(Append(s, v)) = Len(s) + 1 /\ Append(s, v)[Len(s) + 1] = v
        /\ \A n \in 1 .. Len(s) : Append(s, v)[n] = s[n]
    OBVIOUS
  <1>2. CASE v = w
    <2>1. Spots(Append(s, v), w) = Spots(s, w) \cup {Len(s) + 1}
      BY <1>1, <1>2 DEF Spots
    <2>2. Len(s) + 1 \notin Spots(s, w)
      BY DEF Spots
    <2> QED
      BY <1>2, <2>1, <2>2, SpotsFinite, FS_AddElement DEF Count, Bit
  <1>3. CASE v # w
    <2>1. Spots(Append(s, v), w) = Spots(s, w)
      BY <1>1, <1>3 DEF Spots
    <2> QED
      BY <1>3, <2>1, SpotsFinite DEF Count, Bit
  <1> QED
    BY <1>2, <1>3

LEMMA CountTail ==
    ASSUME NEW s \in Seq(Words), s # <<>>, NEW w
    PROVE  Count(s, w) = Count(Tail(s), w) + Bit(Head(s) = w)
  <1>1. /\ Tail(s) \in Seq(Words) /\ Len(Tail(s)) = Len(s) - 1 /\ Len(s) \in Nat \ {0}
        /\ \A n \in 1 .. Len(s) - 1 : Tail(s)[n] = s[n + 1]
        /\ Head(s) = s[1]
    OBVIOUS
  <1> DEFINE S == Spots(s, w) \ {1}
             shift == [n \in Spots(Tail(s), w) |-> n + 1]
  <1>2. shift \in Bijection(Spots(Tail(s), w), S)
    <2>1. \A n \in Spots(Tail(s), w) : n \in Nat /\ n + 1 \in S
      BY <1>1 DEF Spots
    <2>2. \A m \in S : m - 1 \in Spots(Tail(s), w) /\ shift[m - 1] = m
      BY <1>1 DEF Spots
    <2>3. shift \in [Spots(Tail(s), w) -> S]
      BY <2>1
    <2>4. \A a, b \in Spots(Tail(s), w) : a # b => shift[a] # shift[b]
      BY <2>1
    <2> HIDE DEF shift, S
    <2>5. shift \in Injection(Spots(Tail(s), w), S)
      BY <2>3, <2>4 DEF Injection, IsInjective
    <2>6. shift \in Surjection(Spots(Tail(s), w), S)
      BY <2>2, <2>3 DEF Surjection
    <2> QED
      BY <2>5, <2>6 DEF Bijection
  <1>3. IsFiniteSet(Spots(Tail(s), w)) /\ IsFiniteSet(Spots(s, w))
    BY <1>1, SpotsFinite
  <1>4. Cardinality(S) = Count(Tail(s), w)
    BY <1>2, <1>3, FS_Bijection DEF Count, ExistsBijection
  <1>7. Count(s, w) \in Nat /\ Count(Tail(s), w) \in Nat
    BY <1>1, SpotsFinite
  <1>5. CASE Head(s) = w
    <2>1. 1 \in Spots(s, w)
      BY <1>1, <1>5 DEF Spots
    <2>2. Cardinality(S) = Count(s, w) - 1
      BY <1>3, <2>1, FS_RemoveElement DEF Count
    <2>3. Bit(Head(s) = w) = 1
      BY <1>5 DEF Bit
    <2> HIDE DEF S
    <2> QED
      BY <1>4, <1>7, <2>2, <2>3
  <1>6. CASE Head(s) # w
    <2>1. S = Spots(s, w)
      BY <1>1, <1>6 DEF Spots
    <2>2. Bit(Head(s) = w) = 0
      BY <1>6 DEF Bit
    <2>3. Cardinality(S) = Count(s, w)
      BY <2>1 DEF Count
    <2> HIDE DEF S
    <2> QED
      BY <1>4, <1>7, <2>2, <2>3
  <1> QED
    BY <1>5, <1>6

LEMMA ComingFinite ==
    ASSUME NEW p
    PROVE  IsFiniteSet(Coming(p)) /\ Cardinality(Coming(p)) \in Nat
  <1>1. IsFiniteSet(F!Trains) /\ Coming(p) \subseteq F!Trains
    BY StationAssumption, FS_Interval DEF F!Trains, Coming
  <1> QED
    BY <1>1, FS_Subset, FS_CardinalityType

OwedSum(p) ==
    /\ Owed(p) = ahead[p] + NTaken(p) + NComing(p) + NPast(p) - NAnnounced(p)
    /\ ahead[p] \in Int /\ NTaken(p) \in Nat /\ NComing(p) \in Nat
    /\ NPast(p) \in Nat /\ NAnnounced(p) \in Nat /\ Owed(p) \in Int

LEMMA OwedIs ==
    ASSUME StationTypes, NEW p \in F!Platforms
    PROVE  OwedSum(p)
  <1>1. /\ ahead[p] \in Int /\ NTaken(p) \in Nat /\ NComing(p) \in Nat
        /\ NAnnounced(p) \in Nat
    BY NotFull, FifoNames, SpotsFinite, ComingFinite
    DEF StationTypes, NTaken, NComing, NAnnounced
  <1>2. NPast(p) \in Nat
    BY DEF Bit, NPast
  <1> QED
    BY <1>1, <1>2 DEF Owed, OwedSum

LEMMA OwedIsNext ==
    ASSUME StationTypes', NEW p \in F!Platforms
    PROVE  /\ OwedSum(p)'
           /\ NTaken(p)' = Count(fifo'[F!InfoFifo(p)], "sequence")
           /\ NAnnounced(p)' = Len(fifo'[F!BrodFifo(p)])
  <1>1. /\ ahead'[p] \in Int /\ fifo'[F!InfoFifo(p)] \in Seq(Words)
        /\ fifo'[F!BrodFifo(p)] \in Seq(Words)
    BY FifoNames DEF StationTypes
  <1>2. NTaken(p)' = Count(fifo'[F!InfoFifo(p)], "sequence")
        /\ NAnnounced(p)' = Len(fifo'[F!BrodFifo(p)])
    BY DEF NTaken, NAnnounced
  <1>3. NTaken(p)' \in Nat /\ NAnnounced(p)' \in Nat
    BY <1>1, <1>2, SpotsFinite
  <1>4. IsFiniteSet(F!Trains) /\ Coming(p)' \subseteq F!Trains
    BY StationAssumption, FS_Interval DEF F!Trains, Coming
  <1>5. NComing(p)' \in Nat
    BY <1>4, FS_Subset, FS_CardinalityType DEF NComing
  <1>6. NPast(p)' \in Nat
    BY DEF Bit, NPast
  <1>7. Owed(p)' = ahead'[p] + NTaken(p)' + NComing(p)' + NPast(p)' - NAnnounced(p)'
    BY DEF Owed
  <1> QED
    BY <1>1, <1>2, <1>3, <1>5, <1>6, <1>7 DEF OwedSum

LEMMA AheadStep ==
    ASSUME StationTypes, AheadInv, kills' = 0 => kills = 0, StationTypes',
           kills = 0 => \A p \in F!Platforms :
               Owed(p)' <= Owed(p) /\ ahead'[p] <= Bit(at[F!P(p)] # "second")'
    PROVE  AheadInv'
  <1> SUFFICES ASSUME kills = 0, NEW p \in F!Platforms
               PROVE  Owed(p)' <= 0 /\ ahead'[p] <= Bit(at[F!P(p)] # "second")'
    BY DEF AheadInv
  <1>1. Owed(p) <= 0
    BY DEF AheadInv
  <1> QED
    BY <1>1, OwedIs, OwedIsNext DEF OwedSum

LEMMA ComingFewer ==
    ASSUME NEW p, Coming(p)' \subseteq Coming(p)
    PROVE  NComing(p)' <= NComing(p)
  BY ComingFinite, FS_Subset DEF NComing

LEMMA ComingOneMore ==
    ASSUME NEW p, NEW t, Coming(p)' \subseteq Coming(p) \cup {t}
    PROVE  NComing(p)' <= NComing(p) + 1
  <1>1. IsFiniteSet(Coming(p)) /\ NComing(p) = Cardinality(Coming(p)) /\ NComing(p) \in Nat
    BY ComingFinite DEF NComing
  <1> DEFINE more == Coming(p) \cup {t}
  <1>2. IsFiniteSet(more) /\ Cardinality(more) \in Nat /\ Cardinality(more) <= NComing(p) + 1
    BY <1>1, FS_AddElement, FS_CardinalityType
  <1>3. IsFiniteSet(Coming(p)') /\ Cardinality(Coming(p)') \in Nat
        /\ Cardinality(Coming(p)') <= Cardinality(more)
    <2> DEFINE coming == Coming(p)'
    <2>1. coming \subseteq more
      OBVIOUS
    <2> HIDE DEF coming, more
    <2>2. IsFiniteSet(coming) /\ Cardinality(coming) <= Cardinality(more)
      BY <1>2, <2>1, FS_Subset
    <2>3. Cardinality(coming) \in Nat
      BY <2>2, FS_CardinalityType
    <2> QED
      BY <2>2, <2>3 DEF coming
  <1>4. NComing(p)' = Cardinality(Coming(p)')
    BY DEF NComing
  <1> HIDE DEF more
  <1> QED
    BY <1>1, <1>2, <1>3, <1>4

\* In most steps nothing is owed to a platform that was not before.
LEMMA AheadKept ==
    ASSUME StationTypes, AheadInv, StationTypes', kills' = 0 => kills = 0,
           ahead' = ahead,
           kills = 0 =>
             /\ \A p \in F!Platforms :
                   /\ NTaken(p)' <= NTaken(p)
                   /\ fifo'[F!BrodFifo(p)] = fifo[F!BrodFifo(p)]
                   /\ at'[F!P(p)] = "second" => at[F!P(p)] = "second"
                   /\ (InHand /\ k > p)' => InHand /\ k > p
             /\ \A t \in F!Trains :
                   /\ fifo'[F!TrainFifo(t)] = fifo[F!TrainFifo(t)]
                   /\ Goes(t)' => Goes(t) /\ plat'[t] = plat[t]
    PROVE  AheadInv'
  <1>1. ASSUME kills = 0, NEW p \in F!Platforms
        PROVE  Owed(p)' <= Owed(p) /\ ahead'[p] <= Bit(at[F!P(p)] # "second")'
    <2>1. Coming(p)' \subseteq Coming(p)
      BY <1>1 DEF Coming
    <2>2. NComing(p)' <= NComing(p)
      BY <2>1, ComingFewer
    <2>3. NPast(p)' <= NPast(p)
      BY <1>1 DEF Bit, NPast
    <2>4. NTaken(p)' <= NTaken(p) /\ ahead'[p] = ahead[p]
      BY <1>1
    <2>5. NAnnounced(p)' = NAnnounced(p)
      BY <1>1, OwedIsNext DEF NAnnounced
    <2>6. Owed(p)' <= Owed(p)
      <3>1. OwedSum(p) /\ OwedSum(p)'
        BY OwedIs, OwedIsNext
      <3> QED
        BY <2>2, <2>3, <2>4, <2>5, <3>1 DEF OwedSum
    <2>7. ahead'[p] <= Bit(at[F!P(p)] # "second")'
      <3>1. OwedSum(p)
        BY OwedIs
      <3> QED
        BY <1>1, <3>1 DEF AheadInv, Bit, OwedSum
    <2> QED
      BY <2>6, <2>7
  <1> QED
    BY <1>1, AheadStep

\* Nobody has ended: who has a reader keeps it.
ReadersKept == \A f \in F!Fifos : F!HasReader(f) => F!HasReader(f)'

LEMMA ReadersStep ==
    ASSUME StationTypes, ReadersInv, kills' = 0 => kills = 0,
           NEW x \in F!Programs, Others(x),
           \/ at[x] # "off" /\ starts' = starts
           \/ at[x] = "off" /\ starts' = [starts EXCEPT ![x] = @ + 1],
           kills = 0 =>
             /\ at'[x] # "off" /\ ReadersKept
             /\ \A f \in F!Fifos : fifo'[f] # <<>> => fifo[f] # <<>> \/ F!HasReader(f)'
             /\ x # F!SM => i' = i /\ k' = k
             /\ x = F!SM /\ at'[x] = "announce" => k' \in F!Platforms /\ F!HasReader(F!BrodFifo(k))'
             /\ x = F!SM /\ at'[x] = "told" => F!HasReader(F!TrainFifo(i))'
             /\ \A t \in F!Trains :
                   /\ x # F!T(t) => plat'[t] = plat[t]
                   /\ x = F!T(t) /\ at'[x] = "say" => F!HasReader(F!ReadyFifo(t))'
                   /\ x = F!T(t) /\ at'[x] \in {"sequence", "sleep"}
                          => F!HasReader(F!InfoFifo(plat[t]))',
           MasterInv
    PROVE  ReadersInv'
  <1> SUFFICES ASSUME kills = 0, kills' = 0
               PROVE  ReadersInv'
    BY DEF ReadersInv
  <1>1. \A y \in F!Programs : starts'[y] = Bit(at[y] # "off")'
    BY DEF ReadersInv, Others, Bit, StationTypes
  <1>2. \A f \in F!Fifos : fifo'[f] # <<>> => F!HasReader(f)'
    BY DEF ReadersInv, ReadersKept
  <1>3. at'[F!SM] = "announce" => F!HasReader(F!BrodFifo(k))'
    <2>1. CASE x = F!SM
      BY <2>1
    <2>2. CASE x # F!SM
      <3>1. at[F!SM] = "announce" => k \in F!Platforms
        BY DEF MasterInv, StationTypes, F!TypeOK, F!Platforms
      <3>2. at'[F!SM] = at[F!SM] /\ k' = k
        BY <2>2, ProgramNames DEF Others
      <3>3. at[F!SM] = "announce" => F!HasReader(F!BrodFifo(k))
        BY DEF ReadersInv
      <3>4. \A p \in F!Platforms : F!HasReader(F!BrodFifo(p)) =>
                \E d \in open' : d[2] = F!BrodFifo(p) /\ d[3] = "r"
        BY FifoNames DEF ReadersKept, F!HasReader
      <3> QED
        BY <3>1, <3>2, <3>3, <3>4 DEF F!HasReader, F!BrodFifo
    <2> QED
      BY <2>1, <2>2
  <1>4. at'[F!SM] = "told" => F!HasReader(F!TrainFifo(i))'
    <2>1. CASE x = F!SM
      BY <2>1
    <2>2. CASE x # F!SM
      <3>1. i \in F!Trains
        BY DEF StationTypes, F!TypeOK
      <3>2. at'[F!SM] = at[F!SM] /\ i' = i
        BY <2>2, ProgramNames DEF Others
      <3>3. at[F!SM] = "told" => F!HasReader(F!TrainFifo(i))
        BY DEF ReadersInv
      <3>4. \A t \in F!Trains : F!HasReader(F!TrainFifo(t)) =>
                \E d \in open' : d[2] = F!TrainFifo(t) /\ d[3] = "r"
        BY FifoNames DEF ReadersKept, F!HasReader
      <3> QED
        BY <3>1, <3>2, <3>3, <3>4 DEF F!HasReader, F!TrainFifo
    <2> QED
      BY <2>1, <2>2
  <1>5. ASSUME NEW t \in F!Trains
        PROVE  /\ at'[F!T(t)] = "say" => F!HasReader(F!ReadyFifo(t))'
               /\ at'[F!T(t)] \in {"sequence", "sleep"} => F!HasReader(F!InfoFifo(plat[t]))'
    <2>1. CASE x = F!T(t)
      BY <2>1
    <2>2. CASE x # F!T(t)
      <3>1. at'[F!T(t)] = at[F!T(t)] /\ plat'[t] = plat[t] /\ plat[t] \in F!Platforms
        BY <2>2, ProgramNames DEF Others, StationTypes, F!TypeOK
      <3>2. at[F!T(t)] = "say" => F!HasReader(F!ReadyFifo(t))
        BY DEF ReadersInv
      <3>3. at[F!T(t)] \in {"sequence", "sleep"} => F!HasReader(F!InfoFifo(plat[t]))
        BY DEF ReadersInv
      <3>4. \A p \in F!Platforms : F!HasReader(F!InfoFifo(p)) =>
                \E d \in open' : d[2] = F!InfoFifo(p) /\ d[3] = "r"
        BY FifoNames DEF ReadersKept, F!HasReader
      <3>5. F!HasReader(F!ReadyFifo(t)) => \E d \in open' : d[2] = F!ReadyFifo(t) /\ d[3] = "r"
        BY FifoNames DEF ReadersKept, F!HasReader
      <3> QED
        BY <3>1, <3>2, <3>3, <3>4, <3>5 DEF F!HasReader, F!InfoFifo, F!ReadyFifo
    <2> QED
      BY <2>1, <2>2
  <1> QED
    BY <1>1, <1>2, <1>3, <1>4, <1>5 DEF ReadersInv

\* While nobody was stopped, a message that lands changes no other FIFO.
LEMMA LandsCalm ==
    ASSUME StationTypes, ReadersInv, kills = 0, NEW x, NEW f \in F!Fifos, NEW msg, NEW l,
           Lands(x, f, msg, l)
    PROVE  /\ \A g \in F!Fifos : g # f => fifo'[g] = fifo[g]
           /\ ReadersKept /\ F!HasReader(f)'
  <1>1. ASSUME NEW g \in F!Fifos, F!HasReader(g)
        PROVE  F!HasReader(g)' /\ (g # f => fifo'[g] = fifo[g])
    <2>1. PICK d \in open : d[2] = g /\ d[3] = "r"
      BY <1>1 DEF F!HasReader
    <2>2. d \in open' /\ (g # f => fifo'[g] = fifo[g])
      BY <2>1 DEF Lands
    <2> QED
      BY <2>1, <2>2 DEF F!HasReader
  <1>2. ASSUME NEW g \in F!Fifos, g # f, ~F!HasReader(g)
        PROVE  fifo'[g] = fifo[g]
    BY <1>2 DEF ReadersInv, Lands, Kept
  <1>3. F!HasReader(f)
    BY DEF Lands
  <1> QED
    BY <1>1, <1>2, <1>3 DEF ReadersKept

\* A program that ends because it was stopped, or after somebody was.
LEMMA EndsInv ==
    ASSUME StationInv, StationTypes', NEW x \in F!Programs, at'[x] = "off", Others(x),
           \A f \in F!Fifos : Kept(f),
           \A d \in open : d[1] # x => d \in open' /\ fifo'[d[2]] = fifo[d[2]],
           revents' = revents, arrivals' = arrivals, starts' = starts, kills' # 0,
           x # F!SM => i' = i /\ k' = k
    PROVE  StationInv'
  <1>1. MasterInv'
    <2>1. CASE x = F!SM
      BY <2>1 DEF MasterInv
    <2>2. CASE x # F!SM
      <3>1. at'[F!SM] = at[F!SM]
        BY <2>2, ProgramNames DEF Others
      <3>2. \A d \in open : d[1] = F!SM /\ d[3] = "r" => d \in open'
        BY <2>2
      <3>3. \A t \in F!Trains : <<F!SM, F!ReadyFifo(t), "r">> \in open
                => fifo'[F!ReadyFifo(t)] = fifo[F!ReadyFifo(t)]
        <4> SUFFICES ASSUME NEW t \in F!Trains, <<F!SM, F!ReadyFifo(t), "r">> \in open
                     PROVE  fifo'[F!ReadyFifo(t)] = fifo[F!ReadyFifo(t)]
          OBVIOUS
        <4> DEFINE d == <<F!SM, F!ReadyFifo(t), "r">>
        <4>1. d \in open /\ d[1] = F!SM /\ d[2] = F!ReadyFifo(t)
          OBVIOUS
        <4> QED
          BY <2>2, <4>1
      <3> QED
        BY <2>2, <3>1, <3>2, <3>3, MasterKept DEF StationInv
    <2> QED
      BY <2>1, <2>2
  <1>2. AskedInv'
    <2>1. \A y \in F!Programs : at'[y] = at[y] \/ at'[y] = "off"
      BY DEF Others
    <2>2. \A t \in F!Trains : Asks(t)' => Asks(t)
      BY <2>1, ProgramNames DEF Asks, F!T
    <2>3. \A t \in F!Trains : Goes(t)' => Goes(t)
      BY <2>1, ProgramNames DEF Goes, F!T
    <2>4. \A t \in F!Trains : (InHand /\ i = t)' => InHand /\ i = t
      BY <2>1, ProgramNames DEF InHand, F!SM
    <2>5. \A t \in F!Trains : Kept(F!ReadyFifo(t)) /\ Kept(F!TrainFifo(t))
      BY FifoNames
    <2>6. \A t \in F!Trains : starts[F!T(t)] <= starts'[F!T(t)]
      BY ProgramNames DEF StationInv, StationTypes
    <2> QED
      BY <2>2, <2>3, <2>4, <2>5, <2>6, AskedKept DEF StationInv
  <1>3. ReadersInv' /\ AheadInv'
    BY DEF ReadersInv, AheadInv
  <1> QED
    BY <1>1, <1>2, <1>3 DEF StationInv

LEMMA TypeFacts ==
    ASSUME StationTypes
    PROVE  /\ fifo \in [F!Fifos -> Seq(Words)]
           /\ open \subseteq F!Programs \X F!Fifos \X {"r", "w"}
           /\ ahead \in [F!Platforms -> Int] /\ arrivals \in [F!Trains -> Nat]
           /\ starts \in [F!Programs -> Nat] /\ kills \in Nat
           /\ made \subseteq F!Fifos /\ \A d \in open : d[2] \in made
           /\ \A t \in F!Trains : fifo[F!TrainFifo(t)] \in Seq(F!Platforms)
           /\ revents \subseteq F!Trains /\ i \in F!Trains /\ k \in 1 .. NPlatforms + 1
           /\ plat \in [F!Trains -> F!Platforms]
           /\ \A t \in F!Trains : t \in 1 .. NTrains
           /\ \A p \in F!Platforms : p \in 1 .. NPlatforms
           /\ NTrains \in Nat \ {0} /\ NPlatforms \in Nat \ {0}
           /\ 1 \in F!Trains /\ 1 \in F!Platforms /\ 1 \in 1 .. NPlatforms + 1
  <1>1. NTrains \in Nat \ {0} /\ NPlatforms \in Nat \ {0}
    BY StationAssumption
  <1>2. /\ 1 \in F!Trains /\ 1 \in F!Platforms /\ 1 \in 1 .. NPlatforms + 1
        /\ \A t \in F!Trains : t \in 1 .. NTrains
        /\ \A p \in F!Platforms : p \in 1 .. NPlatforms
    BY <1>1 DEF F!Trains, F!Platforms
  <1> QED
    BY <1>1, <1>2 DEF StationTypes, F!TypeOK

(***************************************************************************)
(* The steps of the station master                                         *)
(***************************************************************************)
LEMMA StationStartInv == ASSUME StationInv, F!StationStart PROVE StationInv'
  <1> DEFINE fs == {F!ReadyFifo(t) : t \in F!Trains}
  <1>1. /\ at[F!SM] = "off" /\ at' \in [F!Programs -> Labels] /\ at'[F!SM] = "poll"
        /\ Others(F!SM) /\ starts' = [starts EXCEPT ![F!SM] = @ + 1]
    BY ProgramNames, GotoFacts DEF StationInv, F!StationStart, F!Starts, Labels
  <1>2. /\ made' = made \cup fs /\ open' = open \cup {<<F!SM, f, "r">> : f \in fs}
        /\ revents' = {} /\ k' = 1 /\ fifo' = fifo /\ i' = i /\ plat' = plat
        /\ ahead' = ahead /\ arrivals' = arrivals /\ kills' = kills
    BY DEF F!StationStart, F!Makes, F!Opens
  <1>3. fs \subseteq F!Fifos
    BY FifoNames
  <1>4. FifosTyped /\ OpenTyped /\ made' \subseteq F!Fifos /\ \A d \in open' : d[2] \in made'
    BY <1>2, <1>3, ProgramNames DEF StationInv, StationTypes, F!TypeOK, FifosTyped, OpenTyped
  <1>5. StationTypes'
    <2>1. starts' \in [F!Programs -> Nat]
      BY <1>1, ProgramNames DEF StationInv, StationTypes
    <2> QED
      BY <1>1, <1>2, <1>4, <2>1, ProgramNames, TypeFacts, StepTypes
      DEF StationInv, MasterPlaces
  <1>6. MasterInv'
    BY <1>1, <1>2 DEF MasterInv, F!SM, F!ReadyFifo
  <1>7. AskedInv'
    <2>1. \A t \in F!Trains : /\ at'[F!T(t)] = at[F!T(t)] /\ starts[F!T(t)] <= starts'[F!T(t)]
                              /\ Kept(F!ReadyFifo(t)) /\ Kept(F!TrainFifo(t))
      BY <1>1, <1>2, ProgramNames, StartsNat DEF StationInv, StationTypes, Others, Kept
    <2> QED
      BY <1>1, <1>2, <1>5, <2>1, AskedKept DEF StationInv, Asks, Goes, InHand, F!T, F!SM
  <1>8. ReadersInv'
    <2>1. ReadersKept /\ \A f \in F!Fifos : fifo'[f] = fifo[f]
      BY <1>2 DEF ReadersKept, F!HasReader
    <2> QED
      BY <1>1, <1>2, <2>1, ProgramNames, ReadersStep DEF StationInv
  <1>9. AheadInv'
    <2>1. /\ \A p \in F!Platforms : at'[F!P(p)] = at[F!P(p)]
          /\ \A t \in F!Trains : at'[F!T(t)] = at[F!T(t)]
      BY <1>1, ProgramNames DEF Others
    <2>2. ~InHand' /\ \A t \in F!Trains : Goes(t)' => Goes(t)
      BY <1>1, <2>1 DEF InHand, F!SM, Goes, F!T
    <2>3. \A p \in F!Platforms : NTaken(p)' <= NTaken(p)
      BY <1>2, <1>5, OwedIs, OwedIsNext DEF OwedSum, StationInv, NTaken
    <2> QED
      BY <1>2, <1>5, <2>1, <2>2, <2>3, AheadKept DEF StationInv
  <1> QED
    BY <1>5, <1>6, <1>7, <1>8, <1>9 DEF StationInv

\* A step that leaves everything alone but what the master found.
LEMMA PollInv == ASSUME StationInv, F!Poll PROVE StationInv'
  <1>1. /\ at[F!SM] = "poll" /\ at' = at /\ made' = made /\ fifo' = fifo /\ open' = open
        /\ i' = i /\ k' = k /\ plat' = plat /\ ahead' = ahead /\ arrivals' = arrivals
        /\ starts' = starts /\ kills' = kills
        /\ revents' = {t \in F!Trains : fifo[F!ReadyFifo(t)] # <<>>}
    BY DEF F!Poll, F!records
  <1>2. StationTypes'
    BY <1>1 DEF StationInv, StationTypes, F!TypeOK
  <1>3. MasterInv'
    BY <1>1 DEF StationInv, MasterInv, F!SM, F!ReadyFifo
  <1>4. AskedInv'
    <2>1. \A t \in F!Trains : Asked(t)' = Asked(t)
      BY <1>1 DEF Asked, NAsks, NServes, NGoes, NSaid, NTold, Asks, Goes, InHand, F!T, F!SM,
         F!ReadyFifo, F!TrainFifo
    <2> QED
      BY <1>1, <2>1 DEF StationInv, AskedInv, F!T
  <1>5. ReadersInv'
    BY <1>1 DEF StationInv, ReadersInv, F!HasReader, F!T, F!SM, F!BrodFifo, F!TrainFifo,
       F!ReadyFifo, F!InfoFifo, Bit
  <1>6. AheadInv'
    <2>1. \A t \in F!Trains : Goes(t)' = Goes(t)
      BY <1>1 DEF Goes, F!T
    <2>2. InHand' = InHand
      BY <1>1 DEF InHand, F!SM
    <2>3. \A p \in F!Platforms : NTaken(p)' <= NTaken(p)
      BY <1>1, <1>2, OwedIs, OwedIsNext DEF OwedSum, StationInv, NTaken
    <2> QED
      BY <1>1, <1>2, <2>1, <2>2, <2>3, AheadKept DEF StationInv
  <1> QED
    BY <1>2, <1>3, <1>4, <1>5, <1>6 DEF StationInv

LEMMA ReadReadyInv == ASSUME StationInv, F!ReadReady PROVE StationInv'
  <1> DEFINE j == F!Min(revents)
  <1>1. /\ at[F!SM] = "poll" /\ revents # {} /\ i' = j /\ revents' = revents \ {j}
        /\ F!Read(F!ReadyFifo(j)) /\ made' = made /\ open' = open /\ k' = k /\ plat' = plat
        /\ ahead' = ahead /\ arrivals' = arrivals /\ starts' = starts /\ kills' = kills
    BY DEF F!ReadReady, F!records, F!Read, F!ReadyFifo
  <1>2. at' \in [F!Programs -> Labels] /\ at'[F!SM] = "broadcast" /\ Others(F!SM)
    BY ProgramNames, GotoFacts DEF StationInv, F!ReadReady, Labels
  <1>3. j \in revents /\ j \in F!Trains
    BY <1>1, TypeFacts, LeastOne DEF StationInv
  <1> HIDE DEF j
  <1>4. k = 1 /\ fifo[F!ReadyFifo(j)] # <<>>
        /\ \A t \in revents : fifo[F!ReadyFifo(t)] # <<>>
    BY <1>1, <1>3 DEF StationInv, MasterInv
  <1>5. /\ FifosTyped /\ Len(fifo'[F!ReadyFifo(j)]) = Len(fifo[F!ReadyFifo(j)]) - 1
        /\ \A g \in F!Fifos : g # F!ReadyFifo(j) => fifo'[g] = fifo[g]
    BY <1>1, <1>3, <1>4, FifoNames, ReadFacts DEF StationInv
  <1>6. StationTypes'
    <2>1. \A t \in F!Trains : fifo'[F!TrainFifo(t)] = fifo[F!TrainFifo(t)]
      BY <1>3, <1>5, FifoNames
    <2> QED
      BY <1>1, <1>2, <1>3, <1>5, <2>1, ProgramNames, TypeFacts, StepTypes
      DEF StationInv, MasterPlaces, OpenTyped
  <1>7. MasterInv'
    <2>1. \A t \in revents' : t \in revents /\ t \in F!Trains /\ t # j
      BY <1>1, TypeFacts DEF StationInv
    <2>2. \A t \in revents' : fifo'[F!ReadyFifo(t)] = fifo[F!ReadyFifo(t)]
      BY <1>3, <1>5, <2>1, FifoNames
    <2> QED
      BY <1>1, <1>2, <1>4, <2>1, <2>2, StationAssumption, MasterGoesOn DEF StationInv
  <1>8. AskedInv'
    <2>1. ASSUME NEW t \in F!Trains PROVE Asked(t)' <= Asked(t)
      <3>1. at'[F!T(t)] = at[F!T(t)] /\ fifo'[F!TrainFifo(t)] = fifo[F!TrainFifo(t)]
            /\ (t # j => fifo'[F!ReadyFifo(t)] = fifo[F!ReadyFifo(t)])
        BY <1>2, <1>3, <1>5, ProgramNames, FifoNames DEF Others
      <3>2. ~InHand /\ InHand'
        BY <1>1, <1>2 DEF InHand, F!SM
      <3>3. NSaid(t)' + Bit(j = t) = NSaid(t) /\ NTold(t)' = NTold(t)
        <4>1. NSaid(t) \in Nat /\ NTold(t) \in Nat
          BY AskedIs DEF StationInv, AskedSum
        <4>2. CASE j = t
          BY <1>5, <1>6, <3>1, <4>1, <4>2, AskedIsNext DEF Bit, NSaid, NTold
        <4>3. CASE j # t
          BY <1>5, <1>6, <3>1, <4>1, <4>3, AskedIsNext DEF Bit, NSaid, NTold
        <4> QED
          BY <4>2, <4>3
      <3>4. NAsks(t)' = NAsks(t) /\ NGoes(t)' = NGoes(t)
        BY <3>1 DEF NAsks, NGoes, Asks, Goes, F!T
      <3>5. NServes(t)' = Bit(j = t) /\ NServes(t) = 0 /\ Bit(j = t) \in Nat
        BY <1>1, <3>2 DEF Bit, NServes
      <3>6. AskedSum(t) /\ AskedSum(t)'
        BY <1>6, AskedIs, AskedIsNext DEF StationInv
      <3> QED
        BY <3>3, <3>4, <3>5, <3>6 DEF AskedSum
    <2> QED
      BY <1>1, <1>6, <2>1, AskedLess, StartsNat DEF StationInv
  <1>9. ReadersInv'
    <2>1. ReadersKept
          /\ \A f \in F!Fifos : fifo'[f] # <<>> => fifo[f] # <<>>
      BY <1>1, <1>4, <1>5 DEF ReadersKept, F!HasReader
    <2> QED
      BY <1>1, <1>2, <2>1, ProgramNames, ReadersStep DEF StationInv
  <1>10. AheadInv'
    <2>1. ASSUME NEW p \in F!Platforms
          PROVE  /\ fifo'[F!InfoFifo(p)] = fifo[F!InfoFifo(p)]
                 /\ fifo'[F!BrodFifo(p)] = fifo[F!BrodFifo(p)]
                 /\ at'[F!P(p)] = at[F!P(p)] /\ ~(k' > p)
      <3>1. p \in 1 .. NPlatforms
        BY TypeFacts DEF StationInv
      <3> QED
        BY <1>1, <1>2, <1>3, <1>4, <1>5, <3>1, ProgramNames, FifoNames, StationAssumption
        DEF Others
    <2>2. ASSUME NEW t \in F!Trains
          PROVE  at'[F!T(t)] = at[F!T(t)] /\ fifo'[F!TrainFifo(t)] = fifo[F!TrainFifo(t)]
      BY <1>2, <1>3, <1>5, ProgramNames, FifoNames DEF Others
    <2>3. \A t \in F!Trains : Goes(t)' => Goes(t)
      BY <2>2 DEF Goes, F!T
    <2>4. \A p \in F!Platforms : NTaken(p)' <= NTaken(p)
      BY <1>6, <2>1, OwedIs, OwedIsNext DEF OwedSum, StationInv, NTaken
    <2> QED
      BY <1>1, <1>6, <2>1, <2>2, <2>3, <2>4, AheadKept DEF StationInv
  <1> QED
    BY <1>6, <1>7, <1>8, <1>9, <1>10 DEF StationInv

\* Opening a FIFO for writing, by the master or by a train.
Opening(x, f, l) ==
    \/ x = F!SM /\ at[x] = "broadcast" /\ l = "announce" /\ f = F!BrodFifo(k)
    \/ x = F!SM /\ at[x] = "tell" /\ l = "told" /\ f = F!TrainFifo(i)
    \/ \E t \in F!Trains : x = F!T(t) /\ at[x] = "new" /\ l = "say" /\ f = F!ReadyFifo(t)
    \/ \E t \in F!Trains :
          x = F!T(t) /\ at[x] = "arrive" /\ l = "sequence" /\ f = F!InfoFifo(plat[t])

LEMMA OpenToWriteInv ==
    ASSUME StationInv, NEW x \in F!Programs, NEW f \in F!Fifos, NEW l \in Labels,
           F!OpenToWrite(x, f, l), Opening(x, f, l), revents' = revents, i' = i, k' = k,
           plat' = plat, ahead' = ahead, arrivals' = arrivals, starts' = starts, kills' = kills
    PROVE  StationInv'
  <1>1. /\ at' \in [F!Programs -> Labels] /\ at'[x] = l /\ Others(x)
        /\ f \in made /\ F!HasReader(f) /\ fifo' = fifo /\ made' = made
        /\ OpenTyped /\ open \subseteq open' /\ \A d \in open' : d[2] \in made
    BY OpenFacts DEF StationInv
  <1>2. /\ l \in {"announce", "told"} => x = F!SM
        /\ l \in {"say", "sequence"} => \E t \in F!Trains : x = F!T(t)
        /\ l \in {"announce", "told", "say", "sequence"}
    BY DEF Opening
  <1>3. /\ x = F!SM => l \in {"announce", "told"}
        /\ \A t \in F!Trains : x = F!T(t) => l \in {"say", "sequence"}
        /\ \A p \in F!Platforms : x # F!P(p)
    BY <1>2, ProgramNames
  <1>4. StationTypes'
    <2>1. FifosTyped /\ \A t \in F!Trains : fifo'[F!TrainFifo(t)] \in Seq(F!Platforms)
      BY <1>1, TypeFacts DEF StationInv, FifosTyped
    <2> QED
      BY <1>1, <1>3, <2>1, TypeFacts, StepTypes DEF StationInv, MasterPlaces, TrainPlaces
  <1>5. MasterInv'
    <2>1. CASE x = F!SM
      <3>1. /\ \/ at[F!SM] = "broadcast" /\ l = "announce"
               \/ at[F!SM] = "tell" /\ l = "told"
            /\ at'[F!SM] = l
        BY <1>1, <2>1, ProgramNames DEF Opening
      <3>2. /\ l = "announce" => k <= NPlatforms
            /\ l = "told" => k = NPlatforms + 1
        BY <3>1 DEF StationInv, MasterInv
      <3> QED
        BY <1>1, <3>1, <3>2, MasterGoesOn DEF StationInv
    <2>2. CASE x # F!SM
      <3>1. at'[F!SM] = at[F!SM]
        BY <1>1, <2>2, ProgramNames DEF Others
      <3> QED
        BY <1>1, <3>1, MasterKept DEF StationInv
    <2> QED
      BY <2>1, <2>2
  <1>6. /\ \A t \in F!Trains : Asks(t)' = Asks(t) /\ Goes(t)' = Goes(t)
        /\ InHand' = InHand
    <2>1. ASSUME NEW t \in F!Trains PROVE Asks(t)' = Asks(t) /\ Goes(t)' = Goes(t)
      <3>1. CASE x = F!T(t)
        <4>1. \/ at[F!T(t)] = "new" /\ at'[F!T(t)] = "say"
              \/ at[F!T(t)] = "arrive" /\ at'[F!T(t)] = "sequence"
          BY <1>1, <3>1, ProgramNames DEF Opening
        <4> QED
          BY <4>1 DEF Asks, Goes, F!T
      <3>2. CASE x # F!T(t)
        <4>1. at'[F!T(t)] = at[F!T(t)]
          BY <1>1, <3>2, ProgramNames DEF Others
        <4> QED
          BY <4>1 DEF Asks, Goes, F!T
      <3> QED
        BY <3>1, <3>2
    <2>2. InHand' = InHand
      <3>1. CASE x = F!SM
        <4>1. \/ at[F!SM] = "broadcast" /\ at'[F!SM] = "announce"
              \/ at[F!SM] = "tell" /\ at'[F!SM] = "told"
          BY <1>1, <3>1, ProgramNames DEF Opening
        <4> QED
          BY <4>1 DEF InHand, F!SM
      <3>2. CASE x # F!SM
        <4>1. at'[F!SM] = at[F!SM]
          BY <1>1, <3>2, ProgramNames DEF Others
        <4> QED
          BY <4>1 DEF InHand, F!SM
      <3> QED
        BY <3>1, <3>2
    <2> QED
      BY <2>1, <2>2
  <1>7. AskedInv'
    <2>1. \A t \in F!Trains : Asked(t)' <= Asked(t) /\ starts[F!T(t)] <= starts'[F!T(t)]
      <3> SUFFICES ASSUME NEW t \in F!Trains
                   PROVE  Asked(t)' <= Asked(t) /\ starts[F!T(t)] <= starts'[F!T(t)]
        OBVIOUS
      <3>1. NAsks(t)' = NAsks(t) /\ NGoes(t)' = NGoes(t) /\ NServes(t)' = NServes(t)
        BY <1>6 DEF NAsks, NGoes, NServes, Bit
      <3>2. NSaid(t)' = NSaid(t) /\ NTold(t)' = NTold(t)
        BY <1>1 DEF NSaid, NTold, F!ReadyFifo, F!TrainFifo
      <3>3. AskedSum(t) /\ AskedSum(t)' /\ starts[F!T(t)] \in Nat
        BY <1>4, AskedIs, AskedIsNext, StartsNat DEF StationInv
      <3> QED
        BY <3>1, <3>2, <3>3 DEF AskedSum
    <2> QED
      BY <1>4, <2>1, AskedLess DEF StationInv
  <1>8. ReadersInv'
    <2>1. ReadersKept
      BY <1>1 DEF ReadersKept, F!HasReader
    <2>2. at[x] # "off" /\ l # "off"
      BY <1>2 DEF Opening
    <2>3. F!HasReader(f)'
      BY <1>1 DEF F!HasReader
    <2>4. l = "announce" => k \in F!Platforms /\ F!HasReader(F!BrodFifo(k))'
      <3>1. l = "announce" => f = F!BrodFifo(k) /\ at[F!SM] = "broadcast"
        BY DEF Opening
      <3>2. l = "announce" => k \in F!Platforms
        BY <3>1, TypeFacts DEF StationInv, MasterInv, F!Platforms
      <3> QED
        BY <2>3, <3>1, <3>2 DEF F!HasReader, F!BrodFifo
    <2>5. l = "told" => F!HasReader(F!TrainFifo(i))'
      <3>1. l = "told" => f = F!TrainFifo(i)
        BY DEF Opening
      <3> QED
        BY <2>3, <3>1 DEF F!HasReader, F!TrainFifo
    <2>6. ASSUME NEW t \in F!Trains, x = F!T(t)
          PROVE  /\ l = "say" => F!HasReader(F!ReadyFifo(t))'
                 /\ l \in {"sequence", "sleep"} => F!HasReader(F!InfoFifo(plat[t]))'
      <3>1. l = "say" => f = F!ReadyFifo(t)
        BY <2>6, ProgramNames DEF Opening
      <3>2. l \in {"sequence", "sleep"} => f = F!InfoFifo(plat[t])
        BY <1>2, <2>6, ProgramNames DEF Opening
      <3> QED
        BY <2>3, <3>1, <3>2 DEF F!HasReader, F!ReadyFifo, F!InfoFifo
    <2> QED
      BY <1>1, <2>1, <2>2, <2>4, <2>5, <2>6, ReadersStep DEF StationInv
  <1>9. AheadInv'
    <2>1. \A p \in F!Platforms : at'[F!P(p)] = at[F!P(p)]
      BY <1>1, <1>3, ProgramNames DEF Others
    <2>2. \A p \in F!Platforms : NTaken(p)' <= NTaken(p)
      BY <1>1, <1>4, OwedIs, OwedIsNext DEF OwedSum, StationInv, NTaken
    <2> QED
      BY <1>1, <1>4, <1>6, <2>1, <2>2, AheadKept DEF StationInv
  <1> QED
    BY <1>4, <1>5, <1>7, <1>8, <1>9 DEF StationInv

LEMMA BroadcastOpenInv == ASSUME StationInv, F!BroadcastOpen PROVE StationInv'
  <1>1. k \in F!Platforms
    BY TypeFacts DEF StationInv, MasterInv, F!BroadcastOpen, F!Platforms
  <1> QED
    BY <1>1, ProgramNames, FifoNames, OpenToWriteInv
    DEF F!BroadcastOpen, Opening, F!master, F!records, Labels

LEMMA TellOpenInv == ASSUME StationInv, F!TellOpen PROVE StationInv'
  <1>1. i \in F!Trains
    BY TypeFacts DEF StationInv
  <1> QED
    BY <1>1, ProgramNames, FifoNames, OpenToWriteInv
    DEF F!TellOpen, Opening, F!master, F!records, Labels

LEMMA ReadyOpenInv ==
    ASSUME StationInv, NEW t \in F!Trains, F!ReadyOpen(t) PROVE StationInv'
  BY ProgramNames, FifoNames, OpenToWriteInv
  DEF F!ReadyOpen, Opening, F!master, F!records, Labels

LEMMA InfoOpenInv ==
    ASSUME StationInv, NEW t \in F!Trains, F!InfoOpen(t) PROVE StationInv'
  <1>1. plat[t] \in F!Platforms
    BY TypeFacts DEF StationInv
  <1> QED
    BY <1>1, ProgramNames, FifoNames, OpenToWriteInv
    DEF F!InfoOpen, Opening, F!master, F!records, Labels

LEMMA BreaksInv ==
    ASSUME StationInv, NEW x \in F!Programs, at' \in [F!Programs -> Labels], at'[x] = "off",
           Others(x), FifosTyped, OpenTyped, open' \subseteq open, made' = made,
           \A f \in F!Fifos : Kept(f),
           \A d \in open : d[1] # x => d \in open' /\ fifo'[d[2]] = fifo[d[2]],
           revents' = revents, plat' = plat, ahead' = ahead, arrivals' = arrivals,
           starts' = starts, kills' \in Nat \ {0}, i' \in F!Trains,
           k' \in 1 .. NPlatforms + 1, x # F!SM => i' = i /\ k' = k
    PROVE  StationInv'
  <1>1. \A d \in open' : d[2] \in made'
    BY TypeFacts DEF StationInv
  <1>2. \A t \in F!Trains : fifo'[F!TrainFifo(t)] \in Seq(F!Platforms)
    <2>1. <<>> \in Seq(F!Platforms)
      OBVIOUS
    <2> QED
      BY <2>1, TypeFacts, FifoNames DEF StationInv, Kept
  <1>3. StationTypes'
    BY <1>1, <1>2, TypeFacts, StepTypes
    DEF StationInv, MasterPlaces, PlatformPlaces, TrainPlaces
  <1> QED
    BY <1>3, EndsInv

\* The terms that a step leaves alone.
LEMMA TermsKept ==
    /\ \A t \in F!Trains :
          /\ at'[F!T(t)] = at[F!T(t)] =>
                /\ Asks(t)' = Asks(t) /\ Goes(t)' = Goes(t)
                /\ NAsks(t)' = NAsks(t) /\ NGoes(t)' = NGoes(t)
          /\ fifo'[F!ReadyFifo(t)] = fifo[F!ReadyFifo(t)] => NSaid(t)' = NSaid(t)
          /\ fifo'[F!TrainFifo(t)] = fifo[F!TrainFifo(t)] => NTold(t)' = NTold(t)
          /\ (InHand /\ i = t)' = (InHand /\ i = t) => NServes(t)' = NServes(t)
    /\ \A p \in F!Platforms :
          /\ fifo'[F!InfoFifo(p)] = fifo[F!InfoFifo(p)] => NTaken(p)' = NTaken(p)
          /\ fifo'[F!BrodFifo(p)] = fifo[F!BrodFifo(p)] => NAnnounced(p)' = NAnnounced(p)
          /\ (InHand /\ k > p)' = (InHand /\ k > p) => NPast(p)' = NPast(p)
    /\ at'[F!SM] = at[F!SM] => InHand' = InHand
  <1>1. \A t \in F!Trains : at'[F!T(t)] = at[F!T(t)] =>
                /\ Asks(t)' = Asks(t) /\ Goes(t)' = Goes(t)
                /\ NAsks(t)' = NAsks(t) /\ NGoes(t)' = NGoes(t)
    BY DEF Asks, Goes, NAsks, NGoes, F!T
  <1>2. \A t \in F!Trains :
          /\ fifo'[F!ReadyFifo(t)] = fifo[F!ReadyFifo(t)] => NSaid(t)' = NSaid(t)
          /\ fifo'[F!TrainFifo(t)] = fifo[F!TrainFifo(t)] => NTold(t)' = NTold(t)
          /\ (InHand /\ i = t)' = (InHand /\ i = t) => NServes(t)' = NServes(t)
    BY DEF NSaid, NTold, NServes, F!ReadyFifo, F!TrainFifo, Bit
  <1>3. \A p \in F!Platforms :
          /\ fifo'[F!InfoFifo(p)] = fifo[F!InfoFifo(p)] => NTaken(p)' = NTaken(p)
          /\ fifo'[F!BrodFifo(p)] = fifo[F!BrodFifo(p)] => NAnnounced(p)' = NAnnounced(p)
          /\ (InHand /\ k > p)' = (InHand /\ k > p) => NPast(p)' = NPast(p)
    BY DEF NTaken, NAnnounced, NPast, F!InfoFifo, F!BrodFifo, Bit
  <1>4. at'[F!SM] = at[F!SM] => InHand' = InHand
    BY DEF InHand, F!SM
  <1> QED
    BY <1>1, <1>2, <1>3, <1>4

\* Of two steps of the master: the one over a platform that has no FIFO.
LEMMA BroadcastFailsInv == ASSUME StationInv, F!BroadcastFails PROVE StationInv'
  <1>1. /\ at[F!SM] = "broadcast" /\ k' = k + 1 /\ made' = made /\ fifo' = fifo
        /\ open' = open /\ revents' = revents /\ i' = i /\ plat' = plat
        /\ arrivals' = arrivals /\ starts' = starts /\ kills' = kills
        /\ ahead' = [ahead EXCEPT ![k] = @ - 1]
    BY DEF F!BroadcastFails, F!NextPlatform
  <1>2. k \in 1 .. NPlatforms /\ k \in F!Platforms
    BY <1>1, TypeFacts DEF StationInv, MasterInv, F!Platforms
  <1> DEFINE l == IF k < NPlatforms THEN "broadcast" ELSE "tell"
  <1>3. at' \in [F!Programs -> Labels] /\ at'[F!SM] = l /\ Others(F!SM)
    BY ProgramNames, GotoFacts DEF StationInv, F!BroadcastFails, F!NextPlatform, Labels
  <1>4. StationTypes'
    <2>1. ahead' \in [F!Platforms -> Int] /\ k' \in 1 .. NPlatforms + 1
      BY <1>1, <1>2, TypeFacts DEF StationInv
    <2> QED
      BY <1>1, <1>3, <2>1, ProgramNames, TypeFacts, StepTypes
      DEF StationInv, MasterPlaces, FifosTyped, OpenTyped
  <1>5. MasterInv'
    BY <1>1, <1>2, <1>3, StationAssumption, MasterGoesOn DEF StationInv
  <1>6. InHand /\ InHand'
    BY <1>1, <1>3 DEF InHand, F!SM
  <1>7. \A t \in F!Trains : at'[F!T(t)] = at[F!T(t)]
    BY <1>3, ProgramNames DEF Others
  <1>8. AskedInv'
    <2>1. ASSUME NEW t \in F!Trains
          PROVE  Asked(t)' <= Asked(t) /\ starts[F!T(t)] <= starts'[F!T(t)]
      <3>1. AskedSum(t) /\ AskedSum(t)' /\ starts[F!T(t)] \in Nat
        BY <1>4, AskedIs, AskedIsNext, StartsNat DEF StationInv
      <3> QED
        BY <1>1, <1>6, <1>7, <3>1, TermsKept DEF AskedSum
    <2> QED
      BY <1>1, <1>4, <2>1, AskedLess DEF StationInv
  <1>9. ReadersInv'
    <2>1. ReadersKept
      BY <1>1 DEF ReadersKept, F!HasReader
    <2> QED
      BY <1>1, <1>3, <2>1, ProgramNames, ReadersStep DEF StationInv
  <1>10. AheadInv'
    <2>1. ASSUME kills = 0, NEW p \in F!Platforms
          PROVE  Owed(p)' <= Owed(p) /\ ahead'[p] <= Bit(at[F!P(p)] # "second")'
      <3>1. at'[F!P(p)] = at[F!P(p)]
        BY <1>3, ProgramNames DEF Others
      <3>2. OwedSum(p) /\ OwedSum(p)'
        BY <1>4, OwedIs, OwedIsNext DEF StationInv
      <3>3. NComing(p)' <= NComing(p)
        <4>1. Coming(p)' \subseteq Coming(p)
          BY <1>1, <1>7, TermsKept DEF Coming, F!TrainFifo
        <4> QED
          BY <4>1, ComingFewer
      <3>4. NTaken(p)' = NTaken(p) /\ NAnnounced(p)' = NAnnounced(p)
        BY <1>1, TermsKept
      <3>5. ahead'[p] + NPast(p)' <= ahead[p] + NPast(p) /\ ahead'[p] <= ahead[p]
        <4>1. p \in Nat /\ k \in Nat
          BY <1>2, TypeFacts DEF StationInv
        <4>2. ahead[p] \in Int /\ ahead'[p] = IF p = k THEN ahead[p] - 1 ELSE ahead[p]
          BY <1>1, TypeFacts DEF StationInv
        <4>3. /\ NPast(p) = IF k > p THEN 1 ELSE 0
              /\ NPast(p)' = IF k + 1 > p THEN 1 ELSE 0
          BY <1>1, <1>6 DEF NPast, Bit
        <4> QED
          BY <4>1, <4>2, <4>3
      <3>6. Owed(p)' <= Owed(p)
        BY <3>2, <3>3, <3>4, <3>5 DEF OwedSum
      <3>7. ahead'[p] <= Bit(at[F!P(p)] # "second")'
        BY <2>1, <3>1, <3>2, <3>5 DEF StationInv, AheadInv, Bit, OwedSum, F!P
      <3> QED
        BY <3>6, <3>7
    <2> QED
      BY <1>1, <1>4, <2>1, AheadStep DEF StationInv
  <1> QED
    BY <1>4, <1>5, <1>8, <1>9, <1>10 DEF StationInv

LEMMA BroadcastWriteInv == ASSUME StationInv, F!BroadcastWrite PROVE StationInv'
  <1>0. PICK q \in F!Platforms : q = k
    BY TypeFacts DEF F!BroadcastWrite, StationInv, MasterInv, F!Platforms
  <1>a. PICK l \in {"broadcast", "tell"} : l = IF k < NPlatforms THEN "broadcast" ELSE "tell"
    OBVIOUS
  <1>b. PICK f \in F!Fifos : f = F!BrodFifo(q)
    BY FifoNames
  <1>1. /\ at[F!SM] = "announce" /\ k' = k + 1 /\ revents' = revents /\ i' = i
        /\ plat' = plat /\ ahead' = ahead /\ arrivals' = arrivals /\ starts' = starts
        /\ kills' = kills /\ F!WriteAndClose(F!SM, f, "coming", l)
    BY <1>0, <1>a, <1>b DEF F!BroadcastWrite, F!records
  <1>2. /\ k \in 1 .. NPlatforms /\ k \in F!Platforms /\ k' \in 1 .. NPlatforms + 1
        /\ "coming" \in Words /\ l \in Labels
    <2>1. k \in F!Platforms /\ k \in 1 .. NPlatforms
      BY <1>0, TypeFacts DEF StationInv
    <2>2. "coming" \in Words /\ l \in Labels
      BY DEF Words, Labels
    <2> QED
      BY <1>1, <2>1, <2>2, StationAssumption
  <1>3. /\ at' \in [F!Programs -> Labels] /\ Others(F!SM)
        /\ FifosTyped /\ OpenTyped /\ open' \subseteq open /\ made' = made
        /\ Lands(F!SM, f, "coming", l) \/ Breaks(F!SM, f)
    BY <1>1, <1>2, ProgramNames, WriteAndCloseFacts DEF StationInv
  <1>4. CASE Breaks(F!SM, f)
    <2>1. kills # 0
      BY <1>0, <1>b, <1>1, <1>4 DEF StationInv, ReadersInv, Breaks
    <2> QED
      BY <1>1, <1>2, <1>3, <1>4, <2>1, ProgramNames, TypeFacts, BreaksInv
      DEF StationInv, Breaks
  <1>5. CASE Lands(F!SM, f, "coming", l)
    <2>1. /\ at'[F!SM] = l /\ fifo'[f] = Append(fifo[f], "coming")
          /\ \A t \in F!Trains : Kept(F!ReadyFifo(t)) /\ Kept(F!TrainFifo(t))
          /\ \A d \in open : d[3] = "r" => d \in open' /\ (d[2] # f => fifo'[d[2]] = fifo[d[2]])
      BY <1>b, <1>5, FifoNames DEF Lands
    <2>2. StationTypes'
      <3>1. \A t \in F!Trains : fifo'[F!TrainFifo(t)] \in Seq(F!Platforms)
        <4>1. <<>> \in Seq(F!Platforms)
          OBVIOUS
        <4> QED
          BY <2>1, <4>1, TypeFacts DEF StationInv, Kept
      <3>2. \A d \in open' : d[2] \in made'
        BY <1>3, TypeFacts DEF StationInv
      <3> QED
        BY <1>1, <1>2, <1>3, <2>1, <3>1, <3>2, ProgramNames, TypeFacts, StepTypes
        DEF StationInv, MasterPlaces
    <2>3. MasterInv'
      <3>1. ASSUME NEW t \in F!Trains PROVE fifo'[F!ReadyFifo(t)] = fifo[F!ReadyFifo(t)]
        <4>1. <<F!SM, F!ReadyFifo(t), "r">> \in open
          BY <1>1 DEF StationInv, MasterInv
        <4> DEFINE d == <<F!SM, F!ReadyFifo(t), "r">>
        <4>2. d \in open /\ d[2] = F!ReadyFifo(t) /\ d[3] = "r" /\ d[2] # f
          BY <1>b, <4>1, FifoNames
        <4> QED
          BY <2>1, <4>2
      <3> QED
        BY <1>1, <1>2, <1>a, <2>1, <3>1, StationAssumption, TypeFacts, MasterGoesOn DEF StationInv
    <2>4. InHand /\ InHand'
      BY <1>1, <2>1 DEF InHand, F!SM
    <2>5. \A t \in F!Trains : at'[F!T(t)] = at[F!T(t)]
      BY <1>3, ProgramNames DEF Others
    <2>6. AskedInv'
      <3>1. \A t \in F!Trains : starts[F!T(t)] <= starts'[F!T(t)]
        BY <1>1, StartsNat DEF StationInv
      <3> QED
        BY <1>1, <2>1, <2>2, <2>4, <2>5, <3>1, TermsKept, AskedKept DEF StationInv
    <2>7. kills = 0 => /\ \A g \in F!Fifos : g # f => fifo'[g] = fifo[g]
                       /\ ReadersKept /\ F!HasReader(f)'
      BY <1>2, <1>5, LandsCalm DEF StationInv
    <2>8. ReadersInv'
      <3>1. kills = 0 =>
                \A g \in F!Fifos : fifo'[g] # <<>> => fifo[g] # <<>> \/ F!HasReader(g)'
        BY <2>7
      <3> QED
        BY <1>1, <1>3, <2>1, <2>7, <3>1, ProgramNames, ReadersStep DEF StationInv
    <2>9. AheadInv'
      <3>1. ASSUME kills = 0, NEW p \in F!Platforms
            PROVE  Owed(p)' <= Owed(p) /\ ahead'[p] <= Bit(at[F!P(p)] # "second")'
        <4>1. OwedSum(p) /\ OwedSum(p)' /\ NAnnounced(p)' = Len(fifo'[F!BrodFifo(p)])
          BY <2>2, OwedIs, OwedIsNext DEF StationInv
        <4>2. NComing(p)' <= NComing(p)
          <5>1. \A t \in F!Trains : fifo'[F!TrainFifo(t)] = fifo[F!TrainFifo(t)]
            BY <1>b, <2>7, <3>1, FifoNames
          <5>2. Coming(p)' \subseteq Coming(p)
            BY <1>1, <2>5, <5>1, TermsKept DEF Coming, F!TrainFifo
          <5> QED
            BY <5>2, ComingFewer
        <4>3. NTaken(p)' = NTaken(p)
          BY <1>b, <2>7, <3>1, FifoNames, TermsKept
        <4>4. NAnnounced(p)' = NAnnounced(p) + Bit(p = q)
          <5>1. CASE p = q
            <6>1. fifo[F!BrodFifo(p)] \in Seq(Words) /\ "coming" \in Words
              BY FifoNames, TypeFacts DEF StationInv, Words
            <6>2. fifo'[F!BrodFifo(p)] = Append(fifo[F!BrodFifo(p)], "coming")
              BY <1>b, <2>1, <5>1
            <6> QED
              BY <4>1, <5>1, <6>1, <6>2 DEF NAnnounced, Bit
          <5>2. CASE p # q
            <6>1. fifo'[F!BrodFifo(p)] = fifo[F!BrodFifo(p)]
              BY <1>b, <2>7, <3>1, <5>2, FifoNames
            <6>2. NAnnounced(p)' = NAnnounced(p)
              BY <6>1, TermsKept
            <6> QED
              BY <4>1, <5>2, <6>2 DEF Bit, OwedSum
          <5> QED
            BY <5>1, <5>2
        <4>5. NPast(p)' = NPast(p) + Bit(p = q)
          <5>1. p \in Nat /\ k \in Nat
            BY <1>2, TypeFacts DEF StationInv
          <5>2. /\ NPast(p) = IF k > p THEN 1 ELSE 0
                /\ NPast(p)' = IF k + 1 > p THEN 1 ELSE 0
            BY <1>1, <2>4 DEF NPast, Bit
          <5> QED
            BY <1>0, <5>1, <5>2 DEF Bit
        <4>6. Owed(p)' <= Owed(p)
          <5>1. Bit(p = q) \in Nat
            BY DEF Bit
          <5> QED
            BY <1>1, <4>1, <4>2, <4>3, <4>4, <4>5, <5>1 DEF OwedSum
        <4>7. at'[F!P(p)] = at[F!P(p)]
          BY <1>3, ProgramNames DEF Others
        <4>8. ahead'[p] <= Bit(at[F!P(p)] # "second")'
          BY <1>1, <3>1, <4>7 DEF StationInv, AheadInv, Bit, F!P
        <4> QED
          BY <4>6, <4>8
      <3> QED
        BY <1>1, <2>2, <3>1, AheadStep DEF StationInv
    <2> QED
      BY <2>2, <2>3, <2>6, <2>8, <2>9 DEF StationInv
  <1> QED
    BY <1>3, <1>4, <1>5

LEMMA FreePlatform == F!FirstFree \in F!Platforms
  <1>1. NPlatforms \in Nat /\ 1 \in F!Platforms
    BY StationAssumption DEF F!Platforms
  <1> DEFINE S == {p \in F!Platforms : F!plat_available[p] = 1}
  <1>2. S \in SUBSET (1 .. NPlatforms) /\ S # {}
    BY <1>1 DEF F!plat_available, F!Platforms
  <1> HIDE DEF S
  <1>3. F!Min(S) \in S
    BY <1>1, <1>2, LeastOne
  <1> QED
    BY <1>3 DEF S, F!FirstFree

LEMMA AppendTold ==
    ASSUME NEW s \in Seq(F!Platforms), NEW p \in F!Platforms
    PROVE  /\ Append(s, p) \in Seq(F!Platforms) /\ Len(Append(s, p)) = Len(s) + 1
           /\ s = <<>> => Head(Append(s, p)) = p
  <1>1. Append(s, p) \in Seq(F!Platforms) /\ Len(Append(s, p)) = Len(s) + 1
    OBVIOUS
  <1>2. ASSUME s = <<>> PROVE Head(Append(s, p)) = p
    <2>1. Append(<<>>, p) = <<p>>
      OBVIOUS
    <2>2. Head(<<p>>) = p
      OBVIOUS
    <2> QED
      BY <1>2, <2>1, <2>2
  <1> QED
    BY <1>1, <1>2

LEMMA TellWriteInv == ASSUME StationInv, F!TellWrite PROVE StationInv'
  <1>0. PICK j \in F!Trains : j = i
    BY TypeFacts DEF StationInv
  <1>a. PICK f \in F!Fifos : f = F!TrainFifo(j)
    BY FifoNames
  <1>b. PICK msg \in F!Platforms : msg = F!FirstFree
    BY FreePlatform
  <1>1. /\ at[F!SM] = "told" /\ k' = 1 /\ i' = 1 /\ revents' = revents
        /\ plat' = plat /\ ahead' = ahead /\ arrivals' = arrivals /\ starts' = starts
        /\ kills' = kills /\ F!WriteAndKeep(F!SM, f, msg, open, "poll")
    BY <1>0, <1>a, <1>b DEF F!TellWrite, F!records
  <1>2. msg \in Words /\ "poll" \in Labels /\ open \in SUBSET open
    BY TypeFacts DEF StationInv, Words, Labels
  <1>3. /\ at' \in [F!Programs -> Labels] /\ Others(F!SM)
        /\ FifosTyped /\ OpenTyped /\ open' \subseteq open /\ made' = made
        /\ Lands(F!SM, f, msg, "poll") \/ Breaks(F!SM, f)
    BY <1>1, <1>2, ProgramNames, WriteFacts DEF StationInv
  <1>4. CASE Breaks(F!SM, f)
    <2>1. kills # 0
      BY <1>0, <1>a, <1>1, <1>4 DEF StationInv, ReadersInv, Breaks
    <2> QED
      BY <1>1, <1>3, <1>4, <2>1, ProgramNames, TypeFacts, BreaksInv DEF StationInv, Breaks
  <1>5. CASE Lands(F!SM, f, msg, "poll")
    <2>1. /\ at'[F!SM] = "poll" /\ fifo'[f] = Append(fifo[f], msg)
          /\ \A g \in F!Fifos : g # f => Kept(g)
          /\ \A d \in open : d[3] = "r" => d \in open' /\ (d[2] # f => fifo'[d[2]] = fifo[d[2]])
      BY <1>5 DEF Lands
    <2>2. StationTypes'
      <3>1. \A t \in F!Trains : fifo'[F!TrainFifo(t)] \in Seq(F!Platforms)
        <4>1. <<>> \in Seq(F!Platforms)
          OBVIOUS
        <4>2. fifo'[f] \in Seq(F!Platforms)
          BY <1>a, <2>1, TypeFacts, AppendTold DEF StationInv
        <4> QED
          BY <1>a, <2>1, <4>1, <4>2, FifoNames, TypeFacts DEF StationInv, Kept
      <3>2. \A d \in open' : d[2] \in made'
        BY <1>3, TypeFacts DEF StationInv
      <3> QED
        BY <1>1, <1>3, <2>1, <3>1, <3>2, ProgramNames, TypeFacts, StepTypes
        DEF StationInv, MasterPlaces
    <2>3. MasterInv'
      <3>1. ASSUME NEW t \in F!Trains PROVE fifo'[F!ReadyFifo(t)] = fifo[F!ReadyFifo(t)]
        <4>1. <<F!SM, F!ReadyFifo(t), "r">> \in open
          BY <1>1 DEF StationInv, MasterInv
        <4> DEFINE d == <<F!SM, F!ReadyFifo(t), "r">>
        <4>2. d \in open /\ d[2] = F!ReadyFifo(t) /\ d[3] = "r" /\ d[2] # f
          BY <1>a, <4>1, FifoNames
        <4> QED
          BY <2>1, <4>2
      <3> QED
        BY <1>1, <2>1, <3>1, TypeFacts, MasterGoesOn DEF StationInv
    <2>4. InHand /\ ~InHand'
      BY <1>1, <2>1 DEF InHand, F!SM
    <2>5. \A t \in F!Trains : at'[F!T(t)] = at[F!T(t)]
      BY <1>3, ProgramNames DEF Others
    <2>6. \A t \in F!Trains : /\ NSaid(t)' <= NSaid(t)
                              /\ NTold(t)' + NServes(t)' <= NTold(t) + NServes(t)
      <3> SUFFICES ASSUME NEW t \in F!Trains
                   PROVE  /\ NSaid(t)' <= NSaid(t)
                          /\ NTold(t)' + NServes(t)' <= NTold(t) + NServes(t)
        OBVIOUS
      <3>1. /\ AskedSum(t) /\ AskedSum(t)' /\ NSaid(t)' = Len(fifo'[F!ReadyFifo(t)])
            /\ NTold(t)' = Len(fifo'[F!TrainFifo(t)])
        BY <2>2, AskedIs, AskedIsNext DEF StationInv
      <3>2. NServes(t)' = 0 /\ NServes(t) = Bit(j = t)
        BY <1>0, <2>4 DEF NServes, Bit
      <3>3. NSaid(t)' <= NSaid(t)
        <4>1. Kept(F!ReadyFifo(t))
          BY <1>a, <2>1, FifoNames
        <4> QED
          BY <3>1, <4>1 DEF Kept, NSaid, AskedSum
      <3>4. NTold(t)' <= NTold(t) + Bit(j = t)
        <4>1. CASE t = j
          <5>1. fifo[F!TrainFifo(t)] \in Seq(F!Platforms)
            BY TypeFacts DEF StationInv
          <5>2. Len(fifo'[F!TrainFifo(t)]) = Len(fifo[F!TrainFifo(t)]) + 1
            BY <1>a, <2>1, <4>1, <5>1, AppendTold
          <5>3. Bit(j = t) = 1
            BY <4>1 DEF Bit
          <5>4. NTold(t) = Len(fifo[F!TrainFifo(t)]) /\ NTold(t) \in Nat
            BY <3>1 DEF NTold, AskedSum
          <5>5. NTold(t)' = NTold(t) + 1
            BY <3>1, <5>2, <5>4
          <5> QED
            BY <5>3, <5>4, <5>5
        <4>2. CASE t # j
          <5>1. Kept(F!TrainFifo(t))
            BY <1>a, <2>1, <4>2, FifoNames
          <5>2. NTold(t)' <= NTold(t) /\ NTold(t)' \in Nat /\ NTold(t) \in Nat
            <6>1. NTold(t) = Len(fifo[F!TrainFifo(t)])
              BY DEF NTold
            <6>2. NTold(t)' \in Nat /\ NTold(t) \in Nat
              BY <3>1 DEF AskedSum
            <6>3. fifo'[F!TrainFifo(t)] = <<>> => NTold(t)' = 0
              BY <3>1
            <6> QED
              BY <3>1, <5>1, <6>1, <6>2, <6>3 DEF Kept
          <5>3. Bit(j = t) \in Nat
            BY DEF Bit
          <5> QED
            BY <5>2, <5>3
        <4> QED
          BY <4>1, <4>2
      <3>5. Bit(j = t) \in Nat
        BY DEF Bit
      <3> QED
        BY <3>1, <3>2, <3>3, <3>4, <3>5 DEF AskedSum
    <2>7. AskedInv'
      <3>1. ASSUME NEW t \in F!Trains
            PROVE  Asked(t)' <= Asked(t) /\ starts[F!T(t)] <= starts'[F!T(t)]
        <4>1. AskedSum(t) /\ AskedSum(t)' /\ starts[F!T(t)] \in Nat
          BY <2>2, AskedIs, AskedIsNext, StartsNat DEF StationInv
        <4>2. NAsks(t)' = NAsks(t) /\ NGoes(t)' = NGoes(t)
          BY <2>5, TermsKept
        <4>3. NSaid(t)' <= NSaid(t) /\ NTold(t)' + NServes(t)' <= NTold(t) + NServes(t)
          BY <2>6
        <4> QED
          BY <1>1, <4>1, <4>2, <4>3 DEF AskedSum
      <3> QED
        BY <1>1, <2>2, <3>1, AskedLess DEF StationInv
    <2>8. kills = 0 => /\ \A g \in F!Fifos : g # f => fifo'[g] = fifo[g]
                       /\ ReadersKept /\ F!HasReader(f)'
      BY <1>5, LandsCalm DEF StationInv
    <2>9. ReadersInv'
      <3>1. kills = 0 =>
                \A g \in F!Fifos : fifo'[g] # <<>> => fifo[g] # <<>> \/ F!HasReader(g)'
        BY <2>8
      <3> QED
        BY <1>1, <1>3, <2>1, <2>8, <3>1, ProgramNames, ReadersStep DEF StationInv
    <2>10. AheadInv'
      <3>1. ASSUME kills = 0, NEW p \in F!Platforms
            PROVE  Owed(p)' <= Owed(p) /\ ahead'[p] <= Bit(at[F!P(p)] # "second")'
        <4>1. OwedSum(p) /\ OwedSum(p)'
          BY <2>2, OwedIs, OwedIsNext DEF StationInv
        \* the train was not told anything before
        <4>2. fifo[f] = <<>>
          <5>1. AskedSum(j) /\ NServes(j) = 1
            BY <1>0, <2>4, AskedIs DEF StationInv, NServes, Bit
          <5>2. starts[F!T(j)] \in 0 .. 1 /\ arrivals[j] \in Nat
            BY <3>1, ProgramNames, StartsNat DEF StationInv, ReadersInv, Bit
          <5>3. arrivals[j] + Asked(j) <= starts[F!T(j)]
            BY DEF StationInv, AskedInv
          <5>4. NTold(j) = 0
            BY <5>1, <5>2, <5>3 DEF AskedSum
          <5>5. fifo[F!TrainFifo(j)] \in Seq(F!Platforms)
            BY TypeFacts DEF StationInv
          <5> QED
            BY <1>a, <5>4, <5>5 DEF NTold
        <4>3. fifo'[f] = Append(<<>>, msg) /\ Head(fifo'[f]) = msg
          BY <2>1, <4>2, AppendTold
        <4>4. Coming(p)' \subseteq Coming(p) \cup {j}
          <5>1. \A t \in F!Trains : t # j => fifo'[F!TrainFifo(t)] = fifo[F!TrainFifo(t)]
            BY <1>a, <2>8, <3>1, FifoNames
          <5> QED
            BY <1>1, <2>5, <5>1, TermsKept DEF Coming, F!TrainFifo
        <4>5. NComing(p)' <= NComing(p) + 1
          BY <4>4, ComingOneMore
        <4>6. NTaken(p)' = NTaken(p) /\ NAnnounced(p)' = NAnnounced(p)
          BY <1>a, <2>8, <3>1, FifoNames, TermsKept
        <4>7. NPast(p)' = 0 /\ NPast(p) = 1
          <5>1. k = NPlatforms + 1 /\ p \in 1 .. NPlatforms
            BY <1>1, TypeFacts DEF StationInv, MasterInv
          <5>2. k > p
            BY <5>1, StationAssumption
          <5> QED
            BY <2>4, <5>2 DEF NPast, Bit
        <4>8. Owed(p)' <= Owed(p)
          BY <1>1, <4>1, <4>5, <4>6, <4>7 DEF OwedSum
        <4>9. at'[F!P(p)] = at[F!P(p)]
          BY <1>3, ProgramNames DEF Others
        <4>10. ahead'[p] <= Bit(at[F!P(p)] # "second")'
          BY <1>1, <3>1, <4>9 DEF StationInv, AheadInv, Bit, F!P
        <4> QED
          BY <4>8, <4>10
      <3> QED
        BY <1>1, <2>2, <3>1, AheadStep DEF StationInv
    <2> QED
      BY <2>2, <2>3, <2>7, <2>9, <2>10 DEF StationInv
  <1> QED
    BY <1>3, <1>4, <1>5

(***************************************************************************)
(* The steps of platforms and trains that write nothing                    *)
(***************************************************************************)
LEMMA StartsFacts ==
    ASSUME StationTypes, NEW x \in F!Programs,
           starts' = starts \/ starts' = [starts EXCEPT ![x] = @ + 1]
    PROVE  /\ starts' \in [F!Programs -> Nat]
           /\ \A t \in F!Trains : starts[F!T(t)] <= starts'[F!T(t)]
  <1>1. starts \in [F!Programs -> Nat]
    BY DEF StationTypes
  <1>2. starts' \in [F!Programs -> Nat] /\ \A y \in F!Programs : starts[y] <= starts'[y]
    BY <1>1
  <1> QED
    BY <1>2, ProgramNames

LEMMA OpensFacts ==
    ASSUME StationTypes, NEW x \in F!Programs, NEW fs \in SUBSET F!Fifos,
           made' = made \cup fs, F!Opens(x, fs)
    PROVE  /\ OpenTyped /\ open \subseteq open' /\ made' \subseteq F!Fifos
           /\ \A d \in open' : d[2] \in made'
  <1>1. made \subseteq F!Fifos /\ (\A d \in open : d[2] \in made)
        /\ open \subseteq F!Programs \X F!Fifos \X {"r", "w"}
    BY TypeFacts
  <1>2. open' = open \cup {<<x, f, "r">> : f \in fs}
    BY DEF F!Opens
  <1>3. \A d \in open' : d[2] \in made'
    BY <1>1, <1>2
  <1>4. OpenTyped
    BY <1>1, <1>2 DEF OpenTyped
  <1> QED
    BY <1>1, <1>2, <1>3, <1>4

LEMMA CalmStep ==
    ASSUME StationInv, NEW x \in F!Programs, x # F!SM, at' \in [F!Programs -> Labels],
           at'[x] # "off", Others(x),
           \A p \in F!Platforms : x = F!P(p) => at'[x] \in PlatformPlaces,
           \A t \in F!Trains : x = F!T(t) => at'[x] \in {"new", "wait", "arrive"},
           revents' = revents, i' = i, k' = k, kills' = kills,
           \/ at[x] # "off" /\ starts' = starts
           \/ at[x] = "off" /\ starts' = [starts EXCEPT ![x] = @ + 1],
           made' \subseteq F!Fifos, OpenTyped, open \subseteq open',
           \A d \in open' : d[2] \in made', FifosTyped,
           \A f \in F!Fifos : fifo'[f] # <<>> => fifo[f] # <<>>,
           \A t \in F!Trains : /\ fifo'[F!ReadyFifo(t)] = fifo[F!ReadyFifo(t)]
                               /\ fifo'[F!TrainFifo(t)] \in Seq(F!Platforms)
                               /\ x # F!T(t) => plat'[t] = plat[t],
           plat' \in [F!Trains -> F!Platforms],
           ahead' \in [F!Platforms -> Int], arrivals' \in [F!Trains -> Nat]
    PROVE  StationTypes' /\ MasterInv' /\ ReadersInv'
  <1>1. StationTypes'
    <2>1. starts' \in [F!Programs -> Nat] /\ kills' \in Nat
      BY TypeFacts, StartsFacts DEF StationInv
    <2>2. \A t \in F!Trains : x = F!T(t) => at'[x] \in TrainPlaces
      BY DEF TrainPlaces
    <2>3. revents' \subseteq F!Trains /\ i' \in F!Trains /\ k' \in 1 .. NPlatforms + 1
      BY TypeFacts DEF StationInv
    <2> QED
      BY <2>1, <2>2, <2>3, StepTypes DEF StationInv
  <1>2. MasterInv'
    <2>1. at'[F!SM] = at[F!SM]
      BY ProgramNames DEF Others
    <2> QED
      BY <2>1, MasterKept DEF StationInv
  <1>3. ReadersInv'
    <2>1. ReadersKept
      BY DEF ReadersKept, F!HasReader
    <2>2. \A t \in F!Trains :
              x = F!T(t) => at'[x] # "say" /\ at'[x] \notin {"sequence", "sleep"}
      OBVIOUS
    <2> QED
      BY <2>1, <2>2, ReadersStep DEF StationInv
  <1> QED
    BY <1>1, <1>2, <1>3

\* A platform's step changes its own FIFOs and what it took in.
LEMMA PlatformCalm ==
    ASSUME StationInv, NEW p \in F!Platforms, at' \in [F!Programs -> Labels],
           at'[F!P(p)] \in {"poll", "second"}, Others(F!P(p)),
           revents' = revents, i' = i, k' = k, plat' = plat, arrivals' = arrivals,
           kills' = kills,
           \/ at[F!P(p)] # "off" /\ starts' = starts
           \/ at[F!P(p)] = "off" /\ starts' = [starts EXCEPT ![F!P(p)] = @ + 1],
           made' \subseteq F!Fifos, OpenTyped, open \subseteq open',
           \A d \in open' : d[2] \in made', FifosTyped,
           \A f \in F!Fifos : fifo'[f] # <<>> => fifo[f] # <<>>,
           \A t \in F!Trains : /\ fifo'[F!ReadyFifo(t)] = fifo[F!ReadyFifo(t)]
                               /\ fifo'[F!TrainFifo(t)] = fifo[F!TrainFifo(t)],
           ahead' \in [F!Platforms -> Int]
    PROVE  /\ StationTypes' /\ MasterInv' /\ ReadersInv' /\ AskedInv'
           /\ \A q \in F!Platforms : NComing(q)' <= NComing(q) /\ NPast(q)' = NPast(q)
  <1>1. F!P(p) \in F!Programs /\ F!P(p) # F!SM
        /\ (\A q \in F!Platforms : F!P(p) = F!P(q) => q = p)
        /\ \A t \in F!Trains : F!P(p) # F!T(t)
    BY ProgramNames
  <1>2. StationTypes' /\ MasterInv' /\ ReadersInv'
    <2>1. plat' \in [F!Trains -> F!Platforms] /\ arrivals' \in [F!Trains -> Nat]
          /\ \A t \in F!Trains : fifo'[F!TrainFifo(t)] \in Seq(F!Platforms)
      BY TypeFacts DEF StationInv
    <2> QED
      BY <1>1, <2>1, CalmStep DEF PlatformPlaces
  <1>3. (\A t \in F!Trains : at'[F!T(t)] = at[F!T(t)]) /\ at'[F!SM] = at[F!SM]
    BY <1>1, ProgramNames DEF Others
  <1>4. InHand' = InHand /\ \A t \in F!Trains : Asks(t)' = Asks(t) /\ Goes(t)' = Goes(t)
    BY <1>3, TermsKept
  <1>5. AskedInv'
    <2>1. \A t \in F!Trains : starts[F!T(t)] <= starts'[F!T(t)]
      BY <1>1, StartsFacts DEF StationInv
    <2> QED
      BY <1>2, <1>4, <2>1, AskedKept DEF StationInv, Kept
  <1>6. ASSUME NEW q \in F!Platforms PROVE NComing(q)' <= NComing(q) /\ NPast(q)' = NPast(q)
    <2>1. Coming(q)' \subseteq Coming(q)
      BY <1>4 DEF Coming, F!TrainFifo
    <2> QED
      BY <1>4, <2>1, ComingFewer, TermsKept
  <1> QED
    BY <1>2, <1>5, <1>6

LEMMA PlatformStartInv ==
    ASSUME StationInv, NEW p \in F!Platforms, F!PlatformStart(p) PROVE StationInv'
  <1> DEFINE fs == {F!BrodFifo(p), F!InfoFifo(p)}
  <1>1. /\ at[F!P(p)] = "off" /\ at' \in [F!Programs -> Labels] /\ at'[F!P(p)] = "poll"
        /\ Others(F!P(p)) /\ starts' = [starts EXCEPT ![F!P(p)] = @ + 1]
    BY ProgramNames, GotoFacts DEF StationInv, F!PlatformStart, F!Starts, Labels
  <1>2. /\ made' = made \cup fs /\ F!Opens(F!P(p), fs)
        /\ revents' = revents /\ k' = k /\ fifo' = fifo /\ i' = i /\ plat' = plat
        /\ ahead' = ahead /\ arrivals' = arrivals /\ kills' = kills
    BY DEF F!PlatformStart, F!Makes, F!PlatformFifos, F!master
  <1>3. fs \subseteq F!Fifos
    BY FifoNames
  <1> HIDE DEF fs
  <1>4. /\ FifosTyped /\ OpenTyped /\ open \subseteq open' /\ made' \subseteq F!Fifos
        /\ \A d \in open' : d[2] \in made'
    <2>1. FifosTyped
      BY <1>2, TypeFacts DEF StationInv, FifosTyped
    <2> QED
      BY <1>2, <1>3, <2>1, ProgramNames, OpensFacts DEF StationInv
  <1>5. /\ StationTypes' /\ MasterInv' /\ ReadersInv' /\ AskedInv'
        /\ \A q \in F!Platforms : NComing(q)' <= NComing(q) /\ NPast(q)' = NPast(q)
    BY <1>1, <1>2, <1>4, TypeFacts, PlatformCalm DEF StationInv
  <1>6. AheadInv'
    <2>1. ASSUME kills = 0, NEW q \in F!Platforms
          PROVE  Owed(q)' <= Owed(q) /\ ahead'[q] <= Bit(at[F!P(q)] # "second")'
      <3>1. OwedSum(q) /\ OwedSum(q)'
        BY <1>5, OwedIs, OwedIsNext DEF StationInv
      <3>2. NTaken(q)' = NTaken(q) /\ NAnnounced(q)' = NAnnounced(q)
        BY <1>2, TermsKept
      <3>3. Owed(q)' <= Owed(q)
        BY <1>2, <1>5, <3>1, <3>2 DEF OwedSum
      <3>4. \/ at'[F!P(q)] = at[F!P(q)]
            \/ at[F!P(q)] = "off" /\ at'[F!P(q)] = "poll"
        BY <1>1, ProgramNames DEF Others
      <3>5. ahead'[q] <= Bit(at[F!P(q)] # "second")'
        BY <1>2, <2>1, <3>4 DEF StationInv, AheadInv, Bit, F!P
      <3> QED
        BY <3>3, <3>5
    <2> QED
      BY <1>2, <1>5, <2>1, AheadStep DEF StationInv
  <1> QED
    BY <1>5, <1>6 DEF StationInv

LEMMA ReadBroadcastInv ==
    ASSUME StationInv, NEW p \in F!Platforms, F!ReadBroadcast(p) PROVE StationInv'
  <1>a. PICK f \in F!Fifos : f = F!BrodFifo(p)
    BY FifoNames
  <1>1. /\ at[F!P(p)] = "poll" /\ fifo[f] # <<>> /\ F!Read(f)
        /\ at' = at /\ made' = made /\ open' = open /\ revents' = revents /\ i' = i
        /\ k' = k /\ plat' = plat /\ arrivals' = arrivals /\ starts' = starts
        /\ kills' = kills /\ ahead' = [ahead EXCEPT ![p] = @ - 1]
    BY <1>a DEF F!ReadBroadcast, F!Announced, F!master
  <1>2. /\ FifosTyped /\ Len(fifo'[f]) = Len(fifo[f]) - 1
        /\ \A g \in F!Fifos : g # f => fifo'[g] = fifo[g]
    BY <1>1, ReadFacts DEF StationInv
  <1>3. /\ StationTypes' /\ MasterInv' /\ ReadersInv' /\ AskedInv'
        /\ \A q \in F!Platforms : NComing(q)' <= NComing(q) /\ NPast(q)' = NPast(q)
    <2>1. \A g \in F!Fifos : fifo'[g] # <<>> => fifo[g] # <<>>
      BY <1>1, <1>2
    <2>2. \A t \in F!Trains : /\ fifo'[F!ReadyFifo(t)] = fifo[F!ReadyFifo(t)]
                              /\ fifo'[F!TrainFifo(t)] = fifo[F!TrainFifo(t)]
      BY <1>a, <1>2, FifoNames
    <2>3. at' \in [F!Programs -> Labels] /\ Others(F!P(p)) /\ OpenTyped
          /\ ahead' \in [F!Platforms -> Int]
      BY <1>1 DEF StationInv, StationTypes, Others, OpenTyped
    <2> QED
      BY <1>1, <1>2, <2>1, <2>2, <2>3, TypeFacts, PlatformCalm DEF StationInv
  <1>4. AheadInv'
    <2>1. ASSUME kills = 0, NEW q \in F!Platforms
          PROVE  Owed(q)' <= Owed(q) /\ ahead'[q] <= Bit(at[F!P(q)] # "second")'
      <3>1. OwedSum(q) /\ OwedSum(q)' /\ NAnnounced(q)' = Len(fifo'[F!BrodFifo(q)])
        BY <1>3, OwedIs, OwedIsNext DEF StationInv
      <3>2. NTaken(q)' = NTaken(q)
        BY <1>a, <1>2, FifoNames, TermsKept
      <3>3. ahead'[q] - NAnnounced(q)' = ahead[q] - NAnnounced(q) /\ ahead'[q] <= ahead[q]
        <4>1. CASE q = p
          <5>1. ahead'[q] = ahead[q] - 1
            BY <1>1, <4>1, TypeFacts DEF StationInv
          <5>2. NAnnounced(q)' = NAnnounced(q) - 1
            BY <1>a, <1>2, <3>1, <4>1 DEF NAnnounced
          <5> QED
            BY <3>1, <5>1, <5>2 DEF OwedSum
        <4>2. CASE q # p
          <5>1. ahead'[q] = ahead[q]
            BY <1>1, <4>2, TypeFacts DEF StationInv
          <5>2. NAnnounced(q)' = NAnnounced(q)
            BY <1>a, <1>2, <4>2, FifoNames, TermsKept
          <5> QED
            BY <3>1, <5>1, <5>2 DEF OwedSum
        <4> QED
          BY <4>1, <4>2
      <3>4. Owed(q)' <= Owed(q)
        <4>1. NComing(q)' <= NComing(q) /\ NPast(q)' = NPast(q)
          BY <1>3
        <4>2. ahead'[q] - NAnnounced(q)' = ahead[q] - NAnnounced(q)
          BY <3>3
        <4>3. OwedSum(q) /\ OwedSum(q)'
          BY <3>1
        <4>4. ahead'[q] + NTaken(q)' - NAnnounced(q)' = ahead[q] + NTaken(q) - NAnnounced(q)
          BY <3>2, <4>2, <4>3 DEF OwedSum
        <4> QED
          BY <4>1, <4>3, <4>4 DEF OwedSum
      <3>5. ahead'[q] <= Bit(at[F!P(q)] # "second")'
        <4>1. Bit(at[F!P(q)] # "second")' = Bit(at[F!P(q)] # "second")
          BY <1>1 DEF Bit, F!P
        <4>2. ahead[q] <= Bit(at[F!P(q)] # "second") /\ Bit(at[F!P(q)] # "second") \in Int
          BY <2>1 DEF StationInv, AheadInv, Bit
        <4> QED
          <5>1. ahead'[q] \in Int /\ ahead[q] \in Int /\ ahead'[q] <= ahead[q]
            BY <3>1, <3>3 DEF OwedSum
          <5> QED
            BY <4>1, <4>2, <5>1
      <3> QED
        BY <3>4, <3>5
    <2> QED
      BY <1>1, <1>3, <2>1, AheadStep DEF StationInv
  <1> QED
    BY <1>3, <1>4 DEF StationInv

\* A platform that found nothing in one of its FIFOs.
LEMMA LooksInv ==
    ASSUME StationInv, NEW p \in F!Platforms,
           \/ at[F!P(p)] = "poll" /\ fifo[F!BrodFifo(p)] = <<>> /\ F!Goto(F!P(p), "second")
           \/ at[F!P(p)] = "second" /\ F!Goto(F!P(p), "poll"),
           made' = made, fifo' = fifo, open' = open, revents' = revents, i' = i, k' = k,
           plat' = plat, ahead' = ahead, arrivals' = arrivals, starts' = starts, kills' = kills
    PROVE  StationInv'
  <1>1. /\ at' \in [F!Programs -> Labels] /\ Others(F!P(p)) /\ at[F!P(p)] # "off"
        /\ at'[F!P(p)] \in {"poll", "second"}
        /\ at'[F!P(p)] = "second" => fifo[F!BrodFifo(p)] = <<>>
    BY ProgramNames, GotoFacts DEF StationInv, Labels
  <1>2. FifosTyped /\ OpenTyped /\ ahead' \in [F!Platforms -> Int]
        /\ made' \subseteq F!Fifos /\ \A d \in open' : d[2] \in made'
    BY TypeFacts DEF StationInv, FifosTyped, OpenTyped
  <1>3. /\ StationTypes' /\ MasterInv' /\ ReadersInv' /\ AskedInv'
        /\ \A q \in F!Platforms : NComing(q)' <= NComing(q) /\ NPast(q)' = NPast(q)
    BY <1>1, <1>2, PlatformCalm
  <1>4. AheadInv'
    <2>1. ASSUME kills = 0, NEW q \in F!Platforms
          PROVE  Owed(q)' <= Owed(q) /\ ahead'[q] <= Bit(at[F!P(q)] # "second")'
      <3>1. OwedSum(q) /\ OwedSum(q)'
        BY <1>3, OwedIs, OwedIsNext DEF StationInv
      <3>2. NTaken(q)' = NTaken(q) /\ NAnnounced(q)' = NAnnounced(q)
        BY TermsKept
      <3>3. Owed(q)' <= Owed(q)
        <4>1. NComing(q)' <= NComing(q) /\ NPast(q)' = NPast(q)
          BY <1>3
        <4> QED
          BY <3>1, <3>2, <4>1 DEF OwedSum
      <3>4. ahead[q] <= Bit(at[F!P(q)] # "second") /\ Owed(q) <= 0
        BY <2>1 DEF StationInv, AheadInv
      <3>5. CASE at'[F!P(q)] = "second" /\ q = p
        <4>1. NAnnounced(q) = 0
          BY <1>1, <3>5 DEF NAnnounced
        <4>2. ahead[q] <= 0
          <5>1. OwedSum(q) /\ Owed(q) <= 0
            BY <3>1, <3>4
          <5> QED
            BY <4>1, <5>1 DEF OwedSum
        <4>3. Bit(at[F!P(q)] # "second")' = 0
          BY <3>5 DEF Bit, F!P
        <4> QED
          BY <3>3, <4>2, <4>3
      <3>6. CASE at'[F!P(q)] = "second" /\ q # p
        <4>1. at[F!P(q)] = "second"
          BY <1>1, <3>6, ProgramNames DEF Others
        <4>2. Bit(at[F!P(q)] # "second")' = Bit(at[F!P(q)] # "second")
          BY <3>6, <4>1 DEF Bit, F!P
        <4> QED
          BY <3>3, <3>4, <4>2
      <3>7. CASE at'[F!P(q)] # "second"
        <4>1. Bit(at[F!P(q)] # "second")' = 1
          BY <3>7 DEF Bit, F!P
        <4>2. ahead[q] <= 1
          BY <3>1, <3>4 DEF Bit, OwedSum
        <4> QED
          BY <3>3, <4>1, <4>2
      <3> QED
        BY <3>5, <3>6, <3>7
    <2> QED
      BY <1>3, <2>1, AheadStep DEF StationInv
  <1> QED
    BY <1>3, <1>4 DEF StationInv

LEMMA NoBroadcastInv ==
    ASSUME StationInv, NEW p \in F!Platforms, F!NoBroadcast(p) PROVE StationInv'
  BY LooksInv DEF F!NoBroadcast, F!Announced, F!master, F!records

LEMMA NoInfoInv ==
    ASSUME StationInv, NEW p \in F!Platforms, F!NoInfo(p) PROVE StationInv'
  BY LooksInv DEF F!NoInfo, F!master, F!records

LEMMA ReadInfoInv ==
    ASSUME StationInv, NEW p \in F!Platforms, F!ReadInfo(p) PROVE StationInv'
  <1>a. PICK f \in F!Fifos : f = F!InfoFifo(p)
    BY FifoNames
  <1>b. PICK n \in {0, 1} : n = Bit(Head(fifo[f]) = "sequence")
    BY DEF Bit
  <1>1. /\ at[F!P(p)] = "second" /\ fifo[f] # <<>> /\ F!Read(f) /\ F!Goto(F!P(p), "poll")
        /\ made' = made /\ open' = open /\ revents' = revents /\ i' = i
        /\ k' = k /\ plat' = plat /\ arrivals' = arrivals /\ starts' = starts
        /\ kills' = kills
        /\ ahead' = IF Head(fifo[f]) = "sequence" THEN [ahead EXCEPT ![p] = @ + 1] ELSE ahead
    BY <1>a DEF F!ReadInfo, F!master
  <1>2. /\ FifosTyped /\ fifo'[f] = Tail(fifo[f])
        /\ \A g \in F!Fifos : g # f => fifo'[g] = fifo[g]
    BY <1>1, ReadFacts DEF StationInv
  <1>3. at' \in [F!Programs -> Labels] /\ at'[F!P(p)] = "poll" /\ Others(F!P(p))
    BY <1>1, ProgramNames, GotoFacts DEF StationInv, Labels
  <1>4. /\ ahead' \in [F!Platforms -> Int] /\ ahead'[p] = ahead[p] + n
        /\ \A q \in F!Platforms : q # p => ahead'[q] = ahead[q]
    <2>1. ahead \in [F!Platforms -> Int]
      BY TypeFacts DEF StationInv
    <2>2. CASE Head(fifo[f]) = "sequence"
      BY <1>b, <1>1, <2>1, <2>2 DEF Bit
    <2>3. CASE Head(fifo[f]) # "sequence"
      BY <1>b, <1>1, <2>1, <2>3 DEF Bit
    <2> QED
      BY <2>2, <2>3
  <1>5. /\ StationTypes' /\ MasterInv' /\ ReadersInv' /\ AskedInv'
        /\ \A q \in F!Platforms : NComing(q)' <= NComing(q) /\ NPast(q)' = NPast(q)
    <2>1. \A g \in F!Fifos : fifo'[g] # <<>> => fifo[g] # <<>>
      BY <1>1, <1>2
    <2>2. \A t \in F!Trains : /\ fifo'[F!ReadyFifo(t)] = fifo[F!ReadyFifo(t)]
                              /\ fifo'[F!TrainFifo(t)] = fifo[F!TrainFifo(t)]
      BY <1>a, <1>2, FifoNames
    <2>3. OpenTyped /\ made' \subseteq F!Fifos /\ \A d \in open' : d[2] \in made'
      BY <1>1, TypeFacts DEF StationInv, OpenTyped
    <2> QED
      BY <1>1, <1>2, <1>3, <1>4, <2>1, <2>2, <2>3, PlatformCalm
  <1>6. AheadInv'
    <2>1. ASSUME kills = 0, NEW q \in F!Platforms
          PROVE  Owed(q)' <= Owed(q) /\ ahead'[q] <= Bit(at[F!P(q)] # "second")'
      <3>1. /\ OwedSum(q) /\ OwedSum(q)'
            /\ NTaken(q)' = Count(fifo'[F!InfoFifo(q)], "sequence")
        BY <1>5, OwedIs, OwedIsNext DEF StationInv
      <3>2. NAnnounced(q)' = NAnnounced(q)
        BY <1>a, <1>2, FifoNames, TermsKept
      <3>3. ahead[q] <= Bit(at[F!P(q)] # "second")
        BY <2>1 DEF StationInv, AheadInv
      <3>4. OwedSum(q) /\ OwedSum(q)' /\ NComing(q)' <= NComing(q) /\ NPast(q)' = NPast(q)
        BY <1>5, <3>1
      <3>5. CASE q = p
        <4>1. NTaken(q) = NTaken(q)' + n
          <5>1. fifo[f] \in Seq(Words)
            BY NotFull DEF StationInv
          <5>2. Count(fifo[f], "sequence") = Count(fifo'[f], "sequence") + n
            BY <1>b, <1>1, <1>2, <5>1, CountTail
          <5>3. NTaken(q) = Count(fifo[f], "sequence")
            BY <1>a, <3>5 DEF NTaken
          <5> QED
            BY <1>a, <3>1, <3>5, <5>2, <5>3
        <4>2. ahead'[q] = ahead[q] + n
          BY <1>4, <3>5
        <4>3. Owed(q)' <= Owed(q)
          BY <3>2, <3>4, <4>1, <4>2 DEF OwedSum
        <4>4. Bit(at[F!P(q)] # "second") = 0 /\ Bit(at[F!P(q)] # "second")' = 1
          BY <1>1, <1>3, <3>5 DEF Bit, F!P
        <4> QED
          BY <3>3, <3>4, <4>2, <4>3, <4>4 DEF OwedSum
      <3>6. CASE q # p
        <4>1. NTaken(q)' = NTaken(q)
          BY <1>a, <1>2, <3>6, FifoNames, TermsKept
        <4>2. ahead'[q] = ahead[q]
          BY <1>4, <3>6
        <4>3. Owed(q)' <= Owed(q)
          BY <3>2, <3>4, <4>1, <4>2 DEF OwedSum
        <4>4. at'[F!P(q)] = at[F!P(q)]
          BY <1>3, <3>6, ProgramNames DEF Others
        <4>5. Bit(at[F!P(q)] # "second")' = Bit(at[F!P(q)] # "second")
          BY <4>4 DEF Bit, F!P
        <4> QED
          BY <3>3, <4>2, <4>3, <4>5
      <3> QED
        BY <3>5, <3>6
    <2> QED
      BY <1>1, <1>5, <2>1, AheadStep DEF StationInv
  <1> QED
    BY <1>5, <1>6 DEF StationInv

(***************************************************************************)
(* The steps of the trains                                                 *)
(***************************************************************************)
LEMMA TrainAsked ==
    ASSUME StationTypes, AskedInv, StationTypes', NEW t \in F!Trains, Others(F!T(t)), i' = i,
           \A u \in F!Trains : u # t =>
               /\ Kept(F!ReadyFifo(u)) /\ Kept(F!TrainFifo(u))
               /\ arrivals'[u] = arrivals[u] /\ starts'[F!T(u)] = starts[F!T(u)],
           arrivals'[t] + NAsks(t)' + NSaid(t)' + NTold(t)' + NGoes(t)' - starts'[F!T(t)]
               <= arrivals[t] + NAsks(t) + NSaid(t) + NTold(t) + NGoes(t) - starts[F!T(t)]
    PROVE  AskedInv'
  <1>1. at'[F!SM] = at[F!SM] /\ \A u \in F!Trains : u # t => at'[F!T(u)] = at[F!T(u)]
    BY ProgramNames DEF Others
  <1>2. ASSUME NEW u \in F!Trains
        PROVE  arrivals'[u] + Asked(u)' - starts'[F!T(u)]
                   <= arrivals[u] + Asked(u) - starts[F!T(u)]
    <2>1. NServes(u)' = NServes(u)
      BY <1>1, TermsKept
    <2>2. /\ AskedSum(u) /\ AskedSum(u)' /\ NSaid(u)' = Len(fifo'[F!ReadyFifo(u)])
          /\ NTold(u)' = Len(fifo'[F!TrainFifo(u)])
      BY AskedIs, AskedIsNext
    <2>3. /\ starts[F!T(u)] \in Nat /\ arrivals[u] \in Nat
          /\ starts'[F!T(u)] \in Nat /\ arrivals'[u] \in Nat
      BY ProgramNames, StartsNat DEF StationTypes
    <2>4. AskedSum(u) /\ AskedSum(u)'
      BY <2>2
    <2>5. CASE u = t
      <3>1. arrivals'[u] + NAsks(u)' + NSaid(u)' + NTold(u)' + NGoes(u)' - starts'[F!T(u)]
               <= arrivals[u] + NAsks(u) + NSaid(u) + NTold(u) + NGoes(u) - starts[F!T(u)]
        BY <2>5
      <3> QED
        BY <2>1, <2>3, <2>4, <3>1 DEF AskedSum
    <2>6. CASE u # t
      <3>1. NAsks(u)' = NAsks(u) /\ NGoes(u)' = NGoes(u)
        BY <1>1, <2>6, TermsKept
      <3>2. NSaid(u)' <= NSaid(u)
        <4>1. Kept(F!ReadyFifo(u)) /\ NSaid(u) \in Nat /\ NSaid(u)' \in Nat
          BY <2>4, <2>6 DEF AskedSum
        <4> QED
          BY <2>2, <4>1 DEF Kept, NSaid
      <3>3. NTold(u)' <= NTold(u)
        <4>1. Kept(F!TrainFifo(u)) /\ NTold(u) \in Nat /\ NTold(u)' \in Nat
          BY <2>4, <2>6 DEF AskedSum
        <4> QED
          BY <2>2, <4>1 DEF Kept, NTold
      <3>4. arrivals'[u] = arrivals[u] /\ starts'[F!T(u)] = starts[F!T(u)]
        BY <2>6
      <3> QED
        BY <2>1, <2>3, <2>4, <3>1, <3>2, <3>3, <3>4 DEF AskedSum
    <2> QED
      BY <2>5, <2>6
  <1> QED
    BY <1>2, AskedStep

LEMMA TrainAhead ==
    ASSUME StationTypes, AheadInv, StationTypes', NEW t \in F!Trains, Others(F!T(t)),
           kills' = kills, ahead' = ahead, k' = k,
           kills = 0 => \A p \in F!Platforms :
               /\ NTaken(p)' + NComing(p)' <= NTaken(p) + NComing(p)
               /\ fifo'[F!BrodFifo(p)] = fifo[F!BrodFifo(p)]
    PROVE  AheadInv'
  <1>1. at'[F!SM] = at[F!SM] /\ \A p \in F!Platforms : at'[F!P(p)] = at[F!P(p)]
    BY ProgramNames DEF Others
  <1>2. ASSUME kills = 0, NEW p \in F!Platforms
        PROVE  Owed(p)' <= Owed(p) /\ ahead'[p] <= Bit(at[F!P(p)] # "second")'
    <2>1. NPast(p)' = NPast(p) /\ NAnnounced(p)' = NAnnounced(p)
      BY <1>1, <1>2, TermsKept
    <2>2. OwedSum(p) /\ OwedSum(p)' /\ ahead'[p] = ahead[p]
      BY OwedIs, OwedIsNext
    <2>3. NTaken(p)' + NComing(p)' <= NTaken(p) + NComing(p)
      BY <1>2
    <2>4. Owed(p)' <= Owed(p)
      BY <2>1, <2>2, <2>3 DEF OwedSum
    <2>5. Bit(at[F!P(p)] # "second")' = Bit(at[F!P(p)] # "second")
      BY <1>1 DEF Bit, F!P
    <2>6. ahead[p] <= Bit(at[F!P(p)] # "second")
      BY <1>2 DEF AheadInv
    <2> QED
      BY <2>2, <2>4, <2>5, <2>6
  <1> QED
    BY <1>2, AheadStep

\* Until somebody is stopped a train is started once: on its way to a platform it has
\* been told nothing else, and what it was told is one platform.
LEMMA ToldOnce ==
    ASSUME StationInv, kills = 0, NEW t \in F!Trains
    PROVE  /\ Goes(t) => fifo[F!TrainFifo(t)] = <<>>
           /\ fifo[F!TrainFifo(t)] # <<>> => Tail(fifo[F!TrainFifo(t)]) = <<>>
  <1>1. AskedSum(t)
    BY AskedIs DEF StationInv
  <1>2. starts[F!T(t)] \in 0 .. 1 /\ arrivals[t] \in Nat
    BY ProgramNames, StartsNat DEF StationInv, ReadersInv, Bit
  <1>3. arrivals[t] + Asked(t) <= starts[F!T(t)]
    BY DEF StationInv, AskedInv
  <1>4. NTold(t) + NGoes(t) <= 1
    BY <1>1, <1>2, <1>3 DEF AskedSum
  <1>5. fifo[F!TrainFifo(t)] \in Seq(Words) /\ NTold(t) = Len(fifo[F!TrainFifo(t)])
    BY FifoNames, NotFull DEF StationInv, NTold
  <1>6. Goes(t) => NGoes(t) = 1
    BY DEF NGoes, Bit
  <1>7. Goes(t) => NTold(t) = 0
    BY <1>1, <1>4, <1>6 DEF AskedSum
  <1>8. NTold(t) \in {0, 1}
    <2>1. NTold(t) \in Nat /\ NGoes(t) \in Nat
      BY <1>1 DEF AskedSum
    <2> QED
      BY <1>4, <2>1
  <1> QED
    BY <1>5, <1>7, <1>8

LEMMA TrainStartInv ==
    ASSUME StationInv, NEW t \in F!Trains, F!TrainStart(t) PROVE StationInv'
  <1> DEFINE fs == {F!TrainFifo(t)}
  <1>1. /\ at[F!T(t)] = "off" /\ at' \in [F!Programs -> Labels] /\ at'[F!T(t)] = "new"
        /\ Others(F!T(t)) /\ starts' = [starts EXCEPT ![F!T(t)] = @ + 1]
    BY ProgramNames, GotoFacts DEF StationInv, F!TrainStart, F!Starts, Labels
  <1>2. /\ made' = made \cup fs /\ F!Opens(F!T(t), fs)
        /\ revents' = revents /\ k' = k /\ fifo' = fifo /\ i' = i /\ plat' = plat
        /\ ahead' = ahead /\ arrivals' = arrivals /\ kills' = kills
    BY DEF F!TrainStart, F!Makes, F!master
  <1>3. fs \subseteq F!Fifos
    BY FifoNames
  <1> HIDE DEF fs
  <1>4. /\ FifosTyped /\ OpenTyped /\ open \subseteq open' /\ made' \subseteq F!Fifos
        /\ \A d \in open' : d[2] \in made'
    <2>1. FifosTyped
      BY <1>2, TypeFacts DEF StationInv, FifosTyped
    <2> QED
      BY <1>2, <1>3, <2>1, ProgramNames, OpensFacts DEF StationInv
  <1>5. StationTypes' /\ MasterInv' /\ ReadersInv'
    <2>1. F!T(t) \in F!Programs /\ F!T(t) # F!SM /\ \A p \in F!Platforms : F!T(t) # F!P(p)
      BY ProgramNames
    <2> QED
      BY <1>1, <1>2, <1>4, <2>1, TypeFacts, CalmStep DEF StationInv
  <1>6. AskedInv'
    <2>1. NSaid(t)' = NSaid(t) /\ NTold(t)' = NTold(t)
      BY <1>2, TermsKept
    <2>2. /\ NAsks(t) = 0 /\ NGoes(t) = 0 /\ NGoes(t)' = 0 /\ NAsks(t)' = 1
      BY <1>1 DEF NAsks, NGoes, Asks, Goes, Bit, F!T
    <2>3. AskedSum(t) /\ starts[F!T(t)] \in Nat /\ arrivals[t] \in Nat
      BY AskedIs, StartsNat DEF StationInv
    <2>4. starts'[F!T(t)] = starts[F!T(t)] + 1
          /\ \A u \in F!Trains : u # t => starts'[F!T(u)] = starts[F!T(u)]
      BY <1>1, ProgramNames, TypeFacts DEF StationInv
    <2>5. arrivals'[t] + NAsks(t)' + NSaid(t)' + NTold(t)' + NGoes(t)' - starts'[F!T(t)]
           <= arrivals[t] + NAsks(t) + NSaid(t) + NTold(t) + NGoes(t) - starts[F!T(t)]
      BY <1>2, <2>1, <2>2, <2>3, <2>4 DEF AskedSum
    <2> QED
      BY <1>1, <1>2, <1>5, <2>4, <2>5, TrainAsked DEF StationInv, Kept
  <1>7. AheadInv'
    <2>1. ASSUME NEW p \in F!Platforms
          PROVE  /\ NTaken(p)' + NComing(p)' <= NTaken(p) + NComing(p)
                 /\ fifo'[F!BrodFifo(p)] = fifo[F!BrodFifo(p)]
      <3>1. \A u \in F!Trains : Goes(u)' => Goes(u)
        BY <1>1, ProgramNames DEF Others, Goes, F!T
      <3>2. Coming(p)' \subseteq Coming(p)
        BY <1>2, <3>1 DEF Coming, F!TrainFifo
      <3>3. NComing(p)' <= NComing(p) /\ NTaken(p)' = NTaken(p)
        BY <1>2, <3>2, ComingFewer, TermsKept
      <3>4. OwedSum(p) /\ OwedSum(p)'
        BY <1>5, OwedIs, OwedIsNext DEF StationInv
      <3> QED
        BY <1>2, <3>3, <3>4 DEF OwedSum
    <2> QED
      BY <1>1, <1>2, <1>5, <2>1, TrainAhead DEF StationInv
  <1> QED
    BY <1>5, <1>6, <1>7 DEF StationInv

LEMMA ReadyFailsInv ==
    ASSUME StationInv, NEW t \in F!Trains, F!ReadyFails(t) PROVE StationInv'
  <1>1. /\ at[F!T(t)] = "new" /\ at' \in [F!Programs -> Labels] /\ at'[F!T(t)] = "wait"
        /\ Others(F!T(t))
    BY ProgramNames, GotoFacts DEF StationInv, F!ReadyFails, Labels
  <1>2. /\ made' = made /\ fifo' = fifo /\ open' = open /\ revents' = revents /\ k' = k
        /\ i' = i /\ plat' = plat /\ ahead' = ahead /\ arrivals' = arrivals
        /\ starts' = starts /\ kills' = kills
    BY DEF F!ReadyFails, F!master, F!records
  <1>3. FifosTyped /\ OpenTyped /\ made' \subseteq F!Fifos /\ \A d \in open' : d[2] \in made'
    BY <1>2, TypeFacts DEF StationInv, FifosTyped, OpenTyped
  <1>4. StationTypes' /\ MasterInv' /\ ReadersInv'
    <2>1. F!T(t) \in F!Programs /\ F!T(t) # F!SM /\ \A p \in F!Platforms : F!T(t) # F!P(p)
      BY ProgramNames
    <2> QED
      BY <1>1, <1>2, <1>3, <2>1, TypeFacts, CalmStep DEF StationInv
  <1>5. \A u \in F!Trains : (Goes(u)' => Goes(u)) /\ (Asks(u)' => Asks(u))
    <2>1. \A u \in F!Trains : at'[F!T(u)] = at[F!T(u)] \/ at'[F!T(u)] = "wait"
      BY <1>1, ProgramNames DEF Others
    <2> QED
      BY <2>1 DEF Goes, Asks, F!T
  <1>6. at'[F!SM] = at[F!SM] /\ \A p \in F!Platforms : at'[F!P(p)] = at[F!P(p)]
    BY <1>1, ProgramNames DEF Others
  <1>7. InHand' = InHand
    BY <1>6, TermsKept
  <1>8. AskedInv'
    <2>1. \A u \in F!Trains : starts[F!T(u)] <= starts'[F!T(u)]
      BY <1>2, StartsNat DEF StationInv
    <2> QED
      BY <1>2, <1>4, <1>5, <1>7, <2>1, AskedKept DEF StationInv, Kept
  <1>9. AheadInv'
    <2>1. \A p \in F!Platforms : NTaken(p)' <= NTaken(p)
      <3> SUFFICES ASSUME NEW p \in F!Platforms PROVE NTaken(p)' <= NTaken(p)
        OBVIOUS
      <3>1. NTaken(p)' = NTaken(p) /\ OwedSum(p)
        BY <1>2, TermsKept, OwedIs DEF StationInv
      <3> QED
        BY <3>1 DEF OwedSum
    <2> QED
      BY <1>2, <1>4, <1>5, <1>6, <1>7, <2>1, AheadKept DEF StationInv
  <1> QED
    BY <1>4, <1>8, <1>9 DEF StationInv

LEMMA ReadPlatformInv ==
    ASSUME StationInv, NEW t \in F!Trains, F!ReadPlatform(t) PROVE StationInv'
  <1>a. PICK f \in F!Fifos : f = F!TrainFifo(t)
    BY FifoNames
  <1>1. /\ at[F!T(t)] = "wait" /\ at' \in [F!Programs -> Labels] /\ at'[F!T(t)] = "arrive"
        /\ Others(F!T(t))
    BY ProgramNames, GotoFacts DEF StationInv, F!ReadPlatform, Labels
  <1>2. /\ fifo[f] # <<>> /\ F!Read(f) /\ plat' = [plat EXCEPT ![t] = Head(fifo[f])]
        /\ made' = made /\ open' = open /\ revents' = revents /\ k' = k
        /\ i' = i /\ ahead' = ahead /\ arrivals' = arrivals
        /\ starts' = starts /\ kills' = kills
    BY <1>a DEF F!ReadPlatform, F!master, F!records
  <1>3. /\ FifosTyped /\ fifo'[f] = Tail(fifo[f]) /\ Len(fifo'[f]) = Len(fifo[f]) - 1
        /\ \A g \in F!Fifos : g # f => fifo'[g] = fifo[g]
    BY <1>2, ReadFacts DEF StationInv
  <1>4. /\ Head(fifo[f]) \in F!Platforms /\ Tail(fifo[f]) \in Seq(F!Platforms)
        /\ plat' \in [F!Trains -> F!Platforms] /\ plat'[t] = Head(fifo[f])
        /\ \A u \in F!Trains : u # t => plat'[u] = plat[u]
    <2>1. fifo[f] \in Seq(F!Platforms) /\ plat \in [F!Trains -> F!Platforms]
      BY <1>a, TypeFacts DEF StationInv
    <2>2. Head(fifo[f]) \in F!Platforms /\ Tail(fifo[f]) \in Seq(F!Platforms)
      BY <1>2, <2>1
    <2> QED
      BY <1>2, <2>1, <2>2
  <1>5. StationTypes' /\ MasterInv' /\ ReadersInv'
    <2>1. F!T(t) \in F!Programs /\ F!T(t) # F!SM /\ \A p \in F!Platforms : F!T(t) # F!P(p)
      BY ProgramNames
    <2>2. OpenTyped /\ made' \subseteq F!Fifos /\ \A d \in open' : d[2] \in made'
      BY <1>2, TypeFacts DEF StationInv, OpenTyped
    <2>3. \A g \in F!Fifos : fifo'[g] # <<>> => fifo[g] # <<>>
      BY <1>2, <1>3
    <2>4. \A u \in F!Trains : /\ fifo'[F!ReadyFifo(u)] = fifo[F!ReadyFifo(u)]
                              /\ fifo'[F!TrainFifo(u)] \in Seq(F!Platforms)
                              /\ F!T(t) # F!T(u) => plat'[u] = plat[u]
      <3> SUFFICES ASSUME NEW u \in F!Trains
                   PROVE  /\ fifo'[F!ReadyFifo(u)] = fifo[F!ReadyFifo(u)]
                          /\ fifo'[F!TrainFifo(u)] \in Seq(F!Platforms)
                          /\ F!T(t) # F!T(u) => plat'[u] = plat[u]
        OBVIOUS
      <3>1. fifo'[F!ReadyFifo(u)] = fifo[F!ReadyFifo(u)]
        BY <1>a, <1>3, FifoNames
      <3>2. CASE u = t
        BY <1>a, <1>3, <1>4, <3>1, <3>2
      <3>3. CASE u # t
        BY <1>a, <1>3, <1>4, <3>1, <3>3, FifoNames, TypeFacts DEF StationInv
      <3> QED
        BY <3>2, <3>3
    <2>5. \A u \in F!Trains : F!T(t) = F!T(u) => at'[F!T(t)] \in {"new", "wait", "arrive"}
      BY <1>1
    <2> QED
      BY <1>1, <1>2, <1>3, <1>4, <2>1, <2>2, <2>3, <2>4, <2>5, TypeFacts, CalmStep
      DEF StationInv
  <1>6. AskedInv'
    <2>1. NSaid(t)' = NSaid(t)
      BY <1>a, <1>3, FifoNames, TermsKept
    <2>2. NAsks(t) = 0 /\ NAsks(t)' = 0 /\ NGoes(t) = 0 /\ NGoes(t)' = 1
      BY <1>1 DEF NAsks, NGoes, Asks, Goes, Bit, F!T
    <2>3. AskedSum(t) /\ starts[F!T(t)] \in Nat /\ arrivals[t] \in Nat
      BY AskedIs, StartsNat DEF StationInv
    <2>4. NTold(t)' = NTold(t) - 1
      <3>1. NTold(t)' = Len(fifo'[F!TrainFifo(t)])
        BY <1>5, AskedIsNext
      <3> QED
        BY <1>a, <1>3, <3>1 DEF NTold
    <2>5. arrivals'[t] + NAsks(t)' + NSaid(t)' + NTold(t)' + NGoes(t)' - starts'[F!T(t)]
           <= arrivals[t] + NAsks(t) + NSaid(t) + NTold(t) + NGoes(t) - starts[F!T(t)]
      BY <1>2, <2>1, <2>2, <2>3, <2>4 DEF AskedSum
    <2>6. \A u \in F!Trains : u # t => Kept(F!ReadyFifo(u)) /\ Kept(F!TrainFifo(u))
      BY <1>a, <1>3, FifoNames DEF Kept
    <2> QED
      BY <1>1, <1>2, <1>5, <2>5, <2>6, TrainAsked DEF StationInv
  <1>7. AheadInv'
    <2>1. ASSUME kills = 0, NEW p \in F!Platforms
          PROVE  /\ NTaken(p)' + NComing(p)' <= NTaken(p) + NComing(p)
                 /\ fifo'[F!BrodFifo(p)] = fifo[F!BrodFifo(p)]
      <3>1. fifo'[f] = <<>>
        BY <1>a, <1>2, <1>3, <2>1, ToldOnce
      <3>2. Coming(p)' \subseteq Coming(p)
        <4> SUFFICES ASSUME NEW u \in Coming(p)' PROVE u \in Coming(p)
          OBVIOUS
        <4>1. u \in F!Trains
          BY DEF Coming
        <4>2. \/ fifo'[F!TrainFifo(u)] # <<>> /\ Head(fifo'[F!TrainFifo(u)]) = p
              \/ Goes(u)' /\ plat'[u] = p
          BY DEF Coming, F!TrainFifo
        <4>3. CASE u = t
          <5>1. plat'[t] = p
            BY <1>a, <3>1, <4>2, <4>3
          <5> QED
            BY <1>a, <1>2, <1>4, <4>3, <5>1 DEF Coming
        <4>4. CASE u # t
          <5>1. fifo'[F!TrainFifo(u)] = fifo[F!TrainFifo(u)] /\ plat'[u] = plat[u]
            BY <1>a, <1>3, <1>4, <4>1, <4>4, FifoNames
          <5>2. Goes(u)' = Goes(u)
            BY <1>1, <4>1, <4>4, ProgramNames, TermsKept DEF Others
          <5> QED
            BY <4>1, <4>2, <5>1, <5>2 DEF Coming
        <4> QED
          BY <4>3, <4>4
      <3>3. fifo'[F!BrodFifo(p)] = fifo[F!BrodFifo(p)]
        BY <1>a, <1>3, FifoNames
      <3>4. NComing(p)' <= NComing(p) /\ NTaken(p)' = NTaken(p)
        BY <1>a, <1>3, <3>2, FifoNames, ComingFewer, TermsKept
      <3>5. OwedSum(p) /\ OwedSum(p)'
        BY <1>5, OwedIs, OwedIsNext DEF StationInv
      <3> QED
        BY <3>3, <3>4, <3>5 DEF OwedSum
    <2> QED
      BY <1>1, <1>2, <1>5, <2>1, TrainAhead DEF StationInv
  <1> QED
    BY <1>5, <1>6, <1>7 DEF StationInv

LEMMA InfoFailsInv ==
    ASSUME StationInv, NEW t \in F!Trains, F!InfoFails(t) PROVE StationInv'
  <1>1. /\ at[F!T(t)] = "arrive" /\ at' \in [F!Programs -> Labels] /\ at'[F!T(t)] = "wait"
        /\ Others(F!T(t))
    BY ProgramNames, GotoFacts DEF StationInv, F!InfoFails, Labels
  <1>2. /\ made' = made /\ fifo' = fifo /\ open' = open /\ revents' = revents /\ k' = k
        /\ i' = i /\ plat' = plat /\ ahead' = ahead /\ starts' = starts /\ kills' = kills
        /\ arrivals' = [arrivals EXCEPT ![t] = @ + 1]
    BY DEF F!InfoFails, F!Arrived, F!master
  <1>3. /\ FifosTyped /\ OpenTyped /\ made' \subseteq F!Fifos /\ \A d \in open' : d[2] \in made'
        /\ arrivals' \in [F!Trains -> Nat] /\ arrivals'[t] = arrivals[t] + 1
        /\ \A u \in F!Trains : u # t => arrivals'[u] = arrivals[u]
    <2>1. arrivals \in [F!Trains -> Nat]
      BY TypeFacts DEF StationInv
    <2>2. /\ arrivals' \in [F!Trains -> Nat] /\ arrivals'[t] = arrivals[t] + 1
          /\ \A u \in F!Trains : u # t => arrivals'[u] = arrivals[u]
      BY <1>2, <2>1
    <2>3. FifosTyped /\ OpenTyped /\ made' \subseteq F!Fifos /\ \A d \in open' : d[2] \in made'
      BY <1>2, TypeFacts DEF StationInv, FifosTyped, OpenTyped
    <2> QED
      BY <2>2, <2>3
  <1>4. StationTypes' /\ MasterInv' /\ ReadersInv'
    <2>1. F!T(t) \in F!Programs /\ F!T(t) # F!SM /\ \A p \in F!Platforms : F!T(t) # F!P(p)
      BY ProgramNames
    <2> QED
      BY <1>1, <1>2, <1>3, <2>1, TypeFacts, CalmStep DEF StationInv
  <1>5. AskedInv'
    <2>1. NSaid(t)' = NSaid(t) /\ NTold(t)' = NTold(t)
      BY <1>2, TermsKept
    <2>2. NAsks(t) = 0 /\ NAsks(t)' = 0 /\ NGoes(t) = 1 /\ NGoes(t)' = 0
      BY <1>1 DEF NAsks, NGoes, Asks, Goes, Bit, F!T
    <2>3. AskedSum(t) /\ starts[F!T(t)] \in Nat /\ arrivals[t] \in Nat
      BY AskedIs, StartsNat DEF StationInv
    <2>4. arrivals'[t] + NAsks(t)' + NSaid(t)' + NTold(t)' + NGoes(t)' - starts'[F!T(t)]
           <= arrivals[t] + NAsks(t) + NSaid(t) + NTold(t) + NGoes(t) - starts[F!T(t)]
      BY <1>2, <1>3, <2>1, <2>2, <2>3 DEF AskedSum
    <2> QED
      BY <1>1, <1>2, <1>3, <1>4, <2>4, TrainAsked DEF StationInv, Kept
  <1>6. AheadInv'
    <2>1. ASSUME NEW p \in F!Platforms
          PROVE  /\ NTaken(p)' + NComing(p)' <= NTaken(p) + NComing(p)
                 /\ fifo'[F!BrodFifo(p)] = fifo[F!BrodFifo(p)]
      <3>1. \A u \in F!Trains : Goes(u)' => Goes(u)
        BY <1>1, ProgramNames DEF Others, Goes, F!T
      <3>2. Coming(p)' \subseteq Coming(p)
        BY <1>2, <3>1 DEF Coming, F!TrainFifo
      <3>3. NComing(p)' <= NComing(p) /\ NTaken(p)' = NTaken(p)
        BY <1>2, <3>2, ComingFewer, TermsKept
      <3>4. OwedSum(p) /\ OwedSum(p)'
        BY <1>4, OwedIs, OwedIsNext DEF StationInv
      <3> QED
        BY <1>2, <3>3, <3>4 DEF OwedSum
    <2> QED
      BY <1>1, <1>2, <1>4, <2>1, TrainAhead DEF StationInv
  <1> QED
    BY <1>4, <1>5, <1>6 DEF StationInv

\* A train's message lands in a FIFO of the master or of a platform.
LEMMA TrainWrites ==
    ASSUME StationInv, NEW t \in F!Trains, NEW f \in F!Fifos, NEW msg \in Words,
           NEW l \in {"wait", "sleep"}, at[F!T(t)] # "off",
           at' \in [F!Programs -> Labels], Others(F!T(t)),
           FifosTyped, OpenTyped, open' \subseteq open, made' = made,
           Lands(F!T(t), f, msg, l),
           f = F!ReadyFifo(t) \/ f = F!InfoFifo(plat[t]),
           l = "sleep" => f = F!InfoFifo(plat[t]),
           revents' = revents, i' = i, k' = k, plat' = plat, ahead' = ahead,
           starts' = starts, kills' = kills, arrivals' \in [F!Trains -> Nat]
    PROVE  /\ StationTypes' /\ MasterInv' /\ ReadersInv' /\ at'[F!T(t)] = l
           /\ fifo'[f] = Append(fifo[f], msg)
           /\ \A g \in F!Fifos : g # f => Kept(g)
           /\ \A u \in F!Trains : Kept(F!TrainFifo(u)) /\ (u # t => Kept(F!ReadyFifo(u)))
           /\ kills = 0 => \A g \in F!Fifos : g # f => fifo'[g] = fifo[g]
  <1>1. /\ at'[F!T(t)] = l /\ fifo'[f] = Append(fifo[f], msg)
        /\ \A g \in F!Fifos : g # f => Kept(g)
        /\ \A d \in open : d[3] = "r" => d \in open' /\ (d[2] # f => fifo'[d[2]] = fifo[d[2]])
    BY DEF Lands
  <1>2. plat[t] \in F!Platforms
    BY TypeFacts DEF StationInv
  <1>3. \A u \in F!Trains : Kept(F!TrainFifo(u)) /\ (u # t => Kept(F!ReadyFifo(u)))
    BY <1>1, <1>2, FifoNames
  <1>4. /\ F!T(t) \in F!Programs /\ F!T(t) # F!SM /\ \A p \in F!Platforms : F!T(t) # F!P(p)
        /\ \A u \in F!Trains : F!T(t) = F!T(u) => t = u
    BY ProgramNames
  <1>5. StationTypes'
    <2>1. \A u \in F!Trains : fifo'[F!TrainFifo(u)] \in Seq(F!Platforms)
      <3>1. <<>> \in Seq(F!Platforms)
        OBVIOUS
      <3> QED
        BY <1>3, <3>1, TypeFacts DEF StationInv, Kept
    <2>2. \A d \in open' : d[2] \in made'
      BY TypeFacts DEF StationInv
    <2>3. at'[F!T(t)] \in TrainPlaces
      BY <1>1 DEF TrainPlaces
    <2> QED
      BY <1>4, <2>1, <2>2, <2>3, TypeFacts, StepTypes DEF StationInv
  <1>6. MasterInv'
    <2>1. ASSUME NEW u \in F!Trains, fifo[F!ReadyFifo(u)] # <<>>,
                 <<F!SM, F!ReadyFifo(u), "r">> \in open
          PROVE  fifo'[F!ReadyFifo(u)] # <<>>
      <3>1. CASE F!ReadyFifo(u) = f
        <4>1. fifo[f] \in Seq(Words)
          BY NotFull DEF StationInv
        <4> QED
          BY <1>1, <3>1, <4>1
      <3>2. CASE F!ReadyFifo(u) # f
        <4> DEFINE d == <<F!SM, F!ReadyFifo(u), "r">>
        <4>1. d \in open /\ d[2] = F!ReadyFifo(u) /\ d[3] = "r" /\ d[2] # f
          BY <2>1, <3>2
        <4>2. fifo'[F!ReadyFifo(u)] = fifo[F!ReadyFifo(u)]
          BY <1>1, <4>1
        <4> QED
          BY <2>1, <4>2
      <3> QED
        BY <3>1, <3>2
    <2>2. at'[F!SM] = at[F!SM]
      BY <1>4, ProgramNames DEF Others
    <2> QED
      BY <1>1, <2>1, <2>2, MasterKept DEF StationInv
  <1>7. kills = 0 => /\ \A g \in F!Fifos : g # f => fifo'[g] = fifo[g]
                     /\ ReadersKept /\ F!HasReader(f)'
    BY LandsCalm DEF StationInv
  <1>8. ReadersInv'
    <2>1. kills = 0 =>
              \A g \in F!Fifos : fifo'[g] # <<>> => fifo[g] # <<>> \/ F!HasReader(g)'
      BY <1>7
    <2>2. at'[F!T(t)] # "off" /\ at'[F!T(t)] # "say"
      BY <1>1
    <2>3. kills = 0 /\ at'[F!T(t)] \in {"sequence", "sleep"} => F!HasReader(F!InfoFifo(plat[t]))'
      <3>1. at'[F!T(t)] \in {"sequence", "sleep"} => f = F!InfoFifo(plat[t])
        BY <1>1
      <3> QED
        BY <1>7, <3>1 DEF F!HasReader, F!InfoFifo
    <2> QED
      BY <1>4, <1>7, <2>1, <2>2, <2>3, ReadersStep DEF StationInv
  <1> QED
    BY <1>1, <1>3, <1>5, <1>6, <1>7, <1>8

\* The trains that come to a platform after a train that was on its way has gone on.
LEMMA ComingLess ==
    ASSUME StationInv, kills = 0, NEW t \in F!Trains, NEW p \in F!Platforms, ~Goes(t)',
           Others(F!T(t)), plat' = plat,
           \A u \in F!Trains : fifo'[F!TrainFifo(u)] = fifo[F!TrainFifo(u)]
    PROVE  /\ NComing(p)' <= NComing(p) /\ NComing(p)' \in Nat /\ NComing(p) \in Nat
           /\ Goes(t) /\ plat[t] = p => NComing(p)' <= NComing(p) - 1
  <1>1. \A u \in F!Trains : Goes(u)' => Goes(u) /\ u # t
    BY ProgramNames, TermsKept DEF Others
  <1>2. Coming(p)' \subseteq Coming(p)
    BY <1>1 DEF Coming, F!TrainFifo
  <1>3. IsFiniteSet(Coming(p)) /\ NComing(p) = Cardinality(Coming(p)) /\ NComing(p) \in Nat
    BY ComingFinite DEF NComing
  <1> DEFINE coming == Coming(p)'
  <1>4. coming \subseteq Coming(p) /\ NComing(p)' = Cardinality(coming)
    BY <1>2 DEF NComing
  <1>5. ASSUME Goes(t), plat[t] = p PROVE t \in Coming(p) /\ t \notin coming
    <2>1. t \in Coming(p)
      BY <1>5 DEF Coming
    <2>2. fifo'[F!TrainFifo(t)] = <<>>
      BY <1>5, ToldOnce
    <2> QED
      BY <2>1, <2>2 DEF Coming, F!TrainFifo
  <1> HIDE DEF coming
  <1>6. IsFiniteSet(coming) /\ Cardinality(coming) \in Nat
        /\ Cardinality(coming) <= Cardinality(Coming(p))
    BY <1>3, <1>4, FS_Subset, FS_CardinalityType
  <1>7. ASSUME Goes(t), plat[t] = p PROVE Cardinality(coming) <= Cardinality(Coming(p)) - 1
    <2> DEFINE rest == Coming(p) \ {t}
    <2>1. coming \subseteq rest
      BY <1>4, <1>5, <1>7
    <2>2. Cardinality(rest) = Cardinality(Coming(p)) - 1 /\ IsFiniteSet(rest)
      BY <1>3, <1>5, <1>7, FS_RemoveElement
    <2> HIDE DEF rest
    <2>3. Cardinality(coming) <= Cardinality(rest)
      BY <2>1, <2>2, FS_Subset
    <2> QED
      BY <2>2, <2>3
  <1> QED
    BY <1>3, <1>4, <1>6, <1>7

LEMMA ReadyWriteInv ==
    ASSUME StationInv, NEW t \in F!Trains, F!ReadyWrite(t) PROVE StationInv'
  <1>a. PICK f \in F!Fifos : f = F!ReadyFifo(t)
    BY FifoNames
  <1>1. /\ at[F!T(t)] = "say" /\ F!WriteAndClose(F!T(t), f, "ready", "wait")
        /\ revents' = revents /\ i' = i /\ k' = k /\ plat' = plat /\ ahead' = ahead
        /\ arrivals' = arrivals /\ starts' = starts /\ kills' = kills
    BY <1>a DEF F!ReadyWrite, F!master, F!records
  <1>2. "ready" \in Words /\ "wait" \in Labels /\ F!T(t) \in F!Programs /\ F!T(t) # F!SM
    BY ProgramNames DEF Words, Labels
  <1>3. /\ at' \in [F!Programs -> Labels] /\ Others(F!T(t))
        /\ FifosTyped /\ OpenTyped /\ open' \subseteq open /\ made' = made
        /\ Lands(F!T(t), f, "ready", "wait") \/ Breaks(F!T(t), f)
    BY <1>1, <1>2, WriteAndCloseFacts DEF StationInv
  <1>4. CASE Breaks(F!T(t), f)
    <2>1. kills # 0
      BY <1>a, <1>1, <1>4 DEF StationInv, ReadersInv, Breaks
    <2> QED
      BY <1>1, <1>2, <1>3, <1>4, <2>1, TypeFacts, BreaksInv DEF StationInv, Breaks
  <1>5. CASE Lands(F!T(t), f, "ready", "wait")
    <2>1. /\ StationTypes' /\ MasterInv' /\ ReadersInv' /\ at'[F!T(t)] = "wait"
          /\ fifo'[f] = Append(fifo[f], "ready")
          /\ \A g \in F!Fifos : g # f => Kept(g)
          /\ \A u \in F!Trains : Kept(F!TrainFifo(u)) /\ (u # t => Kept(F!ReadyFifo(u)))
          /\ kills = 0 => \A g \in F!Fifos : g # f => fifo'[g] = fifo[g]
      BY <1>a, <1>1, <1>2, <1>3, <1>5, TypeFacts, TrainWrites DEF StationInv
    <2>2. AskedInv'
      <3>1. NAsks(t) = 1 /\ NAsks(t)' = 0 /\ NGoes(t) = 0 /\ NGoes(t)' = 0
        BY <1>1, <2>1 DEF NAsks, NGoes, Asks, Goes, Bit, F!T
      <3>2. /\ AskedSum(t) /\ starts[F!T(t)] \in Nat /\ arrivals[t] \in Nat
            /\ AskedSum(t)' /\ NSaid(t)' = Len(fifo'[F!ReadyFifo(t)])
            /\ NTold(t)' = Len(fifo'[F!TrainFifo(t)])
        BY <2>1, AskedIs, AskedIsNext, StartsNat DEF StationInv
      <3>3. NSaid(t)' = NSaid(t) + 1
        <4>1. fifo[f] \in Seq(Words)
          BY NotFull DEF StationInv
        <4>2. Len(fifo'[f]) = Len(fifo[f]) + 1
          BY <1>2, <2>1, <4>1
        <4> QED
          BY <1>a, <3>2, <4>2 DEF NSaid
      <3>4. NTold(t)' <= NTold(t)
        <4>1. Kept(F!TrainFifo(t)) /\ NTold(t) \in Nat /\ NTold(t)' \in Nat
          BY <2>1, <3>2 DEF AskedSum
        <4> QED
          BY <3>2, <4>1 DEF Kept, NTold
      <3>5. arrivals'[t] + NAsks(t)' + NSaid(t)' + NTold(t)' + NGoes(t)' - starts'[F!T(t)]
             <= arrivals[t] + NAsks(t) + NSaid(t) + NTold(t) + NGoes(t) - starts[F!T(t)]
        <4>1. AskedSum(t) /\ AskedSum(t)' /\ starts[F!T(t)] \in Nat /\ arrivals[t] \in Nat
          BY <3>2
        <4> QED
          BY <1>1, <3>1, <3>3, <3>4, <4>1 DEF AskedSum
      <3> QED
        BY <1>1, <1>3, <2>1, <3>5, TrainAsked DEF StationInv
    <2>3. AheadInv'
      <3>1. ASSUME kills = 0, NEW p \in F!Platforms
            PROVE  /\ NTaken(p)' + NComing(p)' <= NTaken(p) + NComing(p)
                   /\ fifo'[F!BrodFifo(p)] = fifo[F!BrodFifo(p)]
        <4>1. /\ fifo'[F!BrodFifo(p)] = fifo[F!BrodFifo(p)] /\ NTaken(p)' = NTaken(p)
              /\ \A u \in F!Trains : fifo'[F!TrainFifo(u)] = fifo[F!TrainFifo(u)]
          BY <1>a, <2>1, <3>1, FifoNames, TermsKept
        <4>2. ~Goes(t)'
          BY <2>1 DEF Goes, F!T
        <4>3. NComing(p)' <= NComing(p) /\ NComing(p)' \in Nat /\ NComing(p) \in Nat
          BY <1>1, <1>3, <3>1, <4>1, <4>2, ComingLess
        <4>4. OwedSum(p)
          BY OwedIs DEF StationInv
        <4> QED
          BY <4>1, <4>3, <4>4 DEF OwedSum
      <3> QED
        BY <1>1, <1>3, <2>1, <3>1, TrainAhead DEF StationInv
    <2> QED
      BY <2>1, <2>2, <2>3 DEF StationInv
  <1> QED
    BY <1>3, <1>4, <1>5

LEMMA SequenceWriteInv ==
    ASSUME StationInv, NEW t \in F!Trains, F!SequenceWrite(t) PROVE StationInv'
  <1>b. PICK q \in F!Platforms : q = plat[t]
    BY TypeFacts DEF StationInv
  <1>a. PICK f \in F!Fifos : f = F!InfoFifo(q)
    BY FifoNames
  <1>1. /\ at[F!T(t)] = "sequence" /\ F!WriteAndKeep(F!T(t), f, "sequence", open, "sleep")
        /\ revents' = revents /\ i' = i /\ k' = k /\ plat' = plat /\ ahead' = ahead
        /\ starts' = starts /\ kills' = kills
        /\ arrivals' = IF F!HasReader(f) THEN [arrivals EXCEPT ![t] = @ + 1] ELSE arrivals
    BY <1>a, <1>b DEF F!SequenceWrite, F!Arrived, F!master
  <1>2. /\ "sequence" \in Words /\ "sleep" \in Labels /\ F!T(t) \in F!Programs
        /\ F!T(t) # F!SM /\ open \in SUBSET open
    BY ProgramNames DEF Words, Labels
  <1>3. /\ at' \in [F!Programs -> Labels] /\ Others(F!T(t))
        /\ FifosTyped /\ OpenTyped /\ open' \subseteq open /\ made' = made
        /\ Lands(F!T(t), f, "sequence", "sleep") \/ Breaks(F!T(t), f)
    BY <1>1, <1>2, WriteFacts DEF StationInv
  <1>4. CASE Breaks(F!T(t), f)
    <2>1. kills # 0
      BY <1>a, <1>b, <1>1, <1>4 DEF StationInv, ReadersInv, Breaks
    <2>2. arrivals' = arrivals
      BY <1>1, <1>4 DEF Breaks
    <2> QED
      BY <1>1, <1>2, <1>3, <1>4, <2>1, <2>2, TypeFacts, BreaksInv DEF StationInv, Breaks
  <1>5. CASE Lands(F!T(t), f, "sequence", "sleep")
    <2>a. /\ arrivals' \in [F!Trains -> Nat] /\ arrivals'[t] = arrivals[t] + 1
          /\ \A u \in F!Trains : u # t => arrivals'[u] = arrivals[u]
      <3>1. arrivals \in [F!Trains -> Nat]
        BY TypeFacts DEF StationInv
      <3>2. arrivals' = [arrivals EXCEPT ![t] = @ + 1]
        BY <1>1, <1>5 DEF Lands
      <3> QED
        BY <3>1, <3>2
    <2>1. /\ StationTypes' /\ MasterInv' /\ ReadersInv' /\ at'[F!T(t)] = "sleep"
          /\ fifo'[f] = Append(fifo[f], "sequence")
          /\ \A g \in F!Fifos : g # f => Kept(g)
          /\ \A u \in F!Trains : Kept(F!TrainFifo(u)) /\ (u # t => Kept(F!ReadyFifo(u)))
          /\ kills = 0 => \A g \in F!Fifos : g # f => fifo'[g] = fifo[g]
      BY <1>a, <1>b, <1>1, <1>2, <1>3, <1>5, <2>a, TrainWrites
    <2>2. AskedInv'
      <3>1. NAsks(t) = 0 /\ NAsks(t)' = 0 /\ NGoes(t) = 1 /\ NGoes(t)' = 0
        BY <1>1, <2>1 DEF NAsks, NGoes, Asks, Goes, Bit, F!T
      <3>2. /\ AskedSum(t) /\ starts[F!T(t)] \in Nat /\ arrivals[t] \in Nat
            /\ AskedSum(t)' /\ NSaid(t)' = Len(fifo'[F!ReadyFifo(t)])
            /\ NTold(t)' = Len(fifo'[F!TrainFifo(t)])
        BY <2>1, AskedIs, AskedIsNext, StartsNat DEF StationInv
      <3>3. NSaid(t)' <= NSaid(t)
        <4>1. Kept(F!ReadyFifo(t)) /\ NSaid(t) \in Nat /\ NSaid(t)' \in Nat
          BY <1>a, <2>1, <3>2, FifoNames DEF AskedSum
        <4> QED
          BY <3>2, <4>1 DEF Kept, NSaid
      <3>4. NTold(t)' <= NTold(t)
        <4>1. Kept(F!TrainFifo(t)) /\ NTold(t) \in Nat /\ NTold(t)' \in Nat
          BY <2>1, <3>2 DEF AskedSum
        <4> QED
          BY <3>2, <4>1 DEF Kept, NTold
      <3>5. arrivals'[t] + NAsks(t)' + NSaid(t)' + NTold(t)' + NGoes(t)' - starts'[F!T(t)]
             <= arrivals[t] + NAsks(t) + NSaid(t) + NTold(t) + NGoes(t) - starts[F!T(t)]
        <4>1. AskedSum(t) /\ AskedSum(t)' /\ starts[F!T(t)] \in Nat /\ arrivals[t] \in Nat
          BY <3>2
        <4> QED
          BY <1>1, <2>a, <3>1, <3>3, <3>4, <4>1 DEF AskedSum
      <3> QED
        BY <1>1, <1>3, <2>1, <2>a, <3>5, TrainAsked DEF StationInv
    <2>3. AheadInv'
      <3>1. ASSUME kills = 0, NEW p \in F!Platforms
            PROVE  /\ NTaken(p)' + NComing(p)' <= NTaken(p) + NComing(p)
                   /\ fifo'[F!BrodFifo(p)] = fifo[F!BrodFifo(p)]
        <4>1. /\ fifo'[F!BrodFifo(p)] = fifo[F!BrodFifo(p)]
              /\ \A u \in F!Trains : fifo'[F!TrainFifo(u)] = fifo[F!TrainFifo(u)]
          BY <1>a, <2>1, <3>1, FifoNames
        <4>2. Goes(t) /\ ~Goes(t)'
          BY <1>1, <2>1 DEF Goes, F!T
        <4>3. /\ NComing(p)' <= NComing(p) /\ NComing(p)' \in Nat /\ NComing(p) \in Nat
              /\ plat[t] = p => NComing(p)' <= NComing(p) - 1
          BY <1>1, <1>3, <3>1, <4>1, <4>2, ComingLess
        <4>4. OwedSum(p) /\ OwedSum(p)' /\ NTaken(p)' = Count(fifo'[F!InfoFifo(p)], "sequence")
          BY <2>1, OwedIs, OwedIsNext DEF StationInv
        <4>5. CASE p = q
          <5>1. NTaken(p)' = NTaken(p) + 1
            <6>1. fifo[f] \in Seq(Words)
              BY NotFull DEF StationInv
            <6>2. Count(fifo'[f], "sequence") = Count(fifo[f], "sequence") + 1
              BY <1>2, <2>1, <6>1, CountAppend DEF Bit
            <6>3. NTaken(p) = Count(fifo[f], "sequence")
              BY <1>a, <4>5 DEF NTaken
            <6> QED
              BY <1>a, <4>4, <4>5, <6>2, <6>3
          <5>2. NTaken(p) \in Nat
            BY <4>4 DEF OwedSum
          <5> QED
            BY <1>b, <4>1, <4>3, <4>5, <5>1, <5>2
        <4>6. CASE p # q
          <5>1. NTaken(p)' = NTaken(p)
            BY <1>a, <2>1, <3>1, <4>6, FifoNames, TermsKept
          <5>2. NTaken(p) \in Nat
            BY <4>4 DEF OwedSum
          <5> QED
            BY <4>1, <4>3, <5>1, <5>2
        <4> QED
          BY <4>5, <4>6
      <3> QED
        BY <1>1, <1>3, <2>1, <3>1, TrainAhead DEF StationInv
    <2> QED
      BY <2>1, <2>2, <2>3 DEF StationInv
  <1> QED
    BY <1>3, <1>4, <1>5

LEMMA LeavingWriteInv ==
    ASSUME StationInv, NEW t \in F!Trains, F!LeavingWrite(t) PROVE StationInv'
  <1>b. PICK q \in F!Platforms : q = plat[t]
    BY TypeFacts DEF StationInv
  <1>a. PICK f \in F!Fifos : f = F!InfoFifo(q)
    BY FifoNames
  <1>1. /\ at[F!T(t)] = "sleep" /\ F!WriteAndClose(F!T(t), f, "leaving", "wait")
        /\ revents' = revents /\ i' = i /\ k' = k /\ plat' = plat /\ ahead' = ahead
        /\ arrivals' = arrivals /\ starts' = starts /\ kills' = kills
    BY <1>a, <1>b DEF F!LeavingWrite, F!master, F!records
  <1>2. "leaving" \in Words /\ "wait" \in Labels /\ F!T(t) \in F!Programs /\ F!T(t) # F!SM
    BY ProgramNames DEF Words, Labels
  <1>3. /\ at' \in [F!Programs -> Labels] /\ Others(F!T(t))
        /\ FifosTyped /\ OpenTyped /\ open' \subseteq open /\ made' = made
        /\ Lands(F!T(t), f, "leaving", "wait") \/ Breaks(F!T(t), f)
    BY <1>1, <1>2, WriteAndCloseFacts DEF StationInv
  <1>4. CASE Breaks(F!T(t), f)
    <2>1. kills # 0
      BY <1>a, <1>b, <1>1, <1>4 DEF StationInv, ReadersInv, Breaks
    <2> QED
      BY <1>1, <1>2, <1>3, <1>4, <2>1, TypeFacts, BreaksInv DEF StationInv, Breaks
  <1>5. CASE Lands(F!T(t), f, "leaving", "wait")
    <2>1. /\ StationTypes' /\ MasterInv' /\ ReadersInv' /\ at'[F!T(t)] = "wait"
          /\ fifo'[f] = Append(fifo[f], "leaving")
          /\ \A g \in F!Fifos : g # f => Kept(g)
          /\ \A u \in F!Trains : Kept(F!TrainFifo(u)) /\ (u # t => Kept(F!ReadyFifo(u)))
          /\ kills = 0 => \A g \in F!Fifos : g # f => fifo'[g] = fifo[g]
      BY <1>a, <1>b, <1>1, <1>2, <1>3, <1>5, TypeFacts, TrainWrites DEF StationInv
    <2>2. \A u \in F!Trains : (Goes(u)' => Goes(u)) /\ (Asks(u)' => Asks(u))
      <3>1. \A u \in F!Trains : at'[F!T(u)] = at[F!T(u)] \/ at'[F!T(u)] = "wait"
        BY <1>3, <2>1, ProgramNames DEF Others
      <3> QED
        BY <3>1 DEF Goes, Asks, F!T
    <2>3. InHand' = InHand
      BY <1>3, ProgramNames, TermsKept DEF Others
    <2>4. AskedInv'
      <3>1. \A u \in F!Trains : Kept(F!ReadyFifo(u)) /\ starts[F!T(u)] <= starts'[F!T(u)]
        BY <1>a, <1>1, <2>1, FifoNames, StartsNat DEF StationInv
      <3> QED
        BY <1>1, <2>1, <2>2, <2>3, <3>1, AskedKept DEF StationInv
    <2>5. AheadInv'
      <3>1. ASSUME kills = 0, NEW p \in F!Platforms
            PROVE  /\ NTaken(p)' + NComing(p)' <= NTaken(p) + NComing(p)
                   /\ fifo'[F!BrodFifo(p)] = fifo[F!BrodFifo(p)]
        <4>1. /\ fifo'[F!BrodFifo(p)] = fifo[F!BrodFifo(p)]
              /\ \A u \in F!Trains : fifo'[F!TrainFifo(u)] = fifo[F!TrainFifo(u)]
          BY <1>a, <2>1, <3>1, FifoNames
        <4>2. ~Goes(t)'
          BY <2>1 DEF Goes, F!T
        <4>3. NComing(p)' <= NComing(p) /\ NComing(p)' \in Nat /\ NComing(p) \in Nat
          BY <1>1, <1>3, <3>1, <4>1, <4>2, ComingLess
        <4>4. OwedSum(p) /\ OwedSum(p)' /\ NTaken(p)' = Count(fifo'[F!InfoFifo(p)], "sequence")
          BY <2>1, OwedIs, OwedIsNext DEF StationInv
        <4>5. NTaken(p)' = NTaken(p)
          <5>1. CASE p = q
            <6>1. fifo[f] \in Seq(Words)
              BY NotFull DEF StationInv
            <6>2. Count(fifo'[f], "sequence") = Count(fifo[f], "sequence") + 0
              BY <1>2, <2>1, <6>1, CountAppend DEF Bit
            <6>3. NTaken(p) = Count(fifo[f], "sequence") /\ NTaken(p) \in Nat
              BY <1>a, <4>4, <5>1 DEF NTaken, OwedSum
            <6> QED
              BY <1>a, <4>4, <5>1, <6>2, <6>3
          <5>2. CASE p # q
            BY <1>a, <2>1, <3>1, <5>2, FifoNames, TermsKept
          <5> QED
            BY <5>1, <5>2
        <4>6. NTaken(p) \in Nat
          BY <4>4 DEF OwedSum
        <4> QED
          BY <4>1, <4>3, <4>5, <4>6
      <3> QED
        BY <1>1, <1>3, <2>1, <3>1, TrainAhead DEF StationInv
    <2> QED
      BY <2>1, <2>4, <2>5 DEF StationInv
  <1> QED
    BY <1>3, <1>4, <1>5

LEMMA KillInv == ASSUME StationInv, NEW x \in F!Programs, F!Kill(x) PROVE StationInv'
  <1>1. /\ F!Ends(x) /\ kills' = kills + 1 /\ made' = made /\ revents' = revents
        /\ i' = i /\ k' = k /\ plat' = plat /\ ahead' = ahead /\ arrivals' = arrivals
        /\ starts' = starts
    BY DEF F!Kill, F!master
  <1>2. /\ at' \in [F!Programs -> Labels] /\ at'[x] = "off" /\ Others(x)
        /\ FifosTyped /\ OpenTyped /\ open' \subseteq open
        /\ \A f \in F!Fifos : Kept(f)
        /\ \A d \in open : d[1] # x => d \in open' /\ fifo'[d[2]] = fifo[d[2]]
    BY <1>1, EndsFacts DEF StationInv
  <1>3. kills' \in Nat \ {0} /\ i' \in F!Trains /\ k' \in 1 .. NPlatforms + 1
    BY <1>1, TypeFacts DEF StationInv
  <1> QED
    BY <1>1, <1>2, <1>3, BreaksInv

(***************************************************************************)
(* The station                                                             *)
(***************************************************************************)
LEMMA StationInit == ASSUME F!Init PROVE StationInv
  <1>1. NTrains \in Nat \ {0} /\ NPlatforms \in Nat \ {0}
    BY StationAssumption
  <1>2. /\ at = [x \in F!Programs |-> "off"] /\ made \in {{}, F!Fifos}
        /\ fifo = [f \in F!Fifos |-> <<>>] /\ open = {} /\ revents = {} /\ i = 1 /\ k = 1
        /\ plat = [t \in F!Trains |-> 1] /\ ahead = [p \in F!Platforms |-> 0]
        /\ arrivals = [t \in F!Trains |-> 0] /\ starts = [x \in F!Programs |-> 0]
        /\ kills = 0
    BY DEF F!Init
  <1>3. \A x \in F!Programs : at[x] = "off" /\ starts[x] = 0
    BY <1>2
  <1>4. \A f \in F!Fifos : fifo[f] = <<>>
    BY <1>2
  <1>5. StationTypes
    <2>1. F!TypeOK
      <3>1. at[F!SM] = "off"
        BY <1>3, ProgramNames
      <3>2. \A p \in F!Platforms : at[F!P(p)] = "off"
        BY <1>3, ProgramNames
      <3>3. \A t \in F!Trains : at[F!T(t)] = "off"
        BY <1>3, ProgramNames
      <3>4. \A t \in F!Trains : fifo[F!TrainFifo(t)] \in Seq(F!Platforms)
        <4>1. <<>> \in Seq(F!Platforms)
          OBVIOUS
        <4> QED
          BY <1>4, <4>1, FifoNames
      <3>5. /\ i \in F!Trains /\ k \in 1 .. NPlatforms + 1
            /\ plat \in [F!Trains -> F!Platforms]
        BY <1>1, <1>2 DEF F!Trains, F!Platforms
      <3>6. made \subseteq F!Fifos /\ open = {} /\ revents = {}
        BY <1>2
      <3> QED
        BY <3>1, <3>2, <3>3, <3>4, <3>5, <3>6 DEF F!TypeOK
    <2>2. at \in [F!Programs -> Labels]
      BY <1>2 DEF Labels
    <2>3. fifo \in [F!Fifos -> Seq(Words)]
      <3>1. <<>> \in Seq(Words)
        OBVIOUS
      <3> QED
        BY <1>2, <3>1
    <2>4. /\ ahead \in [F!Platforms -> Int] /\ arrivals \in [F!Trains -> Nat]
          /\ starts \in [F!Programs -> Nat] /\ kills \in Nat
          /\ open \subseteq F!Programs \X F!Fifos \X {"r", "w"}
      BY <1>2
    <2> QED
      BY <2>1, <2>2, <2>3, <2>4 DEF StationTypes
  <1>6. at[F!SM] = "off" /\ ~InHand
        /\ \A t \in F!Trains : at[F!T(t)] = "off" /\ ~Asks(t) /\ ~Goes(t)
    BY <1>3, ProgramNames DEF InHand, Asks, Goes
  <1>7. MasterInv
    BY <1>6 DEF MasterInv
  <1>8. AskedInv
    <2>1. ASSUME NEW t \in F!Trains PROVE arrivals[t] + Asked(t) <= starts[F!T(t)]
      <3>1. NAsks(t) = 0 /\ NServes(t) = 0 /\ NGoes(t) = 0
        BY <1>6 DEF NAsks, NServes, NGoes, Bit
      <3>2. NSaid(t) = 0 /\ NTold(t) = 0
        BY <1>4, FifoNames DEF NSaid, NTold
      <3>3. arrivals[t] = 0 /\ starts[F!T(t)] = 0
        BY <1>2, <1>3, ProgramNames
      <3> QED
        BY <3>1, <3>2, <3>3 DEF Asked
    <2> QED
      BY <2>1 DEF AskedInv
  <1>9. ReadersInv
    BY <1>3, <1>4, <1>6 DEF ReadersInv, Bit
  <1>10. AheadInv
    <2>1. ASSUME NEW p \in F!Platforms
          PROVE  Owed(p) <= 0 /\ ahead[p] <= Bit(at[F!P(p)] # "second")
      <3>1. ahead[p] = 0 /\ at[F!P(p)] = "off"
        BY <1>2, <1>3, ProgramNames
      <3>2. Coming(p) = {}
        BY <1>4, <1>6, FifoNames DEF Coming
      <3>3. NComing(p) = 0
        BY <3>2, FS_EmptySet DEF NComing
      <3>4. NTaken(p) = 0
        <4>1. Spots(fifo[F!InfoFifo(p)], "sequence") = {}
          BY <1>4, FifoNames DEF Spots
        <4> QED
          BY <4>1, FS_EmptySet DEF NTaken, Count
      <3>5. NPast(p) = 0 /\ NAnnounced(p) = 0
        BY <1>4, <1>6, FifoNames DEF NPast, NAnnounced, Bit
      <3> QED
        BY <3>1, <3>3, <3>4, <3>5 DEF Owed, Bit
    <2> QED
      BY <2>1 DEF AheadInv
  <1> QED
    BY <1>5, <1>7, <1>8, <1>9, <1>10 DEF StationInv

LEMMA StationStutter == ASSUME StationInv, UNCHANGED fifos PROVE StationInv'
  <1>1. /\ at' = at /\ made' = made /\ fifo' = fifo /\ open' = open /\ revents' = revents
        /\ i' = i /\ k' = k /\ plat' = plat /\ ahead' = ahead /\ arrivals' = arrivals
        /\ starts' = starts /\ kills' = kills
    BY DEF fifos
  <1>2. StationTypes'
    BY <1>1 DEF StationInv, StationTypes, F!TypeOK
  <1>3. MasterInv'
    BY <1>1 DEF StationInv, MasterInv, F!SM, F!ReadyFifo
  <1>4. AskedInv'
    <2>1. \A t \in F!Trains : Asked(t)' = Asked(t)
      BY <1>1 DEF Asked, NAsks, NServes, NGoes, NSaid, NTold, Asks, Goes, InHand, F!T, F!SM,
         F!ReadyFifo, F!TrainFifo
    <2> QED
      BY <1>1, <2>1 DEF StationInv, AskedInv, F!T
  <1>5. ReadersInv'
    BY <1>1 DEF StationInv, ReadersInv, F!HasReader, F!T, F!SM, F!BrodFifo, F!TrainFifo,
       F!ReadyFifo, F!InfoFifo, Bit
  <1>6. AheadInv'
    <2>1. \A t \in F!Trains : Goes(t)' = Goes(t)
      BY <1>1 DEF Goes, F!T
    <2>2. InHand' = InHand
      BY <1>1 DEF InHand, F!SM
    <2>3. \A p \in F!Platforms : NTaken(p)' <= NTaken(p)
      BY <1>1, <1>2, OwedIs, OwedIsNext DEF OwedSum, StationInv, NTaken
    <2> QED
      BY <1>1, <1>2, <2>1, <2>2, <2>3, AheadKept DEF StationInv
  <1> QED
    BY <1>2, <1>3, <1>4, <1>5, <1>6 DEF StationInv

LEMMA StationNext == ASSUME StationInv, [AllNext]_allVars PROVE StationInv'
  <1>1. CASE UNCHANGED fifos
    BY <1>1, StationStutter
  <1>2. CASE F!StationStart
    BY <1>2, StationStartInv
  <1>3. CASE F!StationStep
    BY <1>3, PollInv, ReadReadyInv, BroadcastOpenInv, BroadcastFailsInv, BroadcastWriteInv,
       TellOpenInv, TellWriteInv DEF F!StationStep
  <1>4. ASSUME NEW p \in F!Platforms, F!PlatformStart(p) \/ F!PlatformStep(p)
        PROVE  StationInv'
    BY <1>4, PlatformStartInv, ReadBroadcastInv, NoBroadcastInv, ReadInfoInv, NoInfoInv
    DEF F!PlatformStep
  <1>5. ASSUME NEW t \in F!Trains,
               F!TrainStart(t) \/ F!ReadyOpen(t) \/ F!ReadyFails(t) \/ F!TrainStep(t)
        PROVE  StationInv'
    BY <1>5, TrainStartInv, ReadyOpenInv, ReadyFailsInv, ReadyWriteInv, ReadPlatformInv,
       InfoOpenInv, InfoFailsInv, SequenceWriteInv, LeavingWriteInv DEF F!TrainStep
  <1>6. ASSUME NEW x \in F!Programs, F!Kill(x) PROVE StationInv'
    BY <1>6, KillInv
  <1> QED
    BY <1>1, <1>2, <1>3, <1>4, <1>5, <1>6 DEF AllNext, InCounter, InStation, F!Next, allVars

\* A platform takes in at most one train before its announcement as long as nobody was
\* stopped, and a train arrives once at most for each time it was started.
THEOREM ArrivalsAreRight == AllInit /\ [][AllNext]_allVars => []RightArrivals
  <1>1. AllInit => StationInv
    BY StationInit DEF AllInit
  <1>2. StationInv /\ [AllNext]_allVars => StationInv'
    BY StationNext
  <1>3. StationInv => RightArrivals
    <2> SUFFICES ASSUME StationInv PROVE RightArrivals
      OBVIOUS
    <2>1. F!TypeOK
      BY DEF StationInv, StationTypes
    <2>2. ASSUME kills = 0, NEW p \in F!Platforms PROVE ahead[p] <= 1
      <3>1. ahead[p] \in Int
        BY TypeFacts DEF StationInv
      <3>2. ahead[p] <= Bit(at[F!P(p)] # "second")
        BY <2>2 DEF StationInv, AheadInv
      <3> QED
        BY <3>1, <3>2 DEF Bit
    <2>3. ASSUME NEW t \in F!Trains PROVE arrivals[t] <= starts[F!T(t)]
      <3>1. arrivals[t] + Asked(t) <= starts[F!T(t)]
        BY DEF StationInv, AskedInv
      <3>2. Asked(t) \in Nat /\ arrivals[t] \in Nat /\ starts[F!T(t)] \in Nat
        BY AskedIs, StartsNat DEF StationInv, AskedSum
      <3> QED
        BY <3>1, <3>2
    <2> QED
      BY <2>1, <2>2, <2>3 DEF RightArrivals, F!AtMostOneAhead, F!NoMoreThanAsked
  <1> QED
    BY <1>1, <1>2, <1>3, PTL
=============================================================================
