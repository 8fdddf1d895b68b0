---------------------------- MODULE TrainStation ----------------------------
(***************************************************************************)
(* The railway station of rawsockets/trainmain.                             *)
(*                                                                          *)
(*   t.c     a train connects to the station master, sends its sequence,    *)
(*           later that it leaves, and ends                                 *)
(*   sm.c    the station master gives each train a platform, announces the  *)
(*           train to the platforms and passes the train's connection to    *)
(*           the chosen one                                                 *)
(*   plat.c  a platform takes an announcement, waits for a train on the     *)
(*           same connection and reads what the train sends                 *)
(*                                                                          *)
(* The platforms' thread prints raw messages (advert.c) and shares nothing  *)
(* with the rest; it is left out.                                           *)
(***************************************************************************)
EXTENDS Naturals, Sequences

CONSTANT NTrains      \* how many trains come
ASSUME NTrainsAssumption == NTrains \in Nat

\* trains are numbered in the order in which they connect
Trains == 1..NTrains
NoTrain == 0

Platforms == 1..3     \* plat_available[3], started as plat 1, plat 2, plat 3
NoPlatform == 0

\* A connection from the station master to platform p, made for train t. Bad is a
\* socket that is not connected, or newfd before it is first assigned.
Announcements == Trains \X Platforms
Bad == <<NoTrain, NoPlatform>>

VARIABLES
    train,      \* "away", "connected", "arrived" (first message sent) or "left" (both)
    backlog,    \* trains the station master has not accepted
    smpc,       \* "accept", "cast" or "pass"
    nfd,        \* the train it works on
    k,          \* the platform chosen, as a number from 1
    i,          \* the platform that broadcast announces to next
    newfd,      \* the connection the train is passed on
    available,  \* plat_available
    given,      \* history: the platform each train was given
    up,         \* the platforms that have been started
    queue,      \* announcements a platform has not accepted
    cur,        \* the announcement it works on
    ppc,        \* "accept", "fd", "first" or "second"
    tfd,        \* the train whose connection it has received
    buf         \* the trains passed on each connection and not yet received

smVars == <<smpc, nfd, k, i, newfd, available, given>>
platVars == <<queue, cur, ppc, tfd, buf>>
vars == <<train, backlog, smVars, up, platVars>>

TypeOK ==
    /\ train \in [Trains -> {"away", "connected", "arrived", "left"}]
    /\ backlog \in Seq(Trains)
    /\ smpc \in {"accept", "cast", "pass"}
    /\ nfd \in Trains \union {NoTrain}
    /\ smpc # "accept" => nfd \in Trains /\ k \in Platforms
    /\ k \in Platforms \union {NoPlatform}
    /\ i \in 1..3
    /\ newfd \in Announcements \union {Bad}
    /\ available \in [Platforms -> BOOLEAN]
    /\ given \in [Trains -> Platforms \union {NoPlatform}]
    /\ up \subseteq Platforms
    /\ queue \in [Platforms -> Seq(Announcements)]
    /\ cur \in [Platforms -> Announcements \union {Bad}]
    /\ ppc \in [Platforms -> {"accept", "fd", "first", "second"}]
    /\ \A p \in Platforms : ppc[p] # "accept" => cur[p] \in Announcements /\ p \in up
    /\ tfd \in [Platforms -> Trains \union {NoTrain}]
    /\ \A p \in Platforms : ppc[p] \in {"first", "second"} => tfd[p] \in Trains
    /\ buf \in [Announcements -> Seq(Trains)]

Init ==
    /\ train = [t \in Trains |-> "away"]
    /\ backlog = <<>>
    /\ smpc = "accept" /\ nfd = NoTrain /\ k = NoPlatform /\ i = 1
    /\ newfd = Bad
    /\ available = [p \in Platforms |-> TRUE]
    /\ given = [t \in Trains |-> NoPlatform]
    /\ up = {}
    /\ queue = [p \in Platforms |-> <<>>]
    /\ cur = [p \in Platforms |-> Bad]
    /\ ppc = [p \in Platforms |-> "accept"]
    /\ tfd = [p \in Platforms |-> NoTrain]
    /\ buf = [a \in Announcements |-> <<>>]

-----------------------------------------------------------------------------
(* t.c                                                                      *)

Arrive(t) ==
    /\ train[t] = "away" /\ \A u \in 1..(t - 1) : train[u] # "away"
    /\ train' = [train EXCEPT ![t] = "connected"]
    /\ backlog' = Append(backlog, t)
    /\ UNCHANGED <<smVars, up, platVars>>

\* The sequence is sent, then "I am leaving". That the process ends after this is
\* not noticed: a platform reads two messages and does not wait for more.
Proceeds == [connected |-> "arrived", arrived |-> "left"]

TrainStep(t) ==
    /\ train[t] \in {"connected", "arrived"}
    /\ train' = [train EXCEPT ![t] = Proceeds[@]]
    /\ UNCHANGED <<backlog, smVars, up, platVars>>

-----------------------------------------------------------------------------
(* sm.c                                                                     *)

Free == {p \in Platforms : available[p]}

\* plat_available[k]=0; nothing sets it to 1 again
Take(p) == [available EXCEPT ![p] = FALSE]

SmAccept ==
    /\ smpc = "accept" /\ backlog # <<>>
    /\ Free # {}
    /\ nfd' = Head(backlog)
    /\ backlog' = Tail(backlog)
    /\ k' = CHOOSE p \in Free : \A q \in Free : p <= q
    /\ available' = Take(k')
    /\ given' = [given EXCEPT ![nfd'] = k']
    /\ smpc' = "cast" /\ i' = 1
    /\ UNCHANGED <<train, newfd, up, platVars>>

\* flag==0: the train's connection is kept and never looked at again
SmNoPlatform ==
    /\ smpc = "accept" /\ backlog # <<>>
    /\ Free = {}
    /\ nfd' = Head(backlog)
    /\ backlog' = Tail(backlog)
    /\ k' = NoPlatform
    /\ UNCHANGED <<train, smpc, i, newfd, available, given, up, platVars>>

\* Mutants of Chosen: every announcement is taken for the platform's; the
\* platform is compared with i+1.
ChosenAny(p) == TRUE
ChosenNext(p) == p + 1 = k

\* if(i==k)
Chosen(p) == p = k

\* for(i=0;i<2;i++): the loop ends before the third platform.
RoundAfter(n) == n < 2

\* One round of broadcast: announce the train to platform i. If it is not running
\* connect fails, error_func only prints, and the socket stays unconnected.
Announce ==
    /\ smpc = "cast"
    /\ LET a == IF i \in up THEN <<nfd, i>> ELSE Bad IN
        /\ queue' = IF a = Bad THEN queue ELSE [queue EXCEPT ![i] = Append(@, a)]
        /\ newfd' = IF Chosen(i) THEN a ELSE newfd
    /\ i' = i + 1
    /\ smpc' = IF RoundAfter(i) THEN "cast" ELSE "pass"
    /\ UNCHANGED <<train, backlog, nfd, k, available, given, up, cur, ppc, tfd, buf>>

\* send_file_descriptor(newfd,nfd); on an unconnected socket it only fails
Pass ==
    /\ smpc = "pass"
    /\ buf' = IF newfd = Bad THEN buf ELSE [buf EXCEPT ![newfd] = Append(@, nfd)]
    /\ smpc' = "accept" /\ i' = 1
    /\ UNCHANGED <<train, backlog, nfd, k, newfd, available, given, up, queue, cur, ppc,
                   tfd>>

-----------------------------------------------------------------------------
(* plat.c                                                                   *)

PlatStart(p) ==
    /\ p \notin up
    /\ up' = up \union {p}
    /\ UNCHANGED <<train, backlog, smVars, platVars>>

\* accept, and read the announcement
PlatAccept(p) ==
    /\ ppc[p] = "accept" /\ queue[p] # <<>>
    /\ cur' = [cur EXCEPT ![p] = Head(queue[p])]
    /\ queue' = [queue EXCEPT ![p] = Tail(@)]
    /\ ppc' = [ppc EXCEPT ![p] = "fd"]
    /\ UNCHANGED <<train, backlog, smVars, up, tfd, buf>>

\* recv_file_descriptor waits for a train on this connection
PlatReceive(p) ==
    /\ ppc[p] = "fd" /\ buf[cur[p]] # <<>>
    /\ tfd' = [tfd EXCEPT ![p] = Head(buf[cur[p]])]
    /\ buf' = [buf EXCEPT ![cur[p]] = Tail(@)]
    /\ ppc' = [ppc EXCEPT ![p] = "first"]
    /\ UNCHANGED <<train, backlog, smVars, up, queue, cur>>

\* the first recv from the train, then the second
PlatFirst(p) ==
    /\ ppc[p] = "first" /\ train[tfd[p]] \in {"arrived", "left"}
    /\ ppc' = [ppc EXCEPT ![p] = "second"]
    /\ UNCHANGED <<train, backlog, smVars, up, queue, cur, tfd, buf>>

PlatSecond(p) ==
    /\ ppc[p] = "second" /\ train[tfd[p]] = "left"
    /\ ppc' = [ppc EXCEPT ![p] = "accept"]
    /\ UNCHANGED <<train, backlog, smVars, up, queue, cur, tfd, buf>>

-----------------------------------------------------------------------------
SmStep == SmAccept \/ SmNoPlatform \/ Announce \/ Pass
PlatStep(p) == PlatAccept(p) \/ PlatReceive(p) \/ PlatFirst(p) \/ PlatSecond(p)

Next ==
    \/ \E t \in Trains : Arrive(t) \/ TrainStep(t)
    \/ SmStep
    \/ \E p \in Platforms : PlatStart(p) \/ PlatStep(p)

Spec == Init /\ [][Next]_vars

\* Trains that have arrived, the master and the platforms proceed; starting a
\* train or a platform is the users' choice.
FairSpec ==
    /\ Spec
    /\ \A t \in Trains : WF_vars(TrainStep(t))
    /\ WF_vars(SmStep)
    /\ \A p \in Platforms : WF_vars(PlatStep(p))
-----------------------------------------------------------------------------
(* Properties                                                               *)

\* the platform has received the connection of train t
Serves(p, t) == ppc[p] \in {"first", "second"} /\ tfd[p] = t

\* A platform only ever serves the train it was given to, although newfd is not
\* reset and the third train is passed on a connection made for an earlier one.
\* (sm.c:61,71-72,108-122, plat.c:118-133)
RightPlatform ==
    \A p \in Platforms, t \in Trains : Serves(p, t) => given[t] = p

\* No platform is given to two trains, and no train is in two connections.
\* (sm.c:108-116)
NoCollision ==
    /\ \A t, u \in Trains : given[t] = given[u] /\ given[t] # NoPlatform => t = u
    /\ \A a, b \in Announcements : \A m \in 1..Len(buf[a]), n \in 1..Len(buf[b]) :
        buf[a][m] = buf[b][n] => a = b /\ m = n

\* The platform waits for a train on an announcement that was not for it.
Stranded(p) ==
    /\ ppc[p] = "fd" /\ given[cur[p][1]] # p
    /\ cur[p][1] # nfd \/ smpc = "accept"

\* A platform that waits for a train given to another platform waits for ever:
\* the station master neither sends anything on the connection nor closes it.
\* (sm.c:61-73, plat.c:120-125)
StrandedForEver == [][\A p \in Platforms : Stranded(p) => Stranded(p)']_vars

\* A platform that waits on the announcement of its own train gets this train and
\* serves it to the end. (sm.c:71-72,122, plat.c:125-132)
PassedIsServed ==
    \A p \in Platforms :
        (ppc[p] = "fd" /\ given[cur[p][1]] = p) ~> (ppc[p] = "accept")

\* A platform serves only the train it was given to, and no two trains are given one,
\* although the master's descriptor may be an earlier train's or not connected.
OneTrainEach == TypeOK /\ RightPlatform /\ NoCollision
=============================================================================
