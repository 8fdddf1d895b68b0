------------------------- MODULE TrainStationProofs -------------------------
(***************************************************************************)
(* For any number of trains: a platform serves only the train it was given  *)
(* to (OneTrainEach), and a platform that waits for a train given to        *)
(* another one waits for ever (StrandedForEver).                            *)
(***************************************************************************)
EXTENDS TrainStation, TLAPS

\* The master's side. A train in the backlog is there once and has no platform; a
\* platform is available until it is given; while the master works on a train, this
\* train has platform k.
MasterInv ==
    /\ \A n \in 1..Len(backlog) :
        given[backlog[n]] = NoPlatform /\ train[backlog[n]] # "away"
    /\ \A m, n \in 1..Len(backlog) : backlog[m] = backlog[n] => m = n
    /\ \A t \in Trains : train[t] = "away" => given[t] = NoPlatform
    /\ \A t \in Trains : given[t] # NoPlatform => ~available[given[t]]
    /\ \A t, u \in Trains : given[t] = given[u] /\ given[t] # NoPlatform => t = u
    /\ smpc # "accept" => given[nfd] = k
    /\ smpc = "cast" => i \in 1..2
    /\ smpc = "pass" => i = 3

\* The connection of announcement a is announced for a train that has a platform,
\* and, while the master still announces that train, to a platform before i.
Announced(a) ==
    /\ given[a[1]] # NoPlatform
    /\ smpc = "cast" /\ a[1] = nfd => a[2] < i

\* An announcement reaches the queue of its platform once, and is gone from the
\* queue when the platform works on it.
QueueInv ==
    \A p \in Platforms :
        /\ \A n \in 1..Len(queue[p]) :
            p \in up /\ queue[p][n][2] = p /\ Announced(queue[p][n])
        /\ \A m, n \in 1..Len(queue[p]) : queue[p][m] = queue[p][n] => m = n
        /\ ppc[p] # "accept" =>
            /\ cur[p][2] = p /\ Announced(cur[p])
            /\ \A n \in 1..Len(queue[p]) : queue[p][n] # cur[p]

\* The platform of announcement a has yet to receive a train on it.
Open(a) ==
    \/ \E n \in 1..Len(queue[a[2]]) : queue[a[2]][n] = a
    \/ ppc[a[2]] = "fd" /\ cur[a[2]] = a

\* newfd has been assigned for the train the master works on.
Assigned == smpc # "accept" /\ k < 3 /\ k < i

\* What is passed: each train once, after its announcements; and on a connection
\* that a platform still reads from, the first train is the one announced, given to
\* this platform. What newfd was before belongs to an earlier train: if its
\* platform still reads from it, the earlier train is still there, in front.
PassInv ==
    /\ \A a \in Announcements : \A n \in 1..Len(buf[a]) :
        /\ given[a[1]] # NoPlatform
        /\ smpc # "accept" => a[1] # nfd
        /\ given[buf[a][n]] # NoPlatform
        /\ smpc # "accept" => buf[a][n] # nfd
    /\ \A a, b \in Announcements : \A m \in 1..Len(buf[a]), n \in 1..Len(buf[b]) :
        buf[a][m] = buf[b][n] => a = b /\ m = n
    /\ \A a \in Announcements :
        Open(a) /\ buf[a] # <<>> => buf[a][1] = a[1] /\ given[a[1]] = a[2]
    /\ newfd # Bad =>
        /\ given[newfd[1]] # NoPlatform
        /\ IF Assigned
           THEN newfd = <<nfd, k>>
           ELSE /\ smpc # "accept" => newfd[1] # nfd
                /\ Open(newfd) => buf[newfd] # <<>>

Inv == TypeOK /\ MasterInv /\ QueueInv /\ PassInv /\ RightPlatform

-----------------------------------------------------------------------------
USE NTrainsAssumption DEF NoPlatform, NoTrain

LEMMA PlatformFacts == Platforms = {1, 2, 3}
  BY DEF Platforms

LEMMA AnnouncementFacts ==
    /\ \A a \in Announcements : a[1] \in Trains /\ a[2] \in Platforms /\ a = <<a[1], a[2]>>
    /\ \A t \in Trains, p \in Platforms : <<t, p>> \in Announcements
    /\ Bad \notin Announcements
  BY DEF Announcements, Bad, Trains, Platforms

LEMMA AppendFacts ==
    ASSUME NEW S, NEW q \in Seq(S), NEW x \in S
    PROVE  /\ Append(q, x) \in Seq(S) /\ Append(q, x) # <<>>
           /\ Len(Append(q, x)) = Len(q) + 1
           /\ \A n \in 1..Len(q) : Append(q, x)[n] = q[n]
           /\ Append(q, x)[Len(q) + 1] = x
  OBVIOUS

LEMMA TailFacts ==
    ASSUME NEW S, NEW q \in Seq(S), q # <<>>
    PROVE  /\ Tail(q) \in Seq(S)
           /\ \A n \in 1..Len(Tail(q)) : n + 1 \in 1..Len(q) /\ Tail(q)[n] = q[n + 1]
           /\ 1 \in 1..Len(q) /\ Head(q) = q[1] /\ Head(q) \in S
  OBVIOUS

LEMMA InitInv == Init => Inv
  <1> SUFFICES ASSUME Init PROVE Inv
    OBVIOUS
  <1>1. TypeOK
    BY DEF Init, TypeOK
  <1>2. MasterInv /\ RightPlatform
    BY DEF Init, MasterInv, RightPlatform, Serves
  <1>3. QueueInv
    BY DEF Init, QueueInv
  <1>4. PassInv
    BY DEF Init, PassInv, Bad
  <1> QED
    BY <1>1, <1>2, <1>3, <1>4 DEF Inv

(***************************************************************************)
(* One lemma per operation.                                                 *)
(***************************************************************************)
LEMMA ArriveInv ==
    ASSUME Inv, NEW t \in Trains, Arrive(t)
    PROVE  Inv'
  <1> USE DEF Inv, Arrive
  <1>1. TypeOK'
    BY AppendFacts DEF TypeOK, smVars, platVars
  <1>2. MasterInv'
    <2>1. \A n \in 1..Len(backlog) : backlog[n] \in Trains /\ backlog[n] # t
      BY DEF TypeOK, MasterInv
    <2>2. /\ Len(backlog') = Len(backlog) + 1 /\ Len(backlog) \in Nat
          /\ \A n \in 1..Len(backlog) : backlog'[n] = backlog[n]
          /\ backlog'[Len(backlog) + 1] = t
      BY AppendFacts DEF TypeOK
    <2>3. \A m, n \in 1..Len(backlog') : backlog'[m] = backlog'[n] => m = n
      BY <2>1, <2>2 DEF MasterInv
    <2>4. \A n \in 1..Len(backlog') :
            given[backlog'[n]] = NoPlatform /\ train'[backlog'[n]] # "away"
      <3> SUFFICES ASSUME NEW n \in 1..Len(backlog')
                   PROVE  given[backlog'[n]] = NoPlatform /\ train'[backlog'[n]] # "away"
        OBVIOUS
      <3>1. CASE n = Len(backlog) + 1
        BY <2>2, <3>1 DEF MasterInv, TypeOK
      <3>2. CASE n \in 1..Len(backlog)
        BY <2>1, <2>2, <3>2 DEF MasterInv, TypeOK
      <3> QED
        BY <2>2, <3>1, <3>2
    <2> QED
      BY <2>3, <2>4 DEF MasterInv, TypeOK, smVars
  <1>3. QueueInv' /\ PassInv' /\ RightPlatform'
    BY DEF QueueInv, Announced, PassInv, Open, Assigned, RightPlatform, Serves,
           smVars, platVars
  <1> QED
    BY <1>1, <1>2, <1>3

LEMMA TrainStepInv ==
    ASSUME Inv, NEW t \in Trains, TrainStep(t)
    PROVE  Inv'
  <1> USE DEF Inv, TrainStep
  <1>1. train' \in [Trains -> {"connected", "arrived", "left", "away"}]
        /\ \A u \in Trains : train'[u] = "away" <=> train[u] = "away"
    BY DEF TypeOK, Proceeds
  <1>2. TypeOK'
    BY <1>1 DEF TypeOK, smVars, platVars
  <1>3. MasterInv'
    <2>1. \A n \in 1..Len(backlog) : backlog[n] \in Trains
      BY DEF TypeOK
    <2> QED
      BY <1>1, <2>1 DEF MasterInv, smVars
  <1>4. QueueInv' /\ PassInv' /\ RightPlatform'
    BY DEF QueueInv, Announced, PassInv, Open, Assigned, RightPlatform, Serves,
           smVars, platVars
  <1> QED
    BY <1>2, <1>3, <1>4

LEMMA FreeFacts ==
    ASSUME Free # {}, NEW p, p = CHOOSE q \in Free : \A r \in Free : q <= r
    PROVE  p \in Platforms /\ available[p]
  <1>1. \E q \in Free : \A r \in Free : q <= r
    <2>1. Free \subseteq {1, 2, 3}
      BY PlatformFacts DEF Free
    <2>2. CASE 1 \in Free
      BY <2>1, <2>2
    <2>3. CASE 1 \notin Free /\ 2 \in Free
      BY <2>1, <2>3
    <2>4. CASE Free = {3}
      BY <2>4
    <2> QED
      BY <2>1, <2>2, <2>3, <2>4
  <1>2. p \in Free
    BY <1>1
  <1> QED
    BY <1>2 DEF Free

LEMMA SmAcceptInv ==
    ASSUME Inv, SmAccept
    PROVE  Inv'
  <1> USE DEF Inv
  <1> DEFINE t == Head(backlog)
  <1>0. /\ t \in Trains /\ given[t] = NoPlatform /\ train[t] # "away" /\ nfd' = t
        /\ 1 \in 1..Len(backlog) /\ t = backlog[1]
    BY TailFacts DEF SmAccept, TypeOK, MasterInv
  <1>1. k' \in Platforms /\ available[k']
    BY FreeFacts DEF SmAccept
  <1>2. given' = [given EXCEPT ![t] = k'] /\ available' = [available EXCEPT ![k'] = FALSE]
    BY <1>0 DEF SmAccept, Take
  <1>3. smpc = "accept" /\ smpc' = "cast" /\ i' = 1 /\ backlog' = Tail(backlog)
        /\ UNCHANGED <<train, newfd, up, queue, cur, ppc, tfd, buf>>
    BY DEF SmAccept, platVars
  <1> HIDE DEF t
  <1>4. TypeOK'
    BY <1>0, <1>1, <1>2, <1>3, TailFacts DEF TypeOK
  <1>5. MasterInv'
    <2>1. \A n \in 1..Len(Tail(backlog)) :
            /\ n + 1 \in 1..Len(backlog) /\ Tail(backlog)[n] = backlog[n + 1]
            /\ backlog[n + 1] \in Trains /\ backlog[n + 1] # t
      BY <1>0, TailFacts DEF SmAccept, TypeOK, MasterInv
    <2>2. \A n \in 1..Len(backlog') :
            given'[backlog'[n]] = NoPlatform /\ train'[backlog'[n]] # "away"
      BY <1>2, <1>3, <2>1 DEF TypeOK, MasterInv
    <2>3. \A m, n \in 1..Len(backlog') : backlog'[m] = backlog'[n] => m = n
      BY <1>3, <2>1 DEF MasterInv
    <2>4. \A u \in Trains : given[u] # k'
      BY <1>1 DEF TypeOK, MasterInv, Platforms
    <2>5. \A u \in Trains : given'[u] # NoPlatform => ~available'[given'[u]]
      BY <1>0, <1>1, <1>2, <2>4 DEF TypeOK, MasterInv, Platforms
    <2>6. \A u, v \in Trains : given'[u] = given'[v] /\ given'[u] # NoPlatform => u = v
      BY <1>0, <1>1, <1>2, <2>4 DEF TypeOK, MasterInv
    <2>7. \A u \in Trains : train'[u] = "away" => given'[u] = NoPlatform
      BY <1>0, <1>2, <1>3 DEF TypeOK, MasterInv
    <2>8. given'[nfd'] = k'
      BY <1>0, <1>2 DEF TypeOK
    <2> QED
      BY <1>3, <2>2, <2>3, <2>5, <2>6, <2>7, <2>8 DEF MasterInv
  <1>6. \A u \in Trains : given[u] # NoPlatform => given'[u] = given[u] /\ u # nfd'
    BY <1>0, <1>2 DEF TypeOK
  <1>7. QueueInv'
    <2>1. \A a \in Announcements : Announced(a) => Announced(a)'
      BY <1>3, <1>6, AnnouncementFacts DEF Announced
    <2>2. \A p \in Platforms :
            /\ \A n \in 1..Len(queue[p]) : queue[p][n] \in Announcements
            /\ ppc[p] # "accept" => cur[p] \in Announcements
      BY DEF TypeOK
    <2> QED
      BY <1>3, <2>1, <2>2 DEF QueueInv
  <1>8. PassInv'
    <2>1. \A a \in Announcements : Open(a)' <=> Open(a)
      BY <1>3 DEF Open
    <2>2. \A a \in Announcements : \A n \in 1..Len(buf[a]) : buf[a][n] \in Trains
      BY DEF TypeOK
    <2>3. \A a \in Announcements : \A n \in 1..Len(buf'[a]) :
            /\ given'[a[1]] # NoPlatform /\ a[1] # nfd'
            /\ given'[buf'[a][n]] # NoPlatform /\ buf'[a][n] # nfd'
      BY <1>3, <1>6, <2>2, AnnouncementFacts DEF PassInv
    <2>4. \A a \in Announcements :
            Open(a)' /\ buf'[a] # <<>> => buf'[a][1] = a[1] /\ given'[a[1]] = a[2]
      <3> SUFFICES ASSUME NEW a \in Announcements, Open(a), buf[a] # <<>>
                   PROVE  buf'[a][1] = a[1] /\ given'[a[1]] = a[2]
        BY <1>3, <2>1
      <3>1. buf[a][1] = a[1] /\ given[a[1]] = a[2]
        BY DEF PassInv
      <3> QED
        BY <1>3, <1>6, <3>1, AnnouncementFacts DEF Platforms
    <2>5. newfd' # Bad =>
            /\ given'[newfd'[1]] # NoPlatform
            /\ ~Assigned' /\ newfd'[1] # nfd' /\ (Open(newfd)' => buf'[newfd'] # <<>>)
      <3> SUFFICES ASSUME newfd # Bad
                   PROVE  /\ given'[newfd[1]] # NoPlatform /\ newfd[1] # nfd'
                          /\ ~Assigned' /\ (Open(newfd)' => buf[newfd] # <<>>)
        BY <1>3
      <3>1. newfd \in Announcements /\ ~Assigned
        BY <1>3 DEF TypeOK, Assigned
      <3>2. given[newfd[1]] # NoPlatform /\ (Open(newfd) => buf[newfd] # <<>>)
        BY <3>1 DEF PassInv
      <3>3. ~Assigned'
        BY <1>1, <1>3 DEF Assigned, Platforms
      <3> QED
        BY <1>3, <1>6, <2>1, <3>1, <3>2, <3>3, AnnouncementFacts
    <2> QED
      BY <1>3, <2>3, <2>4, <2>5 DEF PassInv
  <1>9. RightPlatform'
    BY <1>3, <1>6, PlatformFacts DEF RightPlatform, Serves
  <1> QED
    BY <1>4, <1>5, <1>7, <1>8, <1>9

LEMMA SmNoPlatformInv ==
    ASSUME Inv, SmNoPlatform
    PROVE  Inv'
  <1> USE DEF Inv
  <1>1. Head(backlog) \in Trains /\ Tail(backlog) \in Seq(Trains)
    BY TailFacts DEF SmNoPlatform, TypeOK
  <1>2. TypeOK'
    BY <1>1 DEF SmNoPlatform, TypeOK, platVars
  <1>3. MasterInv'
    <2>1. \A n \in 1..Len(Tail(backlog)) :
            n + 1 \in 1..Len(backlog) /\ Tail(backlog)[n] = backlog[n + 1]
      BY TailFacts DEF SmNoPlatform, TypeOK
    <2> QED
      BY <2>1 DEF SmNoPlatform, MasterInv
  <1>4. QueueInv' /\ PassInv' /\ RightPlatform'
    BY DEF SmNoPlatform, QueueInv, Announced, PassInv, Open, Assigned, RightPlatform,
           Serves, platVars
  <1> QED
    BY <1>2, <1>3, <1>4

LEMMA AnnounceInv ==
    ASSUME Inv, Announce
    PROVE  Inv'
  <1> USE DEF Inv
  <1>0. PICK a : a = <<nfd, i>>
    OBVIOUS
  <1>1. /\ smpc = "cast" /\ nfd \in Trains /\ k \in Platforms /\ i \in 1..2
        /\ given[nfd] = k /\ i \in Platforms /\ a \in Announcements /\ a # Bad
        /\ a[1] = nfd /\ a[2] = i
    <2>1. smpc = "cast" /\ nfd \in Trains /\ k \in Platforms /\ i \in 1..2 /\ given[nfd] = k
      BY DEF Announce, TypeOK, MasterInv
    <2>2. i \in Platforms
      BY <2>1, PlatformFacts
    <2>3. a \in Announcements /\ a # Bad /\ a[1] = nfd /\ a[2] = i
      BY <1>0, <2>1, <2>2, AnnouncementFacts
    <2> QED
      BY <2>1, <2>2, <2>3
  <1>2. /\ UNCHANGED <<train, backlog, nfd, k, available, given, up, cur, ppc, tfd, buf>>
        /\ i' = i + 1 /\ smpc' = (IF i < 2 THEN "cast" ELSE "pass")
        /\ i \in up => queue' = [queue EXCEPT ![i] = Append(@, a)]
        /\ i \notin up => queue' = queue
        /\ newfd' = (IF i = k THEN IF i \in up THEN a ELSE Bad ELSE newfd)
    BY <1>0, <1>1 DEF Announce, Chosen, RoundAfter
  <1>3. /\ \A p \in Platforms : queue[p] \in Seq(Announcements)
        /\ \A p \in Platforms : \A n \in 1..Len(queue[p]) : queue[p][n] \in Announcements
    BY DEF TypeOK
  <1>4. /\ \A p \in Platforms : p # i => queue'[p] = queue[p]
        /\ i \in up => queue'[i] = Append(queue[i], a)
        /\ i \notin up => queue'[i] = queue[i]
        /\ queue' \in [Platforms -> Seq(Announcements)]
    <2>1. queue \in [Platforms -> Seq(Announcements)] /\ Append(queue[i], a) \in Seq(Announcements)
      BY <1>1, AppendFacts DEF TypeOK
    <2> QED
      BY <1>1, <1>2, <2>1
  <1>5. TypeOK'
    <2>1. newfd' \in Announcements \union {Bad}
      BY <1>1, <1>2 DEF TypeOK
    <2>2. i' \in 1..3 /\ smpc' \in {"cast", "pass"} /\ (smpc' = "cast" => i' = 2)
      BY <1>1, <1>2
    <2> QED
      BY <1>1, <1>2, <1>4, <2>1, <2>2 DEF TypeOK
  <1>6. MasterInv'
    BY <1>1, <1>2 DEF MasterInv
  <1>7. /\ \A n \in 1..Len(queue[i]) : queue[i][n] # a
        /\ ppc[i] # "accept" => cur[i] # a
    BY <1>1 DEF QueueInv, Announced
  <1>8. QueueInv'
    <2>1. \A b \in Announcements : Announced(b) => Announced(b)'
      <3>1. \A b \in Announcements : b[2] \in {1, 2, 3}
        BY AnnouncementFacts, PlatformFacts
      <3>2. i' = i + 1 /\ nfd' = nfd /\ given' = given /\ smpc = "cast" /\ i \in {1, 2}
        BY <1>1, <1>2
      <3> QED
        BY <3>1, <3>2 DEF Announced
    <2>2. Announced(a)'
      BY <1>1, <1>2 DEF Announced, Platforms
    <2> SUFFICES ASSUME NEW p \in Platforms
                 PROVE  /\ \A n \in 1..Len(queue'[p]) :
                            p \in up /\ queue'[p][n][2] = p /\ Announced(queue[p][n])'
                        /\ \A m, n \in 1..Len(queue'[p]) :
                            queue'[p][m] = queue'[p][n] => m = n
                        /\ ppc[p] # "accept" =>
                            /\ cur[p][2] = p /\ Announced(cur[p])'
                            /\ \A n \in 1..Len(queue'[p]) : queue'[p][n] # cur[p]
      BY <1>2 DEF QueueInv
    <2>3. ppc[p] # "accept" => cur[p] \in Announcements /\ cur[p][2] = p /\ Announced(cur[p])'
      BY <1>2, <2>1 DEF TypeOK, QueueInv
    <2>4. CASE queue'[p] = queue[p]
      BY <1>2, <1>3, <2>1, <2>3, <2>4 DEF QueueInv
    <2>5. CASE p = i /\ i \in up
      <3>1. queue'[p] = Append(queue[p], a) /\ Len(queue[p]) \in Nat
        BY <1>3, <1>4, <2>5
      <3>2. /\ Len(queue'[p]) = Len(queue[p]) + 1
            /\ \A n \in 1..Len(queue[p]) : queue'[p][n] = queue[p][n]
            /\ queue'[p][Len(queue[p]) + 1] = a
        BY <1>1, <1>3, <3>1, AppendFacts
      <3>3. \A n \in 1..Len(queue'[p]) : n \in 1..Len(queue[p]) \/ n = Len(queue[p]) + 1
        BY <3>1, <3>2
      <3>4. \A n \in 1..Len(queue'[p]) :
                p \in up /\ queue'[p][n][2] = p /\ Announced(queue[p][n])'
        <4>1. \A n \in 1..Len(queue[p]) :
                /\ queue[p][n][2] = p /\ queue[p][n] \in Announcements
                /\ Announced(queue[p][n])
          BY <1>3, <2>5 DEF QueueInv
        <4>2. \A b \in Announcements :
                Announced(b) \/ b = a =>
                    /\ given'[b[1]] # NoPlatform
                    /\ smpc' = "cast" /\ b[1] = nfd' => b[2] < i'
          BY <2>1, <2>2 DEF Announced
        <4> SUFFICES ASSUME NEW n \in 1..Len(queue'[p])
                     PROVE  /\ queue'[p][n][2] = p
                            /\ given'[queue'[p][n][1]] # NoPlatform
                            /\ smpc' = "cast" /\ queue'[p][n][1] = nfd' => queue'[p][n][2] < i'
          BY <2>5 DEF Announced
        <4>3. queue'[p][n] \in Announcements /\ queue'[p][n][2] = p
              /\ (Announced(queue'[p][n]) \/ queue'[p][n] = a)
          BY <1>1, <2>5, <3>2, <3>3, <4>1
        <4> QED
          BY <4>2, <4>3
      <3>5. \A m, n \in 1..Len(queue'[p]) : queue'[p][m] = queue'[p][n] => m = n
        BY <1>7, <2>5, <3>2, <3>3 DEF QueueInv
      <3>6. ppc[p] # "accept" => \A n \in 1..Len(queue'[p]) : queue'[p][n] # cur[p]
        BY <1>7, <2>5, <3>2, <3>3 DEF QueueInv
      <3> QED
        BY <2>3, <3>4, <3>5, <3>6
    <2> QED
      BY <1>4, <2>4, <2>5
  <1>9. PassInv'
    <2>1. \A b \in Announcements : b # a => (Open(b)' <=> Open(b))
      <3> SUFFICES ASSUME NEW b \in Announcements, b # a PROVE Open(b)' <=> Open(b)
        OBVIOUS
      <3>1. CASE b[2] # i \/ i \notin up
        BY <1>2, <1>4, <3>1, AnnouncementFacts DEF Open
      <3>2. CASE b[2] = i /\ i \in up
        <4>1. queue'[i] = Append(queue[i], a) /\ Len(queue[i]) \in Nat
          BY <1>1, <1>3, <1>4, <3>2
        <4>2. /\ Len(queue'[i]) = Len(queue[i]) + 1
              /\ \A n \in 1..Len(queue[i]) : queue'[i][n] = queue[i][n]
              /\ queue'[i][Len(queue[i]) + 1] = a
          BY <1>1, <1>3, <4>1, AppendFacts
        <4>3. (\E n \in 1..Len(queue'[i]) : queue'[i][n] = b)
                <=> (\E n \in 1..Len(queue[i]) : queue[i][n] = b)
          BY <4>1, <4>2
        <4> QED
          BY <1>2, <3>2, <4>3 DEF Open
      <3> QED
        BY <3>1, <3>2
    <2>2. buf[a] = <<>>
      <3>1. \A n \in 1..Len(buf[a]) : FALSE
        BY <1>1 DEF PassInv
      <3> QED
        BY <1>1, <3>1 DEF TypeOK
    <2>3. \A b \in Announcements :
            Open(b)' /\ buf'[b] # <<>> => buf'[b][1] = b[1] /\ given'[b[1]] = b[2]
      BY <1>2, <2>1, <2>2 DEF PassInv
    <2>4. newfd' # Bad =>
            /\ given'[newfd'[1]] # NoPlatform
            /\ IF Assigned' THEN newfd' = <<nfd', k'>>
                            ELSE newfd'[1] # nfd' /\ (Open(newfd)' => buf'[newfd'] # <<>>)
      <3>1. CASE i = k
        BY <1>0, <1>1, <1>2, <3>1 DEF Assigned, Platforms
      <3>2. CASE i # k /\ newfd # Bad
        <4>1. newfd' = newfd /\ newfd \in Announcements /\ given[newfd[1]] # NoPlatform
          BY <1>2, <3>2 DEF TypeOK, PassInv
        <4>2. Assigned' <=> Assigned
          BY <1>1, <1>2, <3>2 DEF Assigned, Platforms
        <4>3. CASE Assigned
          BY <1>2, <3>2, <4>1, <4>2, <4>3 DEF PassInv
        <4>4. CASE ~Assigned
          <5>1. newfd[1] # nfd /\ (Open(newfd) => buf[newfd] # <<>>)
            BY <1>1, <3>2, <4>4 DEF PassInv
          <5>2. newfd # a
            BY <1>1, <5>1
          <5> QED
            BY <1>2, <2>1, <4>1, <4>2, <4>4, <5>1, <5>2
        <4> QED
          BY <4>3, <4>4
      <3> QED
        BY <1>2, <3>1, <3>2
    <2> QED
      BY <1>1, <1>2, <2>3, <2>4 DEF PassInv
  <1>10. RightPlatform'
    BY <1>2 DEF RightPlatform, Serves
  <1> QED
    BY <1>5, <1>6, <1>8, <1>9, <1>10

LEMMA PassActionInv ==
    ASSUME Inv, Pass
    PROVE  Inv'
  <1> USE DEF Inv
  <1>1. /\ smpc = "pass" /\ smpc' = "accept" /\ i' = 1 /\ i = 3
        /\ nfd \in Trains /\ k \in Platforms /\ given[nfd] = k
        /\ newfd \in Announcements \union {Bad}
        /\ UNCHANGED <<train, backlog, nfd, k, newfd, available, given, up, queue, cur,
                       ppc, tfd>>
    BY DEF Pass, TypeOK, MasterInv
  <1>2. /\ newfd = Bad => buf' = buf
        /\ newfd # Bad => /\ newfd \in Announcements
                          /\ buf' = [buf EXCEPT ![newfd] = Append(@, nfd)]
    BY <1>1 DEF Pass
  <1>3. \A a \in Announcements : buf[a] \in Seq(Trains) /\ Len(buf[a]) \in Nat
    BY DEF TypeOK
  <1>4. buf' \in [Announcements -> Seq(Trains)]
    <2>1. CASE newfd # Bad
      <3>1. Append(buf[newfd], nfd) \in Seq(Trains)
        BY <1>1, <1>2, <1>3, <2>1, AppendFacts
      <3> QED
        BY <1>2, <2>1, <3>1 DEF TypeOK
    <2> QED
      BY <1>2, <2>1 DEF TypeOK
  <1>5. TypeOK'
    BY <1>1, <1>4 DEF TypeOK
  <1>6. MasterInv' /\ RightPlatform'
    BY <1>1 DEF MasterInv, RightPlatform, Serves
  <1>7. QueueInv'
    <2>1. \A p \in Platforms : \A n \in 1..Len(queue[p]) :
            given[queue[p][n][1]] # NoPlatform
      BY DEF QueueInv, Announced
    <2>2. \A p \in Platforms : ppc[p] # "accept" => given[cur[p][1]] # NoPlatform
      BY DEF QueueInv, Announced
    <2> QED
      BY <1>1, <2>1, <2>2 DEF QueueInv, Announced
  <1>8. PassInv'
    <2>1. \A a \in Announcements : Open(a)' <=> Open(a)
      BY <1>1 DEF Open
    <2>2. \A a \in Announcements : a # newfd => buf'[a] = buf[a]
      BY <1>2 DEF TypeOK
    <2>3. newfd # Bad =>
            /\ Len(buf'[newfd]) = Len(buf[newfd]) + 1
            /\ \A n \in 1..Len(buf[newfd]) : buf'[newfd][n] = buf[newfd][n]
            /\ buf'[newfd][Len(buf[newfd]) + 1] = nfd
      <3> SUFFICES ASSUME newfd # Bad
                   PROVE  /\ Len(buf'[newfd]) = Len(buf[newfd]) + 1
                          /\ \A n \in 1..Len(buf[newfd]) : buf'[newfd][n] = buf[newfd][n]
                          /\ buf'[newfd][Len(buf[newfd]) + 1] = nfd
        OBVIOUS
      <3>1. buf'[newfd] = Append(buf[newfd], nfd)
        BY <1>2 DEF TypeOK
      <3> QED
        BY <1>1, <1>2, <1>3, <3>1, AppendFacts
    \* an element of the new sequences is an old one, or the train that was passed
    <2>4. \A a \in Announcements : \A n \in 1..Len(buf'[a]) :
            \/ n \in 1..Len(buf[a]) /\ buf'[a][n] = buf[a][n]
            \/ a = newfd /\ n = Len(buf[a]) + 1 /\ buf'[a][n] = nfd
      <3> SUFFICES ASSUME NEW a \in Announcements, NEW n \in 1..Len(buf'[a])
                   PROVE  \/ n \in 1..Len(buf[a]) /\ buf'[a][n] = buf[a][n]
                          \/ a = newfd /\ n = Len(buf[a]) + 1 /\ buf'[a][n] = nfd
        OBVIOUS
      <3>1. CASE a # newfd
        BY <2>2, <3>1
      <3>2. CASE a = newfd
        BY <1>3, <2>3, <3>2, AnnouncementFacts
      <3> QED
        BY <3>1, <3>2
    <2>5. \A a \in Announcements : \A n \in 1..Len(buf[a]) :
            given[a[1]] # NoPlatform /\ given[buf[a][n]] # NoPlatform /\ buf[a][n] # nfd
      BY <1>1 DEF PassInv
    <2>6. newfd # Bad => given[newfd[1]] # NoPlatform
      BY DEF PassInv
    <2>7. \A a \in Announcements : \A n \in 1..Len(buf'[a]) :
            given[a[1]] # NoPlatform /\ given[buf'[a][n]] # NoPlatform
      BY <1>1, <2>4, <2>5, <2>6, AnnouncementFacts, PlatformFacts
    <2>8. \A a, b \in Announcements : \A m \in 1..Len(buf'[a]), n \in 1..Len(buf'[b]) :
            buf'[a][m] = buf'[b][n] => a = b /\ m = n
      <3>1. \A a, b \in Announcements : \A m \in 1..Len(buf[a]), n \in 1..Len(buf[b]) :
            buf[a][m] = buf[b][n] => a = b /\ m = n
        BY DEF PassInv
      <3> QED
        BY <2>4, <2>5, <3>1
    <2>9. \A a \in Announcements :
            Open(a) /\ buf'[a] # <<>> => buf'[a][1] = a[1] /\ given[a[1]] = a[2]
      <3> SUFFICES ASSUME NEW a \in Announcements, Open(a), buf'[a] # <<>>
                   PROVE  buf'[a][1] = a[1] /\ given[a[1]] = a[2]
        OBVIOUS
      <3>1. buf[a] # <<>> => buf[a][1] = a[1] /\ given[a[1]] = a[2]
        BY DEF PassInv
      <3>2. CASE a # newfd
        BY <2>2, <3>1, <3>2
      <3>3. CASE a = newfd /\ buf[a] # <<>>
        <4>1. 1 \in 1..Len(buf[a])
          BY <1>3, <3>3
        <4> QED
          BY <2>3, <3>1, <3>3, <4>1, AnnouncementFacts
      <3>4. CASE a = newfd /\ buf[a] = <<>>
        <4>1. newfd # Bad
          BY <3>4, AnnouncementFacts
        <4>2. newfd = <<nfd, k>>
          BY <3>4, <4>1 DEF PassInv
        <4>3. buf'[a][1] = nfd
          BY <2>3, <3>4, <4>1
        <4> QED
          BY <1>1, <3>4, <4>2, <4>3
      <3> QED
        BY <3>2, <3>3, <3>4
    <2>10. newfd # Bad => buf'[newfd] # <<>>
      BY <1>2, <1>3, <2>3
    <2>11. newfd' # Bad =>
            /\ given'[newfd'[1]] # NoPlatform
            /\ ~Assigned' /\ buf'[newfd'] # <<>>
      BY <1>1, <2>6, <2>10 DEF Assigned
    <2> QED
      BY <1>1, <2>1, <2>7, <2>8, <2>9, <2>11 DEF PassInv
  <1> QED
    BY <1>5, <1>6, <1>7, <1>8

LEMMA PlatStartInv ==
    ASSUME Inv, NEW p \in Platforms, PlatStart(p)
    PROVE  Inv'
  <1> USE DEF Inv, PlatStart
  <1>1. TypeOK' /\ MasterInv'
    BY DEF TypeOK, MasterInv, smVars, platVars
  <1>2. QueueInv' /\ PassInv' /\ RightPlatform'
    BY DEF QueueInv, Announced, PassInv, Open, Assigned, RightPlatform, Serves,
           smVars, platVars
  <1> QED
    BY <1>1, <1>2

LEMMA PlatAcceptInv ==
    ASSUME Inv, NEW p \in Platforms, PlatAccept(p)
    PROVE  Inv'
  <1> USE DEF Inv
  <1>1. /\ UNCHANGED <<train, backlog, smpc, nfd, k, i, newfd, available, given, up, tfd, buf>>
        /\ ppc[p] = "accept" /\ queue[p] # <<>>
        /\ \A q \in Platforms : queue[q] \in Seq(Announcements)
    BY DEF PlatAccept, TypeOK, smVars
  <1>2. /\ Tail(queue[p]) \in Seq(Announcements)
        /\ \A n \in 1..Len(Tail(queue[p])) :
            n + 1 \in 1..Len(queue[p]) /\ Tail(queue[p])[n] = queue[p][n + 1]
        /\ 1 \in 1..Len(queue[p]) /\ Head(queue[p]) = queue[p][1]
        /\ Head(queue[p]) \in Announcements
    BY <1>1, TailFacts
  <1>3. /\ cur' = [cur EXCEPT ![p] = queue[p][1]]
        /\ queue' = [queue EXCEPT ![p] = Tail(queue[p])]
        /\ ppc' = [ppc EXCEPT ![p] = "fd"]
    BY <1>2 DEF PlatAccept
  <1>4. p \in up
    BY <1>2 DEF QueueInv
  <1>5. TypeOK'
    BY <1>1, <1>2, <1>3, <1>4 DEF TypeOK
  <1>6. MasterInv'
    BY <1>1 DEF MasterInv
  <1>7. /\ \A q \in Platforms : q # p =>
            queue'[q] = queue[q] /\ cur'[q] = cur[q] /\ ppc'[q] = ppc[q]
        /\ queue'[p] = Tail(queue[p]) /\ cur'[p] = queue[p][1] /\ ppc'[p] = "fd"
    BY <1>3 DEF TypeOK
  <1>8. QueueInv'
    <2> SUFFICES ASSUME NEW q \in Platforms
                 PROVE  /\ \A n \in 1..Len(queue'[q]) :
                            q \in up /\ queue'[q][n][2] = q /\ Announced(queue'[q][n])
                        /\ \A m, n \in 1..Len(queue'[q]) :
                            queue'[q][m] = queue'[q][n] => m = n
                        /\ ppc'[q] # "accept" =>
                            /\ cur'[q][2] = q /\ Announced(cur'[q])
                            /\ \A n \in 1..Len(queue'[q]) : queue'[q][n] # cur'[q]
      BY <1>1 DEF QueueInv, Announced
    <2>1. CASE q # p
      BY <1>7, <2>1 DEF QueueInv
    <2>2. CASE q = p
      <3>1. \A n \in 1..Len(queue'[p]) :
              n + 1 \in 1..Len(queue[p]) /\ queue'[p][n] = queue[p][n + 1] /\ n + 1 # 1
        BY <1>2, <1>7
      <3>2. \A m, n \in 1..Len(queue'[p]) : queue'[p][m] = queue'[p][n] => m = n
        <4>1. \A m, n \in 1..Len(queue[p]) : queue[p][m] = queue[p][n] => m = n
          BY DEF QueueInv
        <4> QED
          BY <3>1, <4>1
      <3>3. /\ \A n \in 1..Len(queue'[p]) :
                p \in up /\ queue'[p][n][2] = p /\ Announced(queue'[p][n])
            /\ queue[p][1][2] = p /\ Announced(queue[p][1])
        BY <1>2, <3>1 DEF QueueInv
      <3>4. \A n \in 1..Len(queue'[p]) : queue'[p][n] # queue[p][1]
        BY <1>2, <3>1 DEF QueueInv
      <3> QED
        BY <1>7, <2>2, <3>2, <3>3, <3>4
    <2> QED
      BY <2>1, <2>2
  <1>9. PassInv'
    <2>1. \A a \in Announcements : Open(a)' => Open(a)
      <3> SUFFICES ASSUME NEW a \in Announcements, Open(a)' PROVE Open(a)
        OBVIOUS
      <3>1. CASE a[2] # p
        BY <1>7, <3>1, AnnouncementFacts DEF Open
      <3>2. CASE a[2] = p
        <4>1. (\E n \in 1..Len(queue'[p]) : queue'[p][n] = a) \/ cur'[p] = a
          BY <3>2 DEF Open
        <4>2. \E n \in 1..Len(queue[p]) : queue[p][n] = a
          BY <1>2, <1>7, <4>1
        <4> QED
          BY <3>2, <4>2 DEF Open
      <3> QED
        BY <3>1, <3>2
    <2>2. newfd # Bad => newfd \in Announcements
      BY DEF TypeOK
    <2>3. newfd' # Bad => (Open(newfd)' => Open(newfd))
      BY <1>1, <2>1, <2>2
    <2> QED
      BY <1>1, <2>1, <2>3 DEF PassInv, Assigned
  <1>10. RightPlatform'
    BY <1>1, <1>7 DEF RightPlatform, Serves
  <1> QED
    BY <1>5, <1>6, <1>8, <1>9, <1>10

LEMMA PlatReceiveInv ==
    ASSUME Inv, NEW p \in Platforms, PlatReceive(p)
    PROVE  Inv'
  <1> USE DEF Inv
  <1>0. PICK c : c = cur[p]
    OBVIOUS
  <1>1. /\ UNCHANGED <<train, backlog, smpc, nfd, k, i, newfd, available, given, up, queue, cur>>
        /\ ppc[p] = "fd" /\ buf[c] # <<>>
        /\ c \in Announcements /\ buf[c] \in Seq(Trains)
    BY <1>0 DEF PlatReceive, TypeOK, smVars
  <1>2. /\ Tail(buf[c]) \in Seq(Trains)
        /\ \A n \in 1..Len(Tail(buf[c])) :
            n + 1 \in 1..Len(buf[c]) /\ Tail(buf[c])[n] = buf[c][n + 1]
        /\ 1 \in 1..Len(buf[c]) /\ Head(buf[c]) = buf[c][1]
        /\ buf[c][1] \in Trains
    BY <1>1, TailFacts
  <1>3. /\ tfd' = [tfd EXCEPT ![p] = buf[c][1]]
        /\ buf' = [buf EXCEPT ![c] = Tail(buf[c])]
        /\ ppc' = [ppc EXCEPT ![p] = "first"]
    BY <1>0, <1>1, <1>2 DEF PlatReceive
  <1>4. c[2] = p /\ Open(c) /\ given[buf[c][1]] = p
    <2>1. c[2] = p
      BY <1>0, <1>1 DEF QueueInv
    <2>2. Open(c)
      BY <1>0, <1>1, <2>1 DEF Open
    <2>3. buf[c][1] = c[1] /\ given[c[1]] = c[2]
      BY <1>1, <2>2 DEF PassInv
    <2> QED
      BY <2>1, <2>2, <2>3
  <1>5. TypeOK'
    BY <1>1, <1>2, <1>3 DEF TypeOK
  <1>6. MasterInv'
    BY <1>1 DEF MasterInv
  <1>7. \A q \in Platforms : (ppc'[q] = "accept" <=> ppc[q] = "accept")
    BY <1>1, <1>3 DEF TypeOK
  <1>8. QueueInv'
    BY <1>1, <1>7 DEF QueueInv, Announced
  <1>9. PassInv'
    <2>1. \A a \in Announcements : a # c => (Open(a)' => Open(a))
      <3> SUFFICES ASSUME NEW a \in Announcements, a # c, Open(a)' PROVE Open(a)
        OBVIOUS
      <3> QED
        BY <1>0, <1>1, <1>3, AnnouncementFacts DEF Open, TypeOK
    <2>2. ~Open(c)'
      <3>1. \A n \in 1..Len(queue[p]) : queue[p][n] # c
        BY <1>0, <1>1 DEF QueueInv
      <3>2. ppc'[p] = "first"
        BY <1>3 DEF TypeOK
      <3> QED
        BY <1>1, <1>4, <3>1, <3>2 DEF Open
    <2>3. /\ \A a \in Announcements : a # c => buf'[a] = buf[a]
          /\ buf'[c] = Tail(buf[c])
      BY <1>1, <1>3 DEF TypeOK
    <2>4. \A a \in Announcements : \A n \in 1..Len(buf'[a]) :
            \/ a # c /\ n \in 1..Len(buf[a]) /\ buf'[a][n] = buf[a][n]
            \/ a = c /\ n + 1 \in 1..Len(buf[a]) /\ buf'[a][n] = buf[a][n + 1]
      BY <1>2, <2>3
    <2>5. \A a \in Announcements : \A n \in 1..Len(buf'[a]) :
            /\ given[a[1]] # NoPlatform
            /\ smpc # "accept" => a[1] # nfd
            /\ given[buf'[a][n]] # NoPlatform
            /\ smpc # "accept" => buf'[a][n] # nfd
      <3> SUFFICES ASSUME NEW a \in Announcements, NEW n \in 1..Len(buf'[a])
                   PROVE  /\ given[a[1]] # NoPlatform
                          /\ smpc # "accept" => a[1] # nfd
                          /\ given[buf'[a][n]] # NoPlatform
                          /\ smpc # "accept" => buf'[a][n] # nfd
        OBVIOUS
      <3>1. PICK x \in 1..Len(buf[a]) : buf'[a][n] = buf[a][x]
        BY <2>4
      <3> QED
        BY <3>1 DEF PassInv
    <2>6. \A a, b \in Announcements : \A m \in 1..Len(buf'[a]), n \in 1..Len(buf'[b]) :
            buf'[a][m] = buf'[b][n] => a = b /\ m = n
      <3> SUFFICES ASSUME NEW a \in Announcements, NEW b \in Announcements,
                          NEW m \in 1..Len(buf'[a]), NEW n \in 1..Len(buf'[b]),
                          buf'[a][m] = buf'[b][n]
                   PROVE  a = b /\ m = n
        OBVIOUS
      <3>1. \A x \in 1..Len(buf[a]), y \in 1..Len(buf[b]) :
                buf[a][x] = buf[b][y] => a = b /\ x = y
        BY DEF PassInv
      <3>2. PICK x \in 1..Len(buf[a]) :
                buf'[a][m] = buf[a][x] /\ x = IF a = c THEN m + 1 ELSE m
        BY <2>4
      <3>3. PICK y \in 1..Len(buf[b]) :
                buf'[b][n] = buf[b][y] /\ y = IF b = c THEN n + 1 ELSE n
        BY <2>4
      <3>4. a = b /\ x = y
        BY <3>1, <3>2, <3>3
      <3> QED
        BY <3>2, <3>3, <3>4
    <2>7. \A a \in Announcements :
            Open(a)' /\ buf'[a] # <<>> => buf'[a][1] = a[1] /\ given[a[1]] = a[2]
      BY <2>1, <2>2, <2>3 DEF PassInv
    <2>8. newfd # Bad => newfd \in Announcements
      BY DEF TypeOK
    <2>9. newfd # Bad /\ ~Assigned => (Open(newfd)' => buf'[newfd] # <<>>)
      <3> SUFFICES ASSUME newfd # Bad, ~Assigned, Open(newfd)' PROVE buf'[newfd] # <<>>
        OBVIOUS
      <3>1. newfd' = newfd /\ newfd \in Announcements
        BY <1>1, <2>8
      <3>2. newfd # c
        BY <1>1, <2>2, <3>1
      <3>3. Open(newfd)
        BY <2>1, <3>1, <3>2
      <3> QED
        BY <2>3, <3>1, <3>2, <3>3 DEF PassInv
    <2>10. newfd' # Bad =>
            /\ given'[newfd'[1]] # NoPlatform
            /\ IF Assigned' THEN newfd' = <<nfd', k'>>
               ELSE /\ smpc' # "accept" => newfd'[1] # nfd'
                    /\ Open(newfd)' => buf'[newfd'] # <<>>
      BY <1>1, <2>9 DEF PassInv, Assigned
    <2> QED
      BY <1>1, <2>5, <2>6, <2>7, <2>10 DEF PassInv
  <1>10. RightPlatform'
    BY <1>1, <1>3, <1>4 DEF RightPlatform, Serves, TypeOK
  <1> QED
    BY <1>5, <1>6, <1>8, <1>9, <1>10

LEMMA PlatReadInv ==
    ASSUME Inv, NEW p \in Platforms, PlatFirst(p) \/ PlatSecond(p)
    PROVE  Inv'
  <1> USE DEF Inv
  <1>1. /\ UNCHANGED <<train, backlog, smpc, nfd, k, i, newfd, available, given, up, queue, cur,
                       tfd, buf>>
        /\ ppc[p] \in {"first", "second"}
        /\ \E s \in {"second", "accept"} : ppc' = [ppc EXCEPT ![p] = s]
    BY DEF PlatFirst, PlatSecond, smVars
  <1>2. \A q \in Platforms :
          /\ ppc'[q] # "accept" => ppc[q] # "accept"
          /\ ppc'[q] = "fd" <=> ppc[q] = "fd"
          /\ ppc'[q] \in {"first", "second"} => ppc[q] \in {"first", "second"}
          /\ ppc'[q] \in {"accept", "fd", "first", "second"}
    BY <1>1 DEF TypeOK
  <1>3. TypeOK'
    <2>1. ppc' \in [Platforms -> {"accept", "fd", "first", "second"}]
      BY <1>1 DEF TypeOK
    <2> QED
      BY <1>1, <1>2, <2>1 DEF TypeOK
  <1>4. MasterInv'
    BY <1>1 DEF MasterInv
  <1>5. QueueInv' /\ RightPlatform'
    BY <1>1, <1>2 DEF QueueInv, Announced, RightPlatform, Serves
  <1>6. PassInv'
    <2>1. \A a \in Announcements : Open(a)' <=> Open(a)
      BY <1>1, <1>2, AnnouncementFacts DEF Open
    <2>2. newfd # Bad => newfd \in Announcements
      BY DEF TypeOK
    <2>3. newfd' # Bad => (Open(newfd)' => Open(newfd))
      BY <1>1, <2>1, <2>2
    <2> QED
      BY <1>1, <2>1, <2>3 DEF PassInv, Assigned
  <1> QED
    BY <1>3, <1>4, <1>5, <1>6

LEMMA NextInv ==
    ASSUME Inv, [Next]_vars
    PROVE  Inv'
  <1>1. CASE Next
    <2>1. ASSUME NEW t \in Trains, Arrive(t) \/ TrainStep(t) PROVE Inv'
      BY <2>1, ArriveInv, TrainStepInv
    <2>2. CASE SmStep
      BY <2>2, SmAcceptInv, SmNoPlatformInv, AnnounceInv, PassActionInv DEF SmStep
    <2>3. ASSUME NEW p \in Platforms, PlatStart(p) \/ PlatStep(p) PROVE Inv'
      BY <2>3, PlatStartInv, PlatAcceptInv, PlatReceiveInv, PlatReadInv DEF PlatStep
    <2> QED
      BY <1>1, <2>1, <2>2, <2>3 DEF Next
  <1>2. CASE UNCHANGED vars
    BY <1>2 DEF Inv, TypeOK, MasterInv, QueueInv, Announced, PassInv, Open, Assigned,
                RightPlatform, Serves, vars, smVars, platVars
  <1> QED
    BY <1>1, <1>2

\* The inductive invariant: OneTrainEach alone says nothing of what is still queued or
\* in newfd, and so is not preserved when sm.c passes a train on (sm.c:122).
THEOREM Invariance == Spec => []Inv
  <1>1. Inv /\ [Next]_vars => Inv'
    BY NextInv
  <1> QED
    BY InitInv, <1>1, PTL DEF Spec

\* However many trains come, a platform only ever serves the train it was given to,
\* and no two trains are given one, although sm.c announces to two of the three
\* platforms and passes the third train on a connection made for an earlier one
\* (sm.c:61-73,108-122).
THEOREM PlatformsAreExclusive == Spec => []OneTrainEach
  <1>1. Inv => OneTrainEach
    BY DEF Inv, MasterInv, PassInv, OneTrainEach, NoCollision
  <1> QED
    BY <1>1, Invariance, PTL

\* However many trains come, a platform that waits for a train given to another
\* platform waits for ever: nothing that anybody does ends its recv (plat.c:120-125).
THEOREM StrandedPlatformsStay == Spec => StrandedForEver
  <1> DEFINE Stays == \A p \in Platforms : Stranded(p) => Stranded(p)'
  <1>1. ASSUME Inv, [Next]_vars PROVE Stays
    <2> SUFFICES ASSUME NEW p \in Platforms, Stranded(p) PROVE Stranded(p)'
      OBVIOUS
    <2>0. /\ ppc[p] = "fd" /\ cur[p] \in Announcements /\ cur[p][1] \in Trains
          /\ cur[p][2] = p /\ Open(cur[p])
          /\ given[cur[p][1]] # NoPlatform /\ given[cur[p][1]] # p
          /\ cur[p][1] # nfd \/ smpc = "accept"
      BY AnnouncementFacts, <1>1 DEF Stranded, Inv, TypeOK, QueueInv, Announced, Open
    <2>1. buf[cur[p]] = <<>>
      BY <1>1, <2>0 DEF Inv, PassInv
    <2>2. ASSUME NEW t \in Trains, Arrive(t) \/ TrainStep(t) PROVE Stranded(p)'
      BY <2>0, <2>2 DEF Stranded, Arrive, TrainStep, smVars, platVars
    <2>3. CASE SmAccept
      <3>1. given' = [given EXCEPT ![nfd'] = k'] /\ cur' = cur /\ ppc' = ppc
        BY <2>3 DEF SmAccept, platVars
      <3>2. nfd' \in Trains /\ given[nfd'] = NoPlatform
        BY <1>1, <2>3, TailFacts DEF SmAccept, Inv, TypeOK, MasterInv
      <3> QED
        BY <1>1, <2>0, <3>1, <3>2 DEF Stranded, Inv, TypeOK
    <2>4. CASE SmNoPlatform \/ Announce \/ Pass
      BY <2>0, <2>4 DEF Stranded, SmNoPlatform, Announce, Pass, platVars
    <2>5. ASSUME NEW q \in Platforms, PlatStart(q) \/ PlatAccept(q) PROVE Stranded(p)'
      BY <1>1, <2>0, <2>5 DEF Stranded, PlatStart, PlatAccept, smVars, platVars, Inv, TypeOK
    <2>6. ASSUME NEW q \in Platforms, PlatReceive(q) PROVE Stranded(p)'
      BY <1>1, <2>0, <2>1, <2>6 DEF Stranded, PlatReceive, smVars, Inv, TypeOK
    <2>7. ASSUME NEW q \in Platforms, PlatFirst(q) \/ PlatSecond(q) PROVE Stranded(p)'
      BY <1>1, <2>0, <2>7 DEF Stranded, PlatFirst, PlatSecond, smVars, Inv, TypeOK
    <2>8. CASE UNCHANGED vars
      BY <2>0, <2>8 DEF Stranded, vars, smVars, platVars
    <2> QED
      BY <1>1, <2>2, <2>3, <2>4, <2>5, <2>6, <2>7, <2>8 DEF Next, SmStep, PlatStep
  <1>2. Inv /\ [Next]_vars => [Stays]_vars
    BY <1>1
  <1> QED
    BY <1>2, Invariance, PTL DEF Spec, StrandedForEver
=============================================================================
