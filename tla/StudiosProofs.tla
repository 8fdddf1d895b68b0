--------------------------- MODULE StudiosProofs ---------------------------
(***************************************************************************)
(* Proofs about Studios: the payments are right for every set of numbers,   *)
(* every choice of running processes and wishes, and any number of starts.  *)
(***************************************************************************)
EXTENDS Studios, FiniteSetTheorems, TLAPS

\* The connections of f, and the state and payments of one, as functions of the value
\* that conns has before or after a step.
Names(f) == {cn \in Resources \X (1..MaxJobs) : cn[2] <= Len(f[cn[1]])}
S(f, cn) == f[cn[1]][cn[2]].st
P(f, cn) == f[cn[1]][cn[2]].pays

\* The connection whose answer the director waits for.
Asked == <<Target, Len(conns[Target])>>

\* The types, with connection names that do not depend on the state yet.
Types ==
    /\ jobs \in Seq(Wishes)
    /\ typed \in 0..MaxJobs
    /\ dpc \in {"down", "accept", "registry", "item", "port", "perm", "producer",
                "hello", "send"}
    /\ dpc \notin {"down", "accept"} => wish \in Wishes
    /\ stage \in Kinds
    /\ idx \in Nat
    /\ starts \in 0..MaxStarts
    /\ dreg \in [Kinds -> {"none", "backlog", "open", "asked"}]
    /\ rpc \in [Kinds -> {"accept", "serve", "dead"}]
    /\ left \in [Kinds -> Nat]
    /\ broken \in [Kinds -> BOOLEAN]
    /\ conns \in [Resources -> Seq(Conn)]
    /\ ppc \in {"accept", "recv", "typing"}
    /\ accp \in [Kinds -> Seq(Resources \X Nat)]
    /\ pbox \in Seq(Resources \X Nat)

\* The job in hand is a list without repeated numbers, the director's index is within it
\* while a question is open, and a registry that serves expects a question.
JobInv ==
    /\ wish.sets_list \in Seq(Ids) /\ wish.actor_list \in Seq(Ids)
    /\ NoRepeat(wish.sets_list) /\ NoRepeat(wish.actor_list)
    /\ idx >= 1
    /\ dpc \in {"port", "perm"} => idx <= Count(stage)
    /\ \A k \in Kinds : rpc[k] = "serve" => left[k] >= 1

\* The director will still connect to r for the job in hand.
ToAsk(r) ==
    /\ dpc \in {"registry", "item", "port", "perm"}
    /\ \E p \in 1..Count(r[1]) :
        /\ ListOf(r[1])[p] = r[2]
        /\ \/ r[1] = stage /\ (p > idx \/ (p = idx /\ dpc # "perm"))
           \/ r[1] = "actor" /\ stage = "set"

\* No set or actor gets more connections than jobs were typed: what is connected, still
\* to be connected and in the backlog is covered by a job each.
BudgetInv ==
    \A r \in Resources :
        Len(conns[r]) + Len(jobs) + (IF ToAsk(r) THEN 1 ELSE 0) <= typed

\* Every connection: only the one the director waits for is unanswered; permission went to
\* the first and third; only permissions are paid; one that is not paid yet is remembered,
\* with the producer or just read; and with the producer once the job is over.
ConnInv ==
    \A cn \in Names(conns) :
        /\ cn[1] \in Running
        /\ S(conns, cn) = "asked" => dpc = "perm" /\ cn = Asked
        /\ S(conns, cn) \in {"granted", "paid"} => cn[2] \in {1, 3}
        /\ P(conns, cn) > 0 => S(conns, cn) = "paid"
        /\ S(conns, cn) = "granted" =>
            \/ \E k \in Kinds : cn \in Elements(accp[k])
            \/ cn \in Elements(pbox)
            \/ dpc = "perm" /\ cn = Asked
        /\ S(conns, cn) = "granted" /\ dpc \in {"accept", "down"} => cn \in Elements(pbox)

\* The connection the director waits for is new to it and to the producer.
PermInv ==
    dpc = "perm" =>
        /\ Asked \in Names(conns)
        /\ \A k \in Kinds : Asked \notin Elements(accp[k])
        /\ Asked \notin Elements(pbox)
        /\ S(conns, Asked) \in {"asked", "denied", "granted"}

\* What the array q of one kind holds, with the connections f and the producer's box.
Remembered(q, k, f, box) ==
    /\ NoRepeat(q)
    /\ \A i \in 1..Len(q) :
        /\ q[i] \in Names(f) /\ q[i][1][1] = k
        /\ S(f, q[i]) \in {"granted", "paid"}
    /\ \A i, j \in 1..Len(q) : i < j =>
        /\ P(f, q[i]) >= P(f, q[j])
        /\ q[j] \in Elements(box) => q[i] \in Elements(box)

\* (that the producer has a prefix of each array is what keeps the older ones ahead)
AccpInv == \A k \in Kinds : Remembered(accp[k], k, conns, pbox)

\* The producer has connections with permission only, and only while it receives; it has
\* none of this round before the director sends.
BoxInv ==
    /\ \A cn \in Elements(pbox) : cn \in Names(conns) /\ S(conns, cn) \in {"granted", "paid"}
    /\ ppc # "recv" => pbox = <<>>
    /\ dpc = "send" => ppc = "recv" /\ pbox = <<>>

Permissions == ConnInv /\ PermInv /\ AccpInv /\ BoxInv

Inv == Types /\ JobInv /\ BudgetInv /\ Permissions

-----------------------------------------------------------------------------
(***************************************************************************)
(* Sequences and connections.                                               *)
(***************************************************************************)
LEMMA AppendFacts ==
    ASSUME NEW T, NEW q \in Seq(T), NEW x \in T
    PROVE  /\ Append(q, x) \in Seq(T)
           /\ Len(q) \in Nat /\ Len(Append(q, x)) = Len(q) + 1
           /\ \A i \in 1..Len(q) : Append(q, x)[i] = q[i]
           /\ Append(q, x)[Len(q) + 1] = x
           /\ \A i \in 1..(Len(q) + 1) : i \in 1..Len(q) \/ i = Len(q) + 1
  OBVIOUS

LEMMA ElementsAppend ==
    ASSUME NEW T, NEW q \in Seq(T), NEW x \in T
    PROVE  Elements(Append(q, x)) = Elements(q) \union {x}
  BY DEF Elements

LEMMA ElementsConcat ==
    ASSUME NEW T, NEW q \in Seq(T), NEW s \in Seq(T)
    PROVE  /\ q \o s \in Seq(T)
           /\ \A x : x \in Elements(q \o s) <=> x \in Elements(q) \/ x \in Elements(s)
  <1>1. q \o s \in Seq(T) /\ Len(q \o s) = Len(q) + Len(s) /\ Len(q) \in Nat /\ Len(s) \in Nat
    OBVIOUS
  <1>2. /\ \A i \in 1..Len(q) : (q \o s)[i] = q[i]
        /\ \A i \in 1..Len(s) : (q \o s)[Len(q) + i] = s[i]
    OBVIOUS
  <1>3. ASSUME NEW x, x \in Elements(q \o s) PROVE x \in Elements(q) \/ x \in Elements(s)
    <2>1. PICK i \in 1..Len(q \o s) : x = (q \o s)[i]
      BY <1>3 DEF Elements
    <2>2. CASE i \in 1..Len(q)
      BY <1>2, <2>1, <2>2 DEF Elements
    <2>3. CASE i \notin 1..Len(q)
      <3>1. PICK j \in 1..Len(s) : i = Len(q) + j
        <4>1. i - Len(q) \in 1..Len(s) /\ i = Len(q) + (i - Len(q))
          BY <1>1, <2>3
        <4> QED
          BY <4>1
      <3> QED
        BY <1>2, <2>1, <3>1 DEF Elements
    <2> QED
      BY <2>2, <2>3
  <1>4. ASSUME NEW x, x \in Elements(q) PROVE x \in Elements(q \o s)
    <2>1. PICK i \in 1..Len(q) : x = q[i]
      BY <1>4 DEF Elements
    <2>2. i \in 1..Len(q \o s)
      BY <1>1
    <2> QED
      BY <1>2, <2>1, <2>2 DEF Elements
  <1>5. ASSUME NEW x, x \in Elements(s) PROVE x \in Elements(q \o s)
    <2>1. PICK i \in 1..Len(s) : x = s[i]
      BY <1>5 DEF Elements
    <2>2. Len(q) + i \in 1..Len(q \o s)
      BY <1>1
    <2> QED
      BY <1>2, <2>1, <2>2 DEF Elements
  <1> QED
    BY <1>1, <1>3, <1>4, <1>5

LEMMA EmptyElements == Len(<<>>) = 0 /\ Elements(<<>>) = {}
  BY DEF Elements

LEMMA SeqFromFunction ==
    ASSUME NEW T, NEW m \in Nat, NEW q \in [1..m -> T]
    PROVE  q \in Seq(T) /\ Len(q) = m
  OBVIOUS

LEMMA NamesAre ==
    ASSUME NEW f
    PROVE  /\ \A r, n : <<r, n>> \in Names(f) <=>
                           r \in Resources /\ n \in 1..MaxJobs /\ n <= Len(f[r])
           /\ \A cn \in Names(f) : /\ cn = <<cn[1], cn[2]>> /\ cn[1] \in Resources
                                   /\ cn[2] \in 1..MaxJobs /\ cn[2] <= Len(f[cn[1]])
                                   /\ cn \in Resources \X Nat
  BY BoundsAssumption DEF Names

\* A connection name of a well-typed f is a record of its sequence.
LEMMA NamedConn ==
    ASSUME NEW f \in [Resources -> Seq(Conn)], NEW cn \in Names(f)
    PROVE  /\ cn[2] \in 1..Len(f[cn[1]]) /\ f[cn[1]][cn[2]] \in Conn
           /\ S(f, cn) \in {"asked", "denied", "granted", "paid", "lost"}
           /\ P(f, cn) \in Nat
  <1>1. cn[1] \in Resources /\ cn[2] \in 1..MaxJobs /\ cn[2] <= Len(f[cn[1]])
    BY NamesAre
  <1>2. f[cn[1]] \in Seq(Conn) /\ Len(f[cn[1]]) \in Nat
    BY <1>1
  <1>3. cn[2] \in 1..Len(f[cn[1]])
    BY <1>1, <1>2, BoundsAssumption
  <1>4. f[cn[1]][cn[2]] \in Conn
    BY <1>2, <1>3
  <1> QED
    BY <1>3, <1>4 DEF S, P, Conn

\* The director ends: who waits for a payment on a connection that the producer does not
\* have is lost.
LostOf(f, box) ==
    [r \in Resources |-> [n \in 1..Len(f[r]) |->
        IF f[r][n].st = "granted" /\ <<r, n>> \notin Elements(box)
        THEN [f[r][n] EXCEPT !.st = "lost"] ELSE f[r][n]]]

LEMMA LostConns ==
    ASSUME NEW f \in [Resources -> Seq(Conn)], NEW box, NEW g, g = LostOf(f, box)
    PROVE  /\ g \in [Resources -> Seq(Conn)]
           /\ \A r \in Resources : Len(g[r]) = Len(f[r])
           /\ Names(g) = Names(f)
           /\ \A cn \in Names(f) :
                /\ P(g, cn) = P(f, cn)
                /\ S(g, cn) = IF S(f, cn) = "granted" /\ cn \notin Elements(box)
                              THEN "lost" ELSE S(f, cn)
  <1>1. \A r \in Resources : f[r] \in Seq(Conn) /\ Len(f[r]) \in Nat
    OBVIOUS
  <1>2. \A r \in Resources : \A n \in 1..Len(f[r]) : f[r][n] \in Conn
    BY <1>1
  <1>3. \A r \in Resources : \A n \in 1..Len(f[r]) :
            /\ g[r][n] \in Conn
            /\ g[r][n].pays = f[r][n].pays
            /\ g[r][n].st = IF f[r][n].st = "granted" /\ <<r, n>> \notin Elements(box)
                            THEN "lost" ELSE f[r][n].st
    BY <1>2 DEF Conn, LostOf
  <1>4. \A r \in Resources : g[r] \in Seq(Conn) /\ Len(g[r]) = Len(f[r])
    BY <1>1, <1>3 DEF LostOf
  <1>5. g \in [Resources -> Seq(Conn)]
    BY <1>4 DEF LostOf
  <1>6. Names(g) = Names(f)
    BY <1>4 DEF Names
  <1>7. ASSUME NEW cn \in Names(f)
        PROVE  /\ P(g, cn) = P(f, cn)
               /\ S(g, cn) = IF S(f, cn) = "granted" /\ cn \notin Elements(box)
                             THEN "lost" ELSE S(f, cn)
    <2>1. cn[1] \in Resources /\ cn[2] \in 1..Len(f[cn[1]]) /\ cn = <<cn[1], cn[2]>>
      BY NamesAre, NamedConn
    <2> QED
      BY <1>3, <2>1 DEF S, P
  <1> QED
    BY <1>4, <1>5, <1>6, <1>7

\* The producer pays on the connections it has.
LEMMA PaidConn ==
    ASSUME NEW c \in Conn
    PROVE  /\ Paid(c) \in Conn
           /\ Paid(c).pays = c.pays + 1
           /\ Paid(c).st = IF c.st = "granted" THEN "paid" ELSE c.st
  BY DEF Conn, Paid

PaidOf(f, box) ==
    [r \in Resources |-> [n \in 1..Len(f[r]) |->
        IF <<r, n>> \in Elements(box) THEN Paid(f[r][n]) ELSE f[r][n]]]

LEMMA PaidConns ==
    ASSUME NEW f \in [Resources -> Seq(Conn)], NEW box, NEW g, g = PaidOf(f, box)
    PROVE  /\ g \in [Resources -> Seq(Conn)]
           /\ \A r \in Resources : Len(g[r]) = Len(f[r])
           /\ Names(g) = Names(f)
           /\ \A cn \in Names(f) :
                /\ P(g, cn) = IF cn \in Elements(box) THEN P(f, cn) + 1 ELSE P(f, cn)
                /\ S(g, cn) = IF S(f, cn) = "granted" /\ cn \in Elements(box)
                              THEN "paid" ELSE S(f, cn)
  <1>1. \A r \in Resources : f[r] \in Seq(Conn) /\ Len(f[r]) \in Nat
    OBVIOUS
  <1>2. \A r \in Resources : \A n \in 1..Len(f[r]) : f[r][n] \in Conn
    BY <1>1
  <1>3. \A r \in Resources : \A n \in 1..Len(f[r]) :
            /\ g[r][n] \in Conn
            /\ g[r][n].pays = IF <<r, n>> \in Elements(box) THEN f[r][n].pays + 1
                              ELSE f[r][n].pays
            /\ g[r][n].st = IF f[r][n].st = "granted" /\ <<r, n>> \in Elements(box)
                            THEN "paid" ELSE f[r][n].st
    <2> SUFFICES ASSUME NEW r \in Resources, NEW n \in 1..Len(f[r])
                 PROVE  /\ g[r][n] \in Conn
                        /\ g[r][n].pays = IF <<r, n>> \in Elements(box) THEN f[r][n].pays + 1
                                          ELSE f[r][n].pays
                        /\ g[r][n].st = IF f[r][n].st = "granted" /\ <<r, n>> \in Elements(box)
                                        THEN "paid" ELSE f[r][n].st
      OBVIOUS
    <2>1. CASE <<r, n>> \in Elements(box)
      <3>1. g[r][n] = Paid(f[r][n]) /\ f[r][n] \in Conn
        BY <1>2, <2>1 DEF PaidOf
      <3> QED
        BY <2>1, <3>1, PaidConn
    <2>2. CASE <<r, n>> \notin Elements(box)
      BY <1>2, <2>2 DEF PaidOf
    <2> QED
      BY <2>1, <2>2
  <1>4. \A r \in Resources : g[r] \in Seq(Conn) /\ Len(g[r]) = Len(f[r])
    <2> SUFFICES ASSUME NEW r \in Resources PROVE g[r] \in Seq(Conn) /\ Len(g[r]) = Len(f[r])
      OBVIOUS
    <2>1. \A n \in 1..Len(f[r]) : g[r][n] \in Conn
      BY <1>3
    <2>2. g[r] = [n \in 1..Len(f[r]) |-> g[r][n]]
      BY DEF PaidOf
    <2>3. g[r] \in [1..Len(f[r]) -> Conn]
      BY <2>1, <2>2
    <2>4. Len(f[r]) \in Nat
      BY <1>1
    <2> QED
      BY <2>3, <2>4, SeqFromFunction
  <1>5. g \in [Resources -> Seq(Conn)]
    BY <1>4 DEF PaidOf
  <1>6. Names(g) = Names(f)
    BY <1>4 DEF Names
  <1>7. ASSUME NEW cn \in Names(f)
        PROVE  /\ P(g, cn) = IF cn \in Elements(box) THEN P(f, cn) + 1 ELSE P(f, cn)
               /\ S(g, cn) = IF S(f, cn) = "granted" /\ cn \in Elements(box)
                             THEN "paid" ELSE S(f, cn)
    <2>1. cn[1] \in Resources /\ cn[2] \in 1..Len(f[cn[1]]) /\ cn = <<cn[1], cn[2]>>
      BY NamesAre, NamedConn
    <2> QED
      BY <1>3, <2>1 DEF S, P
  <1> QED
    BY <1>4, <1>5, <1>6, <1>7

\* A set or actor answers the connection it accepted last.
AnsweredOf(f, r, a) == [f EXCEPT ![r][Len(f[r])].st = a]

LEMMA AnsweredConns ==
    ASSUME NEW f \in [Resources -> Seq(Conn)], NEW r \in Resources, f[r] # <<>>,
           NEW a \in {"granted", "denied"}, NEW g, g = AnsweredOf(f, r, a)
    PROVE  /\ g \in [Resources -> Seq(Conn)]
           /\ \A u \in Resources : Len(g[u]) = Len(f[u])
           /\ Names(g) = Names(f)
           /\ \A cn \in Names(f) :
                /\ P(g, cn) = P(f, cn)
                /\ S(g, cn) = IF cn = <<r, Len(f[r])>> THEN a ELSE S(f, cn)
  <1>1. \A u \in Resources : f[u] \in Seq(Conn) /\ Len(f[u]) \in Nat
    OBVIOUS
  <1>2. \A u \in Resources : \A n \in 1..Len(f[u]) : f[u][n] \in Conn
    BY <1>1
  <1> PICK q : q = f[r]
    OBVIOUS
  <1> PICK l : l = Len(q)
    OBVIOUS
  <1> PICK e : e = [q[l] EXCEPT !.st = a]
    OBVIOUS
  <1> PICK h : h = [q EXCEPT ![l] = e]
    OBVIOUS
  <1>3. q \in Seq(Conn) /\ l \in 1..Len(q) /\ q[l] \in Conn
    BY <1>1, <1>2
  <1>4. e \in Conn /\ e.pays = q[l].pays /\ e.st = a
    BY <1>3 DEF Conn
  <1>5. /\ h \in Seq(Conn) /\ Len(h) = Len(q)
        /\ \A n \in 1..Len(q) : h[n] = IF n = l THEN e ELSE q[n]
    BY <1>3, <1>4
  <1>6. g = [f EXCEPT ![r] = h]
    BY DEF AnsweredOf
  <1>7. g[r] = h /\ \A u \in Resources : u # r => g[u] = f[u]
    BY <1>6
  <1>8. /\ \A u \in Resources : Len(g[u]) = Len(f[u])
        /\ g \in [Resources -> Seq(Conn)]
    BY <1>5, <1>6, <1>7
  <1>9. ASSUME NEW u \in Resources, NEW n \in 1..Len(f[u])
        PROVE  /\ g[u][n].pays = f[u][n].pays
               /\ g[u][n].st = IF u = r /\ n = Len(f[r]) THEN a ELSE f[u][n].st
    <2>1. CASE u = r
      BY <1>4, <1>5, <1>7, <2>1
    <2> QED
      BY <1>7, <2>1
  <1>10. Names(g) = Names(f)
    BY <1>8 DEF Names
  <1>11. ASSUME NEW cn \in Names(f)
        PROVE  /\ P(g, cn) = P(f, cn)
               /\ S(g, cn) = IF cn = <<r, Len(f[r])>> THEN a ELSE S(f, cn)
    <2>1. cn[1] \in Resources /\ cn[2] \in 1..Len(f[cn[1]]) /\ cn = <<cn[1], cn[2]>>
      BY NamesAre, NamedConn
    <2>2. cn = <<r, Len(f[r])>> <=> cn[1] = r /\ cn[2] = Len(f[r])
      BY <2>1
    <2> QED
      BY <1>9, <2>1, <2>2 DEF S, P
  <1> QED
    BY <1>8, <1>10, <1>11

\* The director connects to a set or actor.
MoreOf(f, r) == [f EXCEPT ![r] = Append(@, [st |-> "asked", pays |-> 0])]

LEMMA NewConn ==
    ASSUME NEW f \in [Resources -> Seq(Conn)], NEW r \in Resources, Len(f[r]) < MaxJobs,
           NEW g, g = MoreOf(f, r)
    PROVE  /\ g \in [Resources -> Seq(Conn)]
           /\ Len(g[r]) = Len(f[r]) + 1
           /\ \A u \in Resources : u # r => Len(g[u]) = Len(f[u])
           /\ <<r, Len(f[r]) + 1>> \notin Names(f)
           /\ Names(g) = Names(f) \union {<<r, Len(f[r]) + 1>>}
           /\ \A cn \in Names(f) : P(g, cn) = P(f, cn) /\ S(g, cn) = S(f, cn)
           /\ P(g, <<r, Len(f[r]) + 1>>) = 0 /\ S(g, <<r, Len(f[r]) + 1>>) = "asked"
  <1> DEFINE new == [st |-> "asked", pays |-> 0]
  <1>0. new \in Conn /\ new.st = "asked" /\ new.pays = 0
    BY DEF Conn
  <1> HIDE DEF new
  <1>1. \A u \in Resources : f[u] \in Seq(Conn) /\ Len(f[u]) \in Nat
    OBVIOUS
  <1>2. g[r] = Append(f[r], new) /\ \A u \in Resources : u # r => g[u] = f[u]
    BY DEF new, MoreOf
  <1>3. /\ Len(g[r]) = Len(f[r]) + 1 /\ g[r][Len(f[r]) + 1] = new
        /\ \A n \in 1..Len(f[r]) : g[r][n] = f[r][n]
        /\ g[r] \in Seq(Conn)
    BY <1>0, <1>1, <1>2, AppendFacts
  <1>4. g \in [Resources -> Seq(Conn)]
    BY <1>0, <1>1 DEF new, MoreOf
  <1>5. <<r, Len(f[r]) + 1>> \notin Names(f)
    BY <1>1, NamesAre
  <1>6. ASSUME NEW cn \in Names(f)
        PROVE  cn \in Names(g) /\ P(g, cn) = P(f, cn) /\ S(g, cn) = S(f, cn)
    <2>1. /\ cn[1] \in Resources /\ cn[2] \in 1..Len(f[cn[1]]) /\ cn = <<cn[1], cn[2]>>
          /\ cn[2] \in 1..MaxJobs
      BY NamesAre, NamedConn
    <2>2. g[cn[1]][cn[2]] = f[cn[1]][cn[2]] /\ cn[2] <= Len(g[cn[1]])
      BY <1>1, <1>2, <1>3, <2>1
    <2>3. cn \in Names(g)
      BY <2>2 DEF Names
    <2> QED
      BY <2>2, <2>3 DEF S, P
  <1>7. <<r, Len(f[r]) + 1>> \in Names(g)
    <2>1. Len(f[r]) + 1 \in 1..MaxJobs /\ Len(f[r]) + 1 <= Len(g[r])
      BY <1>1, <1>3, BoundsAssumption
    <2> QED
      BY <2>1, NamesAre
  <1>8. ASSUME NEW cn \in Names(g), cn \notin Names(f) PROVE cn = <<r, Len(f[r]) + 1>>
    <2>1. /\ cn = <<cn[1], cn[2]>> /\ cn[1] \in Resources /\ cn[2] \in 1..MaxJobs
          /\ cn[2] <= Len(g[cn[1]])
      BY NamesAre
    <2>2. ~(cn[2] <= Len(f[cn[1]]))
      BY <1>8, <2>1, NamesAre
    <2>3. cn[1] = r /\ cn[2] = Len(f[r]) + 1
      BY <1>1, <1>2, <1>3, <2>1, <2>2
    <2> QED
      BY <2>1, <2>3
  <1>9. Names(g) = Names(f) \union {<<r, Len(f[r]) + 1>>}
    BY <1>6, <1>7, <1>8
  <1>10. P(g, <<r, Len(f[r]) + 1>>) = 0 /\ S(g, <<r, Len(f[r]) + 1>>) = "asked"
    BY <1>0, <1>3 DEF P, S
  <1> QED
    BY <1>2, <1>3, <1>4, <1>5, <1>6, <1>9, <1>10

-----------------------------------------------------------------------------
(***************************************************************************)
(* What each step does to the permissions and payments.                     *)
(***************************************************************************)
LEMMA TargetFacts ==
    ASSUME Types, JobInv, dpc \in {"port", "perm"}
    PROVE  Target \in Resources /\ Target[1] = stage
  <1>1. stage \in Kinds /\ ListOf(stage) \in Seq(Ids)
    BY DEF Types, JobInv, ListOf
  <1>2. idx \in 1..Len(ListOf(stage))
    BY <1>1 DEF Types, JobInv, Count
  <1>3. ListOf(stage)[idx] \in Ids
    BY <1>1, <1>2
  <1> QED
    BY <1>1, <1>3 DEF Target, Resources

\* Steps of the script, the registries and the producer's user, and stuttering.
LEMMA QuietOther ==
    ASSUME Permissions, UNCHANGED <<conns, accp, pbox, dpc, wish, stage, idx>>,
           ppc' = "recv" <=> ppc = "recv"
    PROVE  Permissions'
  <1>1. Asked' = Asked
    BY DEF Asked, Target, ListOf
  <1>2. ConnInv'
    BY <1>1 DEF Permissions, ConnInv
  <1>3. PermInv'
    BY <1>1 DEF Permissions, PermInv
  <1>4. AccpInv'
    BY DEF Permissions, AccpInv
  <1>5. BoxInv'
    BY DEF Permissions, BoxInv
  <1> QED
    BY <1>2, <1>3, <1>4, <1>5 DEF Permissions

\* Steps of the director between the answers of the sets and actors.
LEMMA QuietDirector ==
    ASSUME Permissions, UNCHANGED <<conns, accp, pbox, ppc>>,
           dpc # "perm", dpc' \notin {"perm", "send"},
           dpc' \in {"accept", "down"} => dpc \in {"accept", "down"}
    PROVE  Permissions'
  <1>2. ConnInv'
    BY DEF Permissions, ConnInv
  <1>3. PermInv'
    BY DEF PermInv
  <1>4. AccpInv'
    BY DEF Permissions, AccpInv
  <1>5. BoxInv'
    BY DEF Permissions, BoxInv
  <1> QED
    BY <1>2, <1>3, <1>4, <1>5 DEF Permissions

LEMMA DiesStep ==
    ASSUME Types, Permissions, DirectorDies, dpc \notin {"perm", "send"}
    PROVE  Permissions'
  <1>1. /\ conns' \in [Resources -> Seq(Conn)]
        /\ Names(conns') = Names(conns)
        /\ \A cn \in Names(conns) :
                /\ P(conns', cn) = P(conns, cn)
                /\ S(conns', cn) = IF S(conns, cn) = "granted" /\ cn \notin Elements(pbox)
                                   THEN "lost" ELSE S(conns, cn)
    <2>1. conns \in [Resources -> Seq(Conn)]
      BY DEF Types
    <2>2. conns' = LostOf(conns, pbox)
      BY DEF DirectorDies, LostOf
    <2> QED
      BY <2>1, <2>2, LostConns
  <1>2. /\ dpc' = "down" /\ pbox' = pbox /\ ppc' = ppc
        /\ \A k \in Kinds : accp'[k] = <<>>
    BY DEF DirectorDies, prodVars
  <1>3. \A cn \in Names(conns) : P(conns, cn) \in Nat
    BY NamedConn DEF Types
  <1>4. ConnInv'
    BY <1>1, <1>2, <1>3 DEF Permissions, ConnInv
  <1>5. PermInv'
    BY <1>2 DEF PermInv
  <1>6. AccpInv'
    BY <1>2, EmptyElements DEF AccpInv, Remembered, NoRepeat
  <1>7. BoxInv'
    BY <1>1, <1>2 DEF Permissions, BoxInv
  <1> QED
    BY <1>4, <1>5, <1>6, <1>7 DEF Permissions

LEMMA ConnectStep ==
    ASSUME Types, JobInv, Permissions, ConnectTarget, Len(conns[Target]) < MaxJobs
    PROVE  Permissions'
  <1>t. Target \in Resources
    BY TargetFacts DEF ConnectTarget
  <1>0. PICK new : new = <<Target, Len(conns[Target]) + 1>>
    OBVIOUS
  <1>1. /\ conns' \in [Resources -> Seq(Conn)]
        /\ Len(conns'[Target]) = Len(conns[Target]) + 1
        /\ new \notin Names(conns)
        /\ Names(conns') = Names(conns) \union {new}
        /\ \A cn \in Names(conns) : P(conns', cn) = P(conns, cn) /\ S(conns', cn) = S(conns, cn)
        /\ P(conns', new) = 0 /\ S(conns', new) = "asked"
    <2>1. conns \in [Resources -> Seq(Conn)]
      BY DEF Types
    <2>2. conns' = MoreOf(conns, Target)
      BY DEF ConnectTarget, MoreOf
    <2> QED
      BY <1>t, <1>0, <2>1, <2>2, NewConn
  <1>2. /\ dpc = "port" /\ dpc' = "perm" /\ accp' = accp /\ pbox' = pbox /\ ppc' = ppc
        /\ wish' = wish /\ stage' = stage /\ idx' = idx /\ Target \in Running
    BY DEF ConnectTarget, prodVars
  <1>3. Target' = Target
    BY <1>2 DEF Target, ListOf
  <1>4. Asked' = new
    BY <1>0, <1>1, <1>3 DEF Asked
  <1>5. \A k \in Kinds : \A cn \in Elements(accp[k]) : cn \in Names(conns)
    BY DEF Permissions, AccpInv, Remembered, Elements
  <1>6. \A cn \in Elements(pbox) : cn \in Names(conns)
    BY DEF Permissions, BoxInv
  <1>7. new[1] = Target
    BY <1>0
  <1>8. ConnInv'
    <2> SUFFICES ASSUME NEW cn \in Names(conns')
                 PROVE  /\ cn[1] \in Running
                        /\ S(conns', cn) = "asked" => cn = new
                        /\ S(conns', cn) \in {"granted", "paid"} => cn[2] \in {1, 3}
                        /\ P(conns', cn) > 0 => S(conns', cn) = "paid"
                        /\ S(conns', cn) = "granted" =>
                            \/ \E k \in Kinds : cn \in Elements(accp[k])
                            \/ cn \in Elements(pbox)
      BY <1>2, <1>4 DEF ConnInv
    <2>1. CASE cn = new
      BY <1>1, <1>2, <1>7, <2>1
    <2>2. CASE cn \in Names(conns)
      BY <1>1, <1>2, <2>2 DEF Permissions, ConnInv
    <2> QED
      BY <1>1, <2>1, <2>2
  <1>9. PermInv'
    BY <1>1, <1>2, <1>4, <1>5, <1>6 DEF PermInv
  <1>10. AccpInv'
    <2>1. \A k \in Kinds : \A i \in 1..Len(accp[k]) : accp[k][i] \in Names(conns)
      BY DEF Permissions, AccpInv, Remembered
    <2>2. \A k \in Kinds : \A i \in 1..Len(accp[k]) :
            /\ accp[k][i] \in Names(conns')
            /\ S(conns', accp[k][i]) = S(conns, accp[k][i])
            /\ P(conns', accp[k][i]) = P(conns, accp[k][i])
      BY <1>1, <2>1
    <2> QED
      BY <1>2, <2>2 DEF Permissions, AccpInv, Remembered
  <1>11. BoxInv'
    BY <1>1, <1>2 DEF Permissions, BoxInv
  <1> QED
    BY <1>8, <1>9, <1>10, <1>11 DEF Permissions

LEMMA PermStep ==
    ASSUME Types, JobInv, Permissions, ReadPerm
    PROVE  Permissions'
  <1>0. PICK cn : cn = Asked
    OBVIOUS
  <1>1. /\ dpc = "perm" /\ dpc' = "item" /\ conns' = conns /\ pbox' = pbox /\ ppc' = ppc
        /\ S(conns, cn) # "asked"
        /\ accp' = IF S(conns, cn) = "granted" THEN [accp EXCEPT ![stage] = Append(@, cn)]
                   ELSE accp
    BY <1>0 DEF ReadPerm, Remember, St, S, Asked, prodVars
  <1>t. /\ stage \in Kinds /\ cn[1][1] = stage
        /\ accp \in [Kinds -> Seq(Resources \X Nat)]
    BY <1>0, <1>1, TargetFacts DEF Types, Asked
  <1>2. /\ cn \in Names(conns) /\ \A k \in Kinds : cn \notin Elements(accp[k])
        /\ cn \notin Elements(pbox) /\ S(conns, cn) \in {"denied", "granted"}
    BY <1>0, <1>1 DEF Permissions, PermInv
  <1>3. cn \in Resources \X Nat
    BY <1>2, NamesAre
  <1>4. \A k \in Kinds : \A x : x \in Elements(accp[k]) => x \in Elements(accp'[k])
    <2> SUFFICES ASSUME NEW k \in Kinds
                 PROVE  \A x : x \in Elements(accp[k]) => x \in Elements(accp'[k])
      OBVIOUS
    <2>1. accp[k] \in Seq(Resources \X Nat)
      BY <1>t
    <2>2. accp'[k] = accp[k] \/ accp'[k] = Append(accp[k], cn)
      BY <1>1, <1>t
    <2>3. Elements(Append(accp[k], cn)) = Elements(accp[k]) \union {cn}
      BY <1>3, <2>1, ElementsAppend
    <2> QED
      BY <2>2, <2>3
  <1>5. S(conns, cn) = "granted" => \E k \in Kinds : cn \in Elements(accp'[k])
    <2> SUFFICES ASSUME S(conns, cn) = "granted" PROVE cn \in Elements(accp'[stage])
      BY <1>t
    <2>1. accp'[stage] = Append(accp[stage], cn) /\ accp[stage] \in Seq(Resources \X Nat)
      BY <1>1, <1>t
    <2> QED
      BY <2>1, <1>3, ElementsAppend
  <1>6. ConnInv'
    <2> SUFFICES ASSUME NEW x \in Names(conns)
                 PROVE  /\ x[1] \in Running
                        /\ S(conns, x) # "asked"
                        /\ S(conns, x) \in {"granted", "paid"} => x[2] \in {1, 3}
                        /\ P(conns, x) > 0 => S(conns, x) = "paid"
                        /\ S(conns, x) = "granted" =>
                            \/ \E k \in Kinds : x \in Elements(accp'[k])
                            \/ x \in Elements(pbox)
      BY <1>1 DEF ConnInv
    <2>1. CASE x = cn
      BY <1>0, <1>1, <1>5, <2>1 DEF Permissions, ConnInv
    <2>2. CASE x # cn
      BY <1>0, <1>1, <1>4, <2>2 DEF Permissions, ConnInv
    <2> QED
      BY <2>1, <2>2
  <1>7. PermInv'
    BY <1>1 DEF PermInv
  <1>8. AccpInv'
    <2>1. CASE S(conns, cn) # "granted"
      BY <1>1, <2>1 DEF Permissions, AccpInv
    <2>2. CASE S(conns, cn) = "granted"
      <3>1. PICK q : q = accp[stage]
        OBVIOUS
      <3>2. /\ q \in Seq(Resources \X Nat) /\ accp'[stage] = Append(q, cn)
            /\ \A k \in Kinds : k # stage => accp'[k] = accp[k]
        BY <1>1, <1>t, <2>2, <3>1
      <3>3. /\ Len(q) \in Nat /\ Len(Append(q, cn)) = Len(q) + 1
            /\ \A i \in 1..Len(q) : Append(q, cn)[i] = q[i]
            /\ Append(q, cn)[Len(q) + 1] = cn
            /\ \A i \in 1..(Len(q) + 1) : i \in 1..Len(q) \/ i = Len(q) + 1
        BY <1>3, <3>2, AppendFacts
      <3>4. P(conns, cn) \in Nat /\ ~(P(conns, cn) > 0)
        BY <1>2, <2>2, NamedConn DEF Types, Permissions, ConnInv
      <3>5. \A i \in 1..Len(q) : q[i] # cn /\ P(conns, q[i]) \in Nat
        <4>1. \A i \in 1..Len(accp[stage]) : accp[stage][i] \in Names(conns)
          BY <1>t DEF Permissions, AccpInv, Remembered
        <4>2. \A x \in Names(conns) : P(conns, x) \in Nat
          BY NamedConn DEF Types
        <4>3. \A i \in 1..Len(accp[stage]) : accp[stage][i] \in Elements(accp[stage])
          BY DEF Elements
        <4> QED
          BY <1>t, <1>2, <3>1, <4>1, <4>2, <4>3
      <3>6. Remembered(q, stage, conns, pbox)
        BY <1>t, <3>1 DEF Permissions, AccpInv
      <3>7. NoRepeat(Append(q, cn))
        BY <3>3, <3>5, <3>6 DEF NoRepeat, Remembered
      <3>8. \A i \in 1..Len(Append(q, cn)) :
                /\ Append(q, cn)[i] \in Names(conns) /\ Append(q, cn)[i][1][1] = stage
                /\ S(conns, Append(q, cn)[i]) \in {"granted", "paid"}
        BY <1>t, <1>2, <2>2, <3>3, <3>6 DEF Remembered
      <3>9. ASSUME NEW i \in 1..Len(Append(q, cn)), NEW j \in 1..Len(Append(q, cn)), i < j
            PROVE  /\ P(conns, Append(q, cn)[i]) >= P(conns, Append(q, cn)[j])
                   /\ Append(q, cn)[j] \in Elements(pbox) =>
                        Append(q, cn)[i] \in Elements(pbox)
        <4>1. i \in 1..Len(q) /\ Append(q, cn)[i] = q[i]
          BY <3>3, <3>9
        <4>2. CASE j \in 1..Len(q)
          BY <3>3, <3>6, <3>9, <4>1, <4>2 DEF Remembered
        <4>3. CASE j = Len(q) + 1
          BY <1>2, <3>3, <3>4, <3>5, <4>1, <4>3
        <4> QED
          BY <3>3, <4>2, <4>3
      <3>10. Remembered(Append(q, cn), stage, conns, pbox)
        BY <3>7, <3>8, <3>9 DEF Remembered
      <3> QED
        BY <1>1, <3>2, <3>10 DEF Permissions, AccpInv
    <2> QED
      BY <2>1, <2>2
  <1>9. BoxInv'
    BY <1>1 DEF Permissions, BoxInv
  <1> QED
    BY <1>6, <1>7, <1>8, <1>9 DEF Permissions

LEMMA SendStep ==
    ASSUME Types, Permissions, SendToProducer
    PROVE  Permissions'
  <1>1. /\ dpc = "send" /\ dpc' = "accept" /\ conns' = conns /\ accp' = accp /\ ppc' = ppc
        /\ pbox' = accp["set"] \o accp["actor"]
    BY DEF SendToProducer, PassOn
  <1>2. ppc = "recv" /\ Elements(pbox) = {}
    BY <1>1, EmptyElements DEF Permissions, BoxInv
  <1>3. \A x : x \in Elements(pbox') <=> \E k \in Kinds : x \in Elements(accp[k])
    <2>1. "set" \in Kinds /\ "actor" \in Kinds
          /\ \A k \in Kinds : k = "set" \/ k = "actor"
      BY DEF Kinds
    <2>2. accp["set"] \in Seq(Resources \X Nat) /\ accp["actor"] \in Seq(Resources \X Nat)
      BY <2>1 DEF Types
    <2>3. \A x : x \in Elements(accp["set"] \o accp["actor"]) <=>
                    x \in Elements(accp["set"]) \/ x \in Elements(accp["actor"])
      BY <2>2, ElementsConcat
    <2> QED
      BY <1>1, <2>1, <2>3
  <1>4. ConnInv'
    BY <1>1, <1>2, <1>3 DEF Permissions, ConnInv
  <1>5. PermInv'
    BY <1>1 DEF PermInv
  <1>6. AccpInv'
    <2>1. \A k \in Kinds : \A i \in 1..Len(accp[k]) : accp[k][i] \in Elements(pbox')
      <3>1. \A k \in Kinds : \A i \in 1..Len(accp[k]) : accp[k][i] \in Elements(accp[k])
        BY DEF Elements
      <3> QED
        BY <1>3, <3>1
    <2> QED
      BY <1>1, <2>1 DEF Permissions, AccpInv, Remembered
  <1>7. BoxInv'
    <2>1. \A cn \in Elements(pbox') : cn \in Names(conns) /\ S(conns, cn) \in {"granted", "paid"}
      BY <1>3 DEF Permissions, AccpInv, Remembered, Elements
    <2> QED
      BY <1>1, <1>2, <2>1 DEF BoxInv
  <1> QED
    BY <1>4, <1>5, <1>6, <1>7 DEF Permissions

LEMMA HelloStep ==
    ASSUME Permissions, ProducerAccept
    PROVE  Permissions'
  <1>1. /\ dpc = "hello" /\ dpc' = "send" /\ ppc = "accept" /\ ppc' = "recv"
        /\ conns' = conns /\ accp' = accp /\ pbox' = pbox
    BY DEF ProducerAccept
  <1>2. ConnInv'
    BY <1>1 DEF Permissions, ConnInv
  <1>3. PermInv'
    BY <1>1 DEF PermInv
  <1>4. AccpInv'
    BY <1>1 DEF Permissions, AccpInv, Remembered
  <1>5. BoxInv'
    BY <1>1 DEF Permissions, BoxInv
  <1> QED
    BY <1>2, <1>3, <1>4, <1>5 DEF Permissions

LEMMA PayStep ==
    ASSUME Types, JobInv, Permissions, ProducerPay
    PROVE  Permissions'
  <1>1. /\ conns' \in [Resources -> Seq(Conn)]
        /\ \A r \in Resources : Len(conns'[r]) = Len(conns[r])
        /\ Names(conns') = Names(conns)
        /\ \A cn \in Names(conns) :
                /\ P(conns', cn) = IF cn \in Elements(pbox) THEN P(conns, cn) + 1
                                   ELSE P(conns, cn)
                /\ S(conns', cn) = IF S(conns, cn) = "granted" /\ cn \in Elements(pbox)
                                   THEN "paid" ELSE S(conns, cn)
    <2>1. conns \in [Resources -> Seq(Conn)]
      BY DEF Types
    <2>2. conns' = PaidOf(conns, pbox)
      BY DEF ProducerPay, PaidOf
    <2> QED
      BY <2>1, <2>2, PaidConns
  <1>2. /\ dpc' = dpc /\ dpc # "send" /\ accp' = accp /\ pbox' = <<>> /\ ppc' = "typing"
        /\ wish' = wish /\ stage' = stage /\ idx' = idx
    BY DEF ProducerPay, dirVars
  <1>3. Target' = Target
    BY <1>2 DEF Target, ListOf
  <1>4. dpc = "perm" => Asked' = Asked
    BY <1>1, <1>3, TargetFacts DEF Asked
  <1>5. \A cn \in Names(conns) : P(conns, cn) \in Nat
    BY NamedConn DEF Types
  <1>6. Elements(pbox') = {}
    BY <1>2, EmptyElements
  <1>7. ConnInv'
    <2> SUFFICES ASSUME NEW cn \in Names(conns)
                 PROVE  /\ cn[1] \in Running
                        /\ S(conns', cn) = "asked" => dpc = "perm" /\ cn = Asked
                        /\ S(conns', cn) \in {"granted", "paid"} => cn[2] \in {1, 3}
                        /\ P(conns', cn) > 0 => S(conns', cn) = "paid"
                        /\ S(conns', cn) = "granted" =>
                            \/ \E k \in Kinds : cn \in Elements(accp[k])
                            \/ dpc = "perm" /\ cn = Asked
                        /\ S(conns', cn) = "granted" => dpc \notin {"accept", "down"}
      BY <1>1, <1>2, <1>4 DEF ConnInv
    <2>1. CASE cn \in Elements(pbox)
      <3>1. S(conns, cn) \in {"granted", "paid"}
        BY <2>1 DEF Permissions, BoxInv
      <3>2. S(conns', cn) = "paid"
        BY <1>1, <2>1, <3>1
      <3> QED
        BY <3>1, <3>2 DEF Permissions, ConnInv
    <2>2. CASE cn \notin Elements(pbox)
      BY <1>1, <2>2 DEF Permissions, ConnInv
    <2> QED
      BY <2>1, <2>2
  <1>8. PermInv'
    BY <1>1, <1>2, <1>4, <1>6 DEF Permissions, PermInv
  <1>9. AccpInv'
    <2> SUFFICES ASSUME NEW k \in Kinds
                 PROVE  /\ \A i \in 1..Len(accp[k]) :
                            /\ accp[k][i] \in Names(conns) /\ accp[k][i][1][1] = k
                            /\ S(conns', accp[k][i]) \in {"granted", "paid"}
                        /\ \A i, j \in 1..Len(accp[k]) : i < j =>
                            P(conns', accp[k][i]) >= P(conns', accp[k][j])
      BY <1>1, <1>2, <1>6 DEF Permissions, AccpInv, Remembered
    <2>1. \A i \in 1..Len(accp[k]) :
            /\ accp[k][i] \in Names(conns) /\ accp[k][i][1][1] = k
            /\ S(conns', accp[k][i]) \in {"granted", "paid"}
      BY <1>1 DEF Permissions, AccpInv, Remembered
    <2>2. ASSUME NEW i \in 1..Len(accp[k]), NEW j \in 1..Len(accp[k]), i < j
          PROVE  P(conns', accp[k][i]) >= P(conns', accp[k][j])
      <3>1. /\ P(conns, accp[k][i]) >= P(conns, accp[k][j])
            /\ accp[k][j] \in Elements(pbox) => accp[k][i] \in Elements(pbox)
        BY <2>2 DEF Permissions, AccpInv, Remembered
      <3> QED
        BY <1>1, <1>5, <2>1, <3>1
    <2> QED
      BY <2>1, <2>2
  <1>10. BoxInv'
    BY <1>2, <1>6 DEF BoxInv
  <1> QED
    BY <1>7, <1>8, <1>9, <1>10 DEF Permissions

LEMMA GrantStep ==
    ASSUME Types, JobInv, BudgetInv, Permissions, NEW r \in Resources, Grant(r)
    PROVE  Permissions'
  <1>0. PICK a : a = Permission(r)
    OBVIOUS
  <1>1. /\ a \in {"granted", "denied"} /\ conns' = AnsweredOf(conns, r, a)
        /\ conns[r] # <<>> /\ conns[r][Len(conns[r])].st = "asked"
        /\ a = "granted" => Len(conns[r]) - 1 \in {0, 2}
    BY <1>0 DEF Grant, Permission, AnsweredOf
  <1>2. /\ UNCHANGED <<dpc, accp, pbox, ppc, wish, stage, idx>>
    BY DEF Grant, dirVars, prodVars
  <1>3. PICK cn : cn = <<r, Len(conns[r])>>
    OBVIOUS
  <1>t. conns[r] \in Seq(Conn) /\ Len(conns[r]) \in Nat
    BY DEF Types
  <1>4. /\ conns' \in [Resources -> Seq(Conn)]
        /\ \A u \in Resources : Len(conns'[u]) = Len(conns[u])
        /\ Names(conns') = Names(conns)
        /\ \A x \in Names(conns) :
                /\ P(conns', x) = P(conns, x)
                /\ S(conns', x) = IF x = cn THEN a ELSE S(conns, x)
    <2>1. conns \in [Resources -> Seq(Conn)]
      BY DEF Types
    <2> QED
      BY <1>1, <1>3, <2>1, AnsweredConns
  <1>5. cn \in Names(conns) /\ S(conns, cn) = "asked"
    <2>1. Len(conns[r]) <= MaxJobs
      <3>1. /\ Len(conns[r]) + Len(jobs) + (IF ToAsk(r) THEN 1 ELSE 0) <= typed
            /\ typed \in 0..MaxJobs /\ Len(jobs) \in Nat
        BY DEF Types, BudgetInv
      <3>2. PICK one \in {0, 1} : one = IF ToAsk(r) THEN 1 ELSE 0
        OBVIOUS
      <3>3. Len(conns[r]) + Len(jobs) + one <= typed
        BY <3>1, <3>2
      <3> QED
        BY <1>t, <3>1, <3>3, BoundsAssumption
    <2>2. Len(conns[r]) \in 1..MaxJobs
      BY <1>1, <1>t, <2>1, BoundsAssumption
    <2> QED
      BY <1>1, <1>3, <2>2, NamesAre DEF S
  <1>6. dpc = "perm" /\ cn = Asked
    BY <1>5 DEF Permissions, ConnInv
  <1>7. Asked' = Asked
    <2>1. Target' = Target
      BY <1>2 DEF Target, ListOf
    <2> QED
      BY <1>4, <1>6, <2>1, TargetFacts DEF Asked
  <1>8. /\ \A k \in Kinds : cn \notin Elements(accp[k])
        /\ cn \notin Elements(pbox)
    BY <1>6 DEF Permissions, PermInv
  <1>9. a = "granted" => cn[2] \in {1, 3}
    BY <1>1, <1>3, <1>t
  <1>10. ConnInv'
    <2> SUFFICES ASSUME NEW x \in Names(conns)
                 PROVE  /\ x[1] \in Running
                        /\ S(conns', x) = "asked" => x = cn
                        /\ S(conns', x) \in {"granted", "paid"} => x[2] \in {1, 3}
                        /\ P(conns', x) > 0 => S(conns', x) = "paid"
                        /\ S(conns', x) = "granted" =>
                            \/ \E k \in Kinds : x \in Elements(accp[k])
                            \/ x \in Elements(pbox)
                            \/ x = cn
      BY <1>2, <1>4, <1>6, <1>7 DEF ConnInv
    <2>1. CASE x = cn
      BY <1>1, <1>4, <1>5, <1>9, <2>1 DEF Permissions, ConnInv
    <2>2. CASE x # cn
      BY <1>4, <1>6, <2>2 DEF Permissions, ConnInv
    <2> QED
      BY <2>1, <2>2
  <1>11. PermInv'
    BY <1>1, <1>2, <1>4, <1>5, <1>6, <1>7, <1>8 DEF PermInv
  <1>12. AccpInv'
    <2>1. \A k \in Kinds : \A i \in 1..Len(accp[k]) :
            accp[k][i] # cn /\ accp[k][i] \in Names(conns)
      BY <1>8 DEF Permissions, AccpInv, Remembered, Elements
    <2>2. \A k \in Kinds : \A i \in 1..Len(accp[k]) :
            /\ S(conns', accp[k][i]) = S(conns, accp[k][i])
            /\ P(conns', accp[k][i]) = P(conns, accp[k][i])
      BY <1>4, <2>1
    <2> QED
      BY <1>2, <1>4, <2>2 DEF Permissions, AccpInv, Remembered
  <1>13. BoxInv'
    BY <1>2, <1>4, <1>8 DEF Permissions, BoxInv
  <1> QED
    BY <1>10, <1>11, <1>12, <1>13 DEF Permissions

-----------------------------------------------------------------------------
(***************************************************************************)
(* Jobs and connections. A set or actor gets at most one connection for     *)
(* each job that was typed, because no number is repeated in a job.         *)
(***************************************************************************)
Busy == dpc \in {"registry", "item", "port", "perm"}

LEMMA ListFacts ==
    ASSUME JobInv, NEW k \in Kinds
    PROVE  ListOf(k) \in Seq(Ids) /\ NoRepeat(ListOf(k)) /\ Count(k) \in Nat
           /\ Count(k) = Len(ListOf(k))
  BY DEF JobInv, ListOf, Count

LEMMA SameToAsk ==
    ASSUME UNCHANGED <<wish, stage, idx>>, Busy' => Busy, dpc' = "perm" <=> dpc = "perm",
           NEW r
    PROVE  ToAsk(r)' => ToAsk(r)
  <1>1. ListOf(r[1])' = ListOf(r[1]) /\ Count(r[1])' = Count(r[1])
    BY DEF ListOf, Count
  <1> QED
    BY <1>1 DEF ToAsk, Busy

LEMMA BudgetKeeps ==
    ASSUME Types, BudgetInv, Len(jobs') \in Nat, typed' \in Nat,
           \A r \in Resources : ToAsk(r)' => ToAsk(r),
           \A r \in Resources : Len(conns'[r]) = Len(conns[r]),
           Len(jobs') + typed <= Len(jobs) + typed'
    PROVE  BudgetInv'
  <1> SUFFICES ASSUME NEW r \in Resources
               PROVE  Len(conns'[r]) + Len(jobs') + (IF ToAsk(r)' THEN 1 ELSE 0) <= typed'
    BY DEF BudgetInv
  <1>1. PICK b \in {0, 1} : b = IF ToAsk(r) THEN 1 ELSE 0
    OBVIOUS
  <1>2. PICK c \in {0, 1} : c = IF ToAsk(r)' THEN 1 ELSE 0
    OBVIOUS
  <1>3. c <= b
    BY <1>1, <1>2
  <1>4. Len(conns[r]) + Len(jobs) + b <= typed
    BY <1>1 DEF BudgetInv
  <1>5. Len(conns[r]) \in Nat /\ Len(jobs) \in Nat /\ typed \in Nat
    BY BoundsAssumption DEF Types
  <1>6. Len(conns'[r]) + Len(jobs') + c <= typed'
    BY <1>3, <1>4, <1>5
  <1> QED
    BY <1>2, <1>6

LEMMA BudgetAccept ==
    ASSUME Types, BudgetInv, AcceptJob
    PROVE  BudgetInv'
  <1> SUFFICES ASSUME NEW r \in Resources
               PROVE  Len(conns'[r]) + Len(jobs') + (IF ToAsk(r)' THEN 1 ELSE 0) <= typed'
    BY DEF BudgetInv
  <1>1. PICK c \in {0, 1} : c = IF ToAsk(r)' THEN 1 ELSE 0
    OBVIOUS
  <1>2. PICK b \in {0, 1} : b = IF ToAsk(r) THEN 1 ELSE 0
    OBVIOUS
  <1>3. Len(conns[r]) + Len(jobs) + b <= typed
    BY <1>2 DEF BudgetInv
  <1>4. /\ jobs \in Seq(Wishes) /\ jobs # <<>> /\ jobs' = Tail(jobs) /\ conns' = conns
        /\ typed' = typed /\ typed \in Nat /\ conns[r] \in Seq(Conn)
    BY BoundsAssumption DEF Types, AcceptJob
  <1>5. Len(jobs) \in Nat /\ Len(jobs') + 1 = Len(jobs) /\ Len(jobs') \in Nat
    BY <1>4
  <1>6. Len(conns[r]) \in Nat
    BY <1>4
  <1>7. Len(conns'[r]) + Len(jobs') + c <= typed'
    BY <1>3, <1>4, <1>5, <1>6
  <1> QED
    BY <1>1, <1>7

LEMMA BudgetConnect ==
    ASSUME Types, JobInv, BudgetInv, ConnectTarget
    PROVE  BudgetInv' /\ Len(conns[Target]) < MaxJobs
  <1>t. Target \in Resources /\ Target[1] = stage /\ stage \in Kinds
    BY TargetFacts DEF ConnectTarget, Types
  <1>1. /\ dpc = "port" /\ dpc' = "perm" /\ UNCHANGED <<jobs, typed, wish, stage, idx>>
        /\ conns' = MoreOf(conns, Target)
    BY DEF ConnectTarget, MoreOf
  <1>2. /\ ListOf(stage) \in Seq(Ids) /\ NoRepeat(ListOf(stage))
        /\ idx \in 1..Len(ListOf(stage)) /\ Count(stage) = Len(ListOf(stage))
    BY <1>1, <1>t, ListFacts DEF JobInv, Types
  <1>3. Target[2] = ListOf(stage)[idx]
    BY DEF Target
  <1>4. ToAsk(Target)
    BY <1>1, <1>2, <1>3, <1>t DEF ToAsk
  <1>5. \A r \in Resources : ListOf(r[1])' = ListOf(r[1]) /\ Count(r[1])' = Count(r[1])
    BY <1>1 DEF ListOf, Count
  <1>6. ~ToAsk(Target)'
    <2> SUFFICES ASSUME NEW p \in 1..Count(stage), ListOf(stage)[p] = Target[2], p > idx
                 PROVE  FALSE
      <3>1. ASSUME ToAsk(Target)'
            PROVE  \E p \in 1..Count(stage) : ListOf(stage)[p] = Target[2] /\ p > idx
        <4>0. PICK tg : tg = Target
          OBVIOUS
        <4>1. Target' = Target
          BY <1>1 DEF Target, ListOf
        <4>2. tg[1] = stage /\ tg \in Resources
          BY <1>t, <4>0
        <4>3. ToAsk(tg)'
          BY <3>1, <4>0, <4>1 DEF ToAsk
        <4>4. PICK p \in 1..Count(tg[1])' :
                /\ ListOf(tg[1])'[p] = tg[2]
                /\ \/ tg[1] = stage' /\ (p > idx' \/ (p = idx' /\ dpc' # "perm"))
                   \/ tg[1] = "actor" /\ stage' = "set"
          BY <4>3 DEF ToAsk
        <4> QED
          BY <1>1, <1>5, <4>0, <4>2, <4>4
      <3> QED
        BY <3>1
    <2> QED
      BY <1>2, <1>3 DEF NoRepeat
  <1>7. /\ Len(conns'[Target]) = Len(conns[Target]) + 1
        /\ \A r \in Resources : r # Target => Len(conns'[r]) = Len(conns[r])
        /\ \A r \in Resources : Len(conns[r]) \in Nat
        /\ Len(jobs) \in Nat /\ typed \in 0..MaxJobs
    <2>1. conns \in [Resources -> Seq(Conn)] /\ [st |-> "asked", pays |-> 0] \in Conn
      BY DEF Types, Conn
    <2> QED
      BY <1>1, <1>t, <2>1 DEF MoreOf, Types
  <1>8. Len(conns[Target]) + Len(jobs) + 1 <= typed
    BY <1>t, <1>4 DEF BudgetInv
  <1>9. Len(conns[Target]) < MaxJobs
    BY <1>7, <1>8, <1>t, BoundsAssumption
  <1>10. ASSUME NEW r \in Resources
         PROVE  Len(conns'[r]) + Len(jobs') + (IF ToAsk(r)' THEN 1 ELSE 0) <= typed'
    <2>1. CASE r = Target
      <3>0. Target' = Target
        BY <1>1 DEF Target, ListOf
      <3>1. ~ToAsk(r)'
        BY <1>6, <2>1, <3>0 DEF ToAsk
      <3>2. Len(conns'[r]) + Len(jobs') <= typed'
        BY <1>1, <1>7, <1>8, <2>1, <1>t
      <3> QED
        BY <1>1, <1>7, <3>1, <3>2
    <2>2. CASE r # Target
      <3>1. ToAsk(r)' => ToAsk(r)
        BY <1>1, <1>5 DEF ToAsk
      <3>2. PICK b \in {0, 1} : b = IF ToAsk(r) THEN 1 ELSE 0
        OBVIOUS
      <3>3. PICK c \in {0, 1} : c = IF ToAsk(r)' THEN 1 ELSE 0
        OBVIOUS
      <3>4. c <= b
        BY <3>1, <3>2, <3>3
      <3>5. Len(conns[r]) + Len(jobs) + b <= typed
        BY <3>2 DEF BudgetInv
      <3>6. Len(conns'[r]) + Len(jobs') + c <= typed'
        BY <1>1, <1>7, <2>2, <3>4, <3>5
      <3> QED
        BY <3>3, <3>6
    <2> QED
      BY <2>1, <2>2
  <1> QED
    BY <1>9, <1>10 DEF BudgetInv

-----------------------------------------------------------------------------
(***************************************************************************)
(* One lemma per step for the inductive invariant.                          *)
(***************************************************************************)
LEMMA AskKeeps ==
    ASSUME Inv, NEW w \in Wishes, Ask(w)
    PROVE  Inv'
  <1> USE DEF Inv
  <1>1. /\ typed' = typed + 1 /\ typed' \in 0..MaxJobs /\ jobs' \in Seq(Wishes)
        /\ Len(jobs') <= Len(jobs) + 1 /\ Len(jobs) \in Nat /\ Len(jobs') \in Nat
        /\ typed \in Nat /\ typed' \in Nat
    <2>1. jobs \in Seq(Wishes) /\ typed \in 0..MaxJobs /\ typed < MaxJobs
          /\ typed' = typed + 1 /\ MaxJobs \in Nat
          /\ jobs' = IF dpc = "down" THEN jobs ELSE Append(jobs, w)
      BY BoundsAssumption DEF Types, Ask
    <2>2. Append(jobs, w) \in Seq(Wishes) /\ Len(Append(jobs, w)) = Len(jobs) + 1
          /\ Len(jobs) \in Nat
      BY <2>1, AppendFacts
    <2> QED
      BY <2>1, <2>2
  <1>2. /\ UNCHANGED <<starts, wish, dpc, stage, idx, accp, dreg, rpc, left, broken, conns,
                       ppc, pbox>>
    BY DEF Ask, dirVars, regVars, prodVars
  <1>3. Types'
    BY <1>1, <1>2 DEF Types
  <1>4. JobInv'
    <2>1. Count(stage)' = Count(stage)
      BY <1>2 DEF Count, ListOf
    <2> QED
      BY <1>2, <2>1 DEF JobInv
  <1>5. BudgetInv'
    <2>1. \A r \in Resources : ToAsk(r)' => ToAsk(r)
      BY <1>2, SameToAsk DEF Busy
    <2>2. Len(jobs') + typed <= Len(jobs) + typed'
      BY <1>1
    <2> QED
      BY <1>1, <1>2, <2>1, <2>2, BudgetKeeps
  <1>6. Permissions'
    BY <1>2, QuietOther
  <1> QED
    BY <1>3, <1>4, <1>5, <1>6

\* The steps after which the jobs and the connections are as many as before.
LEMMA SameBudget ==
    ASSUME Types, BudgetInv, UNCHANGED <<jobs, typed>>,
           \A r \in Resources : Len(conns'[r]) = Len(conns[r]),
           \A r \in Resources : ToAsk(r)' => ToAsk(r)
    PROVE  BudgetInv'
  <1>1. Len(jobs) \in Nat /\ typed \in Nat
    BY BoundsAssumption DEF Types
  <1>2. Len(jobs') \in Nat /\ typed' \in Nat /\ Len(jobs') + typed <= Len(jobs) + typed'
    BY <1>1
  <1> QED
    BY <1>2, BudgetKeeps

LEMMA StartKeeps ==
    ASSUME Inv, DirectorStart
    PROVE  Inv'
  <1> USE DEF Inv
  <1>1. /\ dpc = "down" /\ dpc' = "accept" /\ starts' = starts + 1 /\ starts < MaxStarts
        /\ UNCHANGED <<jobs, typed, wish, stage, idx, accp, dreg, rpc, left, broken, conns,
                       ppc, pbox>>
    BY DEF DirectorStart, regVars, prodVars
  <1>2. Types'
    BY <1>1, BoundsAssumption DEF Types
  <1>3. JobInv'
    BY <1>1 DEF JobInv
  <1>4. BudgetInv'
    <2>1. \A r \in Resources : ToAsk(r)' => ToAsk(r)
      BY <1>1 DEF ToAsk
    <2> QED
      BY <1>1, <2>1, SameBudget
  <1>5. Permissions'
    BY <1>1, QuietDirector
  <1> QED
    BY <1>2, <1>3, <1>4, <1>5

LEMMA DiesKeeps ==
    ASSUME Inv, NoRegistry \/ NoPort \/ NoTarget
    PROVE  Inv'
  <1> USE DEF Inv
  <1>1. DirectorDies /\ dpc \notin {"perm", "send"}
    BY DEF NoRegistry, NoPort, NoTarget
  <1>2. /\ dpc' = "down" /\ jobs' = <<>> /\ accp' = [k \in Kinds |-> <<>>]
        /\ dreg' = [k \in Kinds |-> "none"]
        /\ UNCHANGED <<typed, starts, wish, stage, idx, rpc, left, broken, ppc, pbox>>
    BY <1>1 DEF DirectorDies, prodVars
  <1>3. /\ conns' \in [Resources -> Seq(Conn)]
        /\ \A r \in Resources : Len(conns'[r]) = Len(conns[r])
    <2>1. conns \in [Resources -> Seq(Conn)]
      BY DEF Types
    <2>2. conns' = LostOf(conns, pbox)
      BY <1>1 DEF DirectorDies, LostOf
    <2> QED
      BY <2>1, <2>2, LostConns
  <1>4. Types'
    <2>1. jobs' \in Seq(Wishes) /\ accp' \in [Kinds -> Seq(Resources \X Nat)]
      BY <1>2
    <2> QED
      BY <1>2, <1>3, <2>1 DEF Types
  <1>5. JobInv'
    BY <1>2 DEF JobInv
  <1>6. BudgetInv'
    <2>1. \A r \in Resources : ToAsk(r)' => ToAsk(r)
      BY <1>2 DEF ToAsk
    <2>2. /\ Len(jobs') \in Nat /\ typed' \in Nat
          /\ Len(jobs') + typed <= Len(jobs) + typed'
      <3>1. Len(jobs) \in Nat /\ typed \in Nat /\ Len(jobs') = 0
        BY <1>2, BoundsAssumption, EmptyElements DEF Types
      <3> QED
        BY <1>2, <3>1
    <2> QED
      BY <1>3, <2>1, <2>2, BudgetKeeps
  <1>7. Permissions'
    BY <1>1, DiesStep
  <1> QED
    BY <1>4, <1>5, <1>6, <1>7

LEMMA AcceptKeeps ==
    ASSUME Inv, AcceptJob
    PROVE  Inv'
  <1> USE DEF Inv
  <1>1. /\ dpc = "accept" /\ dpc' = "registry" /\ jobs # <<>> /\ jobs' = Tail(jobs)
        /\ wish' = Head(jobs) /\ stage' = "set" /\ idx' = 1
        /\ UNCHANGED <<typed, starts, accp, dreg, rpc, left, broken, conns, ppc, pbox>>
    BY DEF AcceptJob, regVars, prodVars
  <1>2. wish' \in Wishes /\ jobs' \in Seq(Wishes)
    <2>1. jobs \in Seq(Wishes)
      BY DEF Types
    <2> QED
      BY <1>1, <2>1
  <1>3. Types'
    BY <1>1, <1>2 DEF Types, Kinds
  <1>4. JobInv'
    <2>1. IsWish(wish')
      BY <1>2, WishesAssumption
    <2> QED
      BY <1>1, <2>1 DEF IsWish, JobInv
  <1>5. BudgetInv'
    BY BudgetAccept
  <1>6. Permissions'
    BY <1>1, QuietDirector
  <1> QED
    BY <1>3, <1>4, <1>5, <1>6

LEMMA RegistryAskKeeps ==
    ASSUME Inv, ConnectRegistry \/ AskPort
    PROVE  Inv'
  <1> USE DEF Inv
  <1>1. /\ \/ dpc = "registry" /\ dpc' = "item"
           \/ dpc = "item" /\ dpc' = "port" /\ idx <= Count(stage)
        /\ \E d \in {"none", "backlog", "asked"} : dreg' = [dreg EXCEPT ![stage] = d]
        /\ UNCHANGED <<jobs, typed, starts, wish, stage, idx, accp, rpc, left, broken, conns,
                       ppc, pbox>>
    BY DEF ConnectRegistry, AskPort, prodVars
  <1>2. Types'
    BY <1>1 DEF Types
  <1>3. JobInv'
    <2>1. Count(stage)' = Count(stage)
      BY <1>1 DEF Count, ListOf
    <2> QED
      BY <1>1, <2>1 DEF JobInv
  <1>4. BudgetInv'
    <2>1. \A r \in Resources : ToAsk(r)' => ToAsk(r)
      BY <1>1, SameToAsk DEF Busy
    <2> QED
      BY <1>1, <2>1, SameBudget
  <1>5. Permissions'
    BY <1>1, QuietDirector
  <1> QED
    BY <1>2, <1>3, <1>4, <1>5

LEMMA NextStageKeeps ==
    ASSUME Inv, NextStage
    PROVE  Inv'
  <1> USE DEF Inv
  <1>1. /\ dpc = "item" /\ dpc' = IF stage = "set" THEN "registry" ELSE "producer"
        /\ stage' = "actor" /\ idx' = 1
        /\ UNCHANGED <<jobs, typed, starts, wish, accp, dreg, rpc, left, broken, conns,
                       ppc, pbox>>
    BY DEF NextStage, regVars, prodVars
  <1>2. Types'
    BY <1>1 DEF Types, Kinds
  <1>3. JobInv'
    BY <1>1 DEF JobInv
  <1>4. BudgetInv'
    <2>1. ASSUME NEW r \in Resources, ToAsk(r)' PROVE ToAsk(r)
      <3>1. ListOf(r[1])' = ListOf(r[1]) /\ Count(r[1])' = Count(r[1])
        BY <1>1 DEF ListOf, Count
      <3>2. stage = "set" /\ r[1] = "actor"
        BY <1>1, <2>1 DEF ToAsk
      <3> QED
        BY <1>1, <2>1, <3>1, <3>2 DEF ToAsk
    <2> QED
      BY <1>1, <2>1, SameBudget
  <1>5. Permissions'
    BY <1>1, QuietDirector
  <1> QED
    BY <1>2, <1>3, <1>4, <1>5

LEMMA ConnectKeeps ==
    ASSUME Inv, ConnectTarget
    PROVE  Inv'
  <1> USE DEF Inv
  <1>1. BudgetInv' /\ Len(conns[Target]) < MaxJobs
    BY BudgetConnect
  <1>2. Permissions'
    BY <1>1, ConnectStep
  <1>3. /\ dpc = "port" /\ dpc' = "perm"
        /\ UNCHANGED <<jobs, typed, starts, wish, stage, idx, accp, dreg, rpc, left, broken,
                       ppc, pbox>>
    BY DEF ConnectTarget, regVars, prodVars
  <1>4. conns' \in [Resources -> Seq(Conn)]
    <2>1. conns \in [Resources -> Seq(Conn)] /\ Target \in Resources
      BY <1>3, TargetFacts DEF Types
    <2>2. conns' = MoreOf(conns, Target)
      BY DEF ConnectTarget, MoreOf
    <2> QED
      BY <1>1, <2>1, <2>2, NewConn
  <1>5. Types'
    BY <1>3, <1>4 DEF Types
  <1>6. JobInv'
    <2>1. Count(stage)' = Count(stage)
      BY <1>3 DEF Count, ListOf
    <2> QED
      BY <1>3, <2>1 DEF JobInv
  <1> QED
    BY <1>1, <1>2, <1>5, <1>6

LEMMA PermKeeps ==
    ASSUME Inv, ReadPerm
    PROVE  Inv'
  <1> USE DEF Inv
  <1>1. /\ dpc = "perm" /\ dpc' = "item" /\ idx' = idx + 1
        /\ UNCHANGED <<jobs, typed, starts, wish, stage, dreg, rpc, left, broken, conns,
                       ppc, pbox>>
    BY DEF ReadPerm, regVars, prodVars
  <1>2. accp' \in [Kinds -> Seq(Resources \X Nat)]
    <2>0. PICK cn : cn = Asked
      OBVIOUS
    <2>1. accp' = accp \/ accp' = [accp EXCEPT ![stage] = Append(@, cn)]
      BY <2>0 DEF ReadPerm, Remember, Asked
    <2>2. cn \in Names(conns)
      BY <1>1, <2>0 DEF Permissions, PermInv
    <2>3. cn \in Resources \X Nat
      BY <2>2, NamesAre
    <2>4. accp \in [Kinds -> Seq(Resources \X Nat)] /\ stage \in Kinds
      BY DEF Types
    <2>5. Append(accp[stage], cn) \in Seq(Resources \X Nat)
      BY <2>3, <2>4, AppendFacts
    <2> QED
      BY <2>1, <2>4, <2>5
  <1>3. Types'
    BY <1>1, <1>2 DEF Types
  <1>4. JobInv'
    BY <1>1 DEF JobInv, Types
  <1>5. BudgetInv'
    <2>1. ASSUME NEW r \in Resources, ToAsk(r)' PROVE ToAsk(r)
      <3>1. ListOf(r[1])' = ListOf(r[1]) /\ Count(r[1])' = Count(r[1])
        BY <1>1 DEF ListOf, Count
      <3>2. idx \in Nat
        BY DEF Types
      <3>3. PICK p \in 1..Count(r[1]) :
                /\ ListOf(r[1])[p] = r[2]
                /\ \/ r[1] = stage /\ (p > idx + 1 \/ p = idx + 1)
                   \/ r[1] = "actor" /\ stage = "set"
        BY <1>1, <2>1, <3>1 DEF ToAsk
      <3> QED
        BY <1>1, <3>2, <3>3 DEF ToAsk
    <2> QED
      BY <1>1, <2>1, SameBudget
  <1>6. Permissions'
    BY PermStep
  <1> QED
    BY <1>3, <1>4, <1>5, <1>6

LEMMA ProducerKeeps ==
    ASSUME Inv, ConnectProducer \/ ProducerAccept \/ ProducerMessage
    PROVE  Inv'
  <1> USE DEF Inv
  <1>1. /\ \/ dpc' = dpc
           \/ dpc = "producer" /\ dpc' = "hello"
           \/ dpc = "hello" /\ dpc' = "send"
        /\ ppc' \in {ppc, "recv", "accept"}
        /\ UNCHANGED <<jobs, typed, starts, wish, stage, idx, accp, dreg, rpc, left, broken,
                       conns, pbox>>
    BY DEF ConnectProducer, ProducerAccept, ProducerMessage, regVars, prodVars, dirVars
  <1>2. Types'
    BY <1>1 DEF Types
  <1>3. JobInv'
    <2>1. Count(stage)' = Count(stage)
      BY <1>1 DEF Count, ListOf
    <2> QED
      BY <1>1, <2>1 DEF JobInv
  <1>4. BudgetInv'
    <2>1. \A r \in Resources : ToAsk(r)' => ToAsk(r)
      BY <1>1, SameToAsk DEF Busy
    <2> QED
      BY <1>1, <2>1, SameBudget
  <1>5. Permissions'
    <2>1. CASE ConnectProducer
      BY <2>1, QuietDirector DEF ConnectProducer, prodVars
    <2>2. CASE ProducerAccept
      BY <2>2, HelloStep
    <2>3. CASE ProducerMessage
      BY <2>3, QuietOther DEF ProducerMessage, dirVars
    <2> QED
      BY <2>1, <2>2, <2>3
  <1> QED
    BY <1>2, <1>3, <1>4, <1>5

LEMMA SendKeeps ==
    ASSUME Inv, SendToProducer
    PROVE  Inv'
  <1> USE DEF Inv
  <1>1. /\ dpc = "send" /\ dpc' = "accept" /\ pbox' = accp["set"] \o accp["actor"]
        /\ UNCHANGED <<jobs, typed, starts, wish, stage, idx, accp, dreg, rpc, left, broken,
                       conns, ppc>>
    BY DEF SendToProducer, PassOn, regVars
  <1>2. pbox' \in Seq(Resources \X Nat)
    <2>1. accp["set"] \in Seq(Resources \X Nat) /\ accp["actor"] \in Seq(Resources \X Nat)
      BY DEF Types, Kinds
    <2> QED
      BY <1>1, <2>1, ElementsConcat
  <1>3. Types'
    BY <1>1, <1>2 DEF Types
  <1>4. JobInv'
    BY <1>1 DEF JobInv
  <1>5. BudgetInv'
    <2>1. \A r \in Resources : ToAsk(r)' => ToAsk(r)
      BY <1>1 DEF ToAsk
    <2> QED
      BY <1>1, <2>1, SameBudget
  <1>6. Permissions'
    BY SendStep
  <1> QED
    BY <1>3, <1>4, <1>5, <1>6

LEMMA RegistryKeeps ==
    ASSUME Inv, NEW k \in Kinds, RegistryStep(k)
    PROVE  Inv'
  <1> USE DEF Inv
  <1>1. UNCHANGED <<jobs, typed, starts, wish, dpc, stage, idx, accp, conns, ppc, pbox>>
    BY DEF RegistryStep, RegistryAccept, RegistryAnswer, RegistryOrphan, dirVars, prodVars
  <1>2. Count(k) \in Nat /\ left[k] \in Nat /\ (rpc[k] = "serve" => left[k] >= 1)
    BY ListFacts DEF Types, JobInv
  <1>3. /\ dreg' \in [Kinds -> {"none", "backlog", "open", "asked"}]
        /\ rpc' \in [Kinds -> {"accept", "serve", "dead"}]
        /\ left' \in [Kinds -> Nat]
    <2>1. CASE RegistryAccept(k)
      BY <1>2, <2>1 DEF RegistryAccept, Types, Idle
    <2>2. CASE RegistryAnswer(k)
      BY <1>2, <2>2 DEF RegistryAnswer, Types, Idle
    <2>3. CASE RegistryOrphan(k)
      BY <1>2, <2>3 DEF RegistryOrphan, Types, Idle
    <2> QED
      BY <2>1, <2>2, <2>3 DEF RegistryStep
  <1>4. broken' \in [Kinds -> BOOLEAN]
    BY DEF RegistryStep, RegistryAccept, RegistryAnswer, RegistryOrphan, Types
  <1>5. \A j \in Kinds : rpc'[j] = "serve" => left'[j] >= 1
    <2>t. \A j \in Kinds : left[j] \in Nat /\ (rpc[j] = "serve" => left[j] >= 1)
      BY DEF Types, JobInv
    <2>1. CASE RegistryAccept(k)
      BY <1>2, <2>1, <2>t DEF RegistryAccept, Types, Idle
    <2>2. CASE RegistryAnswer(k)
      BY <1>2, <2>2, <2>t DEF RegistryAnswer, Types, Idle
    <2>3. CASE RegistryOrphan(k)
      BY <1>2, <2>3, <2>t DEF RegistryOrphan, Types, Idle
    <2> QED
      BY <2>1, <2>2, <2>3 DEF RegistryStep
  <1>6. Types'
    BY <1>1, <1>3, <1>4 DEF Types
  <1>7. JobInv'
    <2>1. Count(stage)' = Count(stage)
      BY <1>1 DEF Count, ListOf
    <2> QED
      BY <1>1, <1>5, <2>1 DEF JobInv
  <1>8. BudgetInv'
    <2>1. \A r \in Resources : ToAsk(r)' => ToAsk(r)
      BY <1>1, SameToAsk DEF Busy
    <2> QED
      BY <1>1, <2>1, SameBudget
  <1>9. Permissions'
    BY <1>1, QuietOther
  <1> QED
    BY <1>6, <1>7, <1>8, <1>9

LEMMA AnswersKeep ==
    ASSUME Inv, (\E r \in Resources : Grant(r)) \/ ProducerPay
    PROVE  Inv'
  <1> USE DEF Inv
  <1>1. /\ UNCHANGED <<jobs, typed, starts, wish, dpc, stage, idx, accp, dreg, rpc, left, broken>>
        /\ ppc' \in {ppc, "typing"}
        /\ pbox' \in {pbox, <<>>}
    BY DEF Grant, ProducerPay, dirVars, regVars, prodVars
  <1>2. /\ conns' \in [Resources -> Seq(Conn)]
        /\ \A r \in Resources : Len(conns'[r]) = Len(conns[r])
    <2>0. conns \in [Resources -> Seq(Conn)]
      BY DEF Types
    <2>1. ASSUME NEW r \in Resources, Grant(r)
          PROVE  /\ conns' \in [Resources -> Seq(Conn)]
                 /\ \A u \in Resources : Len(conns'[u]) = Len(conns[u])
      <3>1. PICK a \in {"granted", "denied"} : a = Permission(r)
        BY DEF Permission
      <3>2. conns' = AnsweredOf(conns, r, a) /\ conns[r] # <<>>
        BY <2>1, <3>1 DEF Grant, AnsweredOf
      <3> QED
        BY <2>0, <3>2, AnsweredConns
    <2>2. CASE ProducerPay
      <3>1. conns' = PaidOf(conns, pbox)
        BY <2>2 DEF ProducerPay, PaidOf
      <3> QED
        BY <2>0, <3>1, PaidConns
    <2> QED
      BY <2>1, <2>2
  <1>3. Types'
    <2>1. pbox' \in Seq(Resources \X Nat)
      <3>1. pbox \in Seq(Resources \X Nat)
        BY DEF Types
      <3>2. <<>> \in Seq(Resources \X Nat)
        OBVIOUS
      <3> QED
        BY <1>1, <3>1, <3>2
    <2>2. ppc' \in {"accept", "recv", "typing"}
      BY <1>1 DEF Types
    <2> QED
      BY <1>1, <1>2, <2>1, <2>2 DEF Types
  <1>4. JobInv'
    <2>1. Count(stage)' = Count(stage)
      BY <1>1 DEF Count, ListOf
    <2> QED
      BY <1>1, <2>1 DEF JobInv
  <1>5. BudgetInv'
    <2>1. \A r \in Resources : ToAsk(r)' => ToAsk(r)
      BY <1>1, SameToAsk DEF Busy
    <2> QED
      BY <1>1, <1>2, <2>1, SameBudget
  <1>6. Permissions'
    BY GrantStep, PayStep
  <1> QED
    BY <1>3, <1>4, <1>5, <1>6

-----------------------------------------------------------------------------
(***************************************************************************)
(* The inductive invariant, and what follows from it.                       *)
(***************************************************************************)
LEMMA InvInit == Init => Inv
  <1> SUFFICES ASSUME Init PROVE Inv
    OBVIOUS
  <1>1. /\ jobs = <<>> /\ typed = 0 /\ dpc = "down" /\ stage = "set" /\ idx = 1 /\ starts = 0
        /\ accp = [k \in Kinds |-> <<>>] /\ conns = [r \in Resources |-> <<>>]
        /\ rpc = [k \in Kinds |-> "accept"] /\ ppc = "accept" /\ pbox = <<>>
        /\ wish.sets_list = <<>> /\ wish.actor_list = <<>>
    BY DEF Init
  <1>2. Types
    <2>1. /\ jobs \in Seq(Wishes) /\ pbox \in Seq(Resources \X Nat)
          /\ accp \in [Kinds -> Seq(Resources \X Nat)]
          /\ conns \in [Resources -> Seq(Conn)]
      BY <1>1
    <2>2. broken \in [Kinds -> BOOLEAN]
      BY DEF Init
    <2> QED
      BY <2>1, <2>2, BoundsAssumption DEF Init, Types, Kinds
  <1>3. JobInv
    BY <1>1 DEF JobInv, NoRepeat
  <1>4. BudgetInv
    <2> SUFFICES ASSUME NEW r \in Resources
                 PROVE  Len(conns[r]) + Len(jobs) + (IF ToAsk(r) THEN 1 ELSE 0) <= typed
      BY DEF BudgetInv
    <2>1. ~ToAsk(r)
      BY <1>1 DEF ToAsk
    <2> QED
      BY <1>1, <2>1
  <1>5. Names(conns) = {}
    <2>1. \A r \in Resources : Len(conns[r]) = 0
      BY <1>1
    <2>2. \A cn : cn \notin Names(conns)
      BY <2>1 DEF Names
    <2> QED
      BY <2>2
  <1>6. Permissions
    BY <1>1, <1>5, EmptyElements
       DEF Permissions, ConnInv, PermInv, AccpInv, Remembered, BoxInv, NoRepeat
  <1> QED
    BY <1>2, <1>3, <1>4, <1>6 DEF Inv

LEMMA InvStep == Inv /\ [Next]_vars => Inv'
  <1> SUFFICES ASSUME Inv, [Next]_vars PROVE Inv'
    OBVIOUS
  <1>1. CASE UNCHANGED vars
    <2> USE DEF Inv
    <2>1. UNCHANGED <<jobs, typed, starts, wish, dpc, stage, idx, accp, dreg, rpc, left, broken,
                      conns, ppc, pbox>>
      BY <1>1 DEF vars, dirVars, regVars, prodVars
    <2>2. Types'
      BY <2>1 DEF Types
    <2>3. JobInv'
      BY <2>1 DEF JobInv, Count, ListOf
    <2>4. BudgetInv'
      <3>1. \A r \in Resources : ToAsk(r)' => ToAsk(r)
        BY <2>1, SameToAsk DEF Busy
      <3> QED
        BY <2>1, <3>1, SameBudget
    <2>5. Permissions'
      BY <2>1, QuietOther
    <2> QED
      BY <2>2, <2>3, <2>4, <2>5
  <1>2. CASE DirectorStep
    BY <1>2, AcceptKeeps, RegistryAskKeeps, DiesKeeps, NextStageKeeps, ConnectKeeps, PermKeeps,
       ProducerKeeps, SendKeeps DEF DirectorStep
  <1> QED
    BY <1>1, <1>2, AskKeeps, StartKeeps, RegistryKeeps, AnswersKeep, ProducerKeeps DEF Next

\* The inductive invariant: every permission is accounted for, from the question of the
\* director (director.c:140-158,180-196) to the payment (producer.c:114-124).
THEOREM Invariance == Spec => []Inv
  BY InvInit, InvStep, PTL DEF Spec

\* Each of the running sets and actors of a kind is remembered at most once for its first
\* connection and once for its third, so the array of the kind does not overflow.
LEMMA FewRemembered ==
    ASSUME Inv, NEW k \in Kinds
    PROVE  Len(accp[k]) <= max_count
  <1> DEFINE ids == {id \in Ids : <<k, id>> \in Running}
  <1>0. PICK q : q = accp[k]
    OBVIOUS
  <1>1. PICK T : T = IF MaxJobs < 3 THEN {1} ELSE {1, 3}
    OBVIOUS
  <1>2. IsFiniteSet(T) /\ Cardinality(T) = Permits
    <2>1. IsFiniteSet({1}) /\ Cardinality({1}) = 1
      BY FS_Singleton
    <2>2. IsFiniteSet({1} \cup {3}) /\ Cardinality({1} \cup {3}) = 2
      BY <2>1, FS_AddElement
    <2>3. {1} \cup {3} = {1, 3}
      OBVIOUS
    <2> QED
      BY <1>1, <2>1, <2>2, <2>3 DEF Permits
  <1>3. IsFiniteSet(ids) /\ Permits * Cardinality(ids) <= max_count
    BY ArraysAssumption
  <1>4. Cardinality(ids) \in Nat /\ Permits \in Nat
    BY <1>3, FS_CardinalityType DEF Permits
  <1>5. IsFiniteSet(ids \X T) /\ Cardinality(ids \X T) = Cardinality(ids) * Permits
    BY <1>2, <1>3, FS_Product
  <1>6. Cardinality(ids \X T) \in Nat /\ Cardinality(ids \X T) <= max_count
    BY <1>3, <1>4, <1>5 DEF max_count
  <1>7. q \in Seq(Resources \X Nat) /\ Remembered(q, k, conns, pbox) /\ Len(q) \in Nat
    BY <1>0 DEF Inv, Types, Permissions, AccpInv
  <1>8. ASSUME NEW i \in 1..Len(q)
        PROVE  q[i][1][2] \in ids /\ q[i][2] \in T /\ q[i] = <<<<k, q[i][1][2]>>, q[i][2]>>
    <2>1. /\ q[i] \in Names(conns) /\ q[i][1][1] = k
          /\ S(conns, q[i]) \in {"granted", "paid"}
      BY <1>7 DEF Remembered
    <2>2. q[i][1] \in Running /\ q[i][2] \in {1, 3}
      BY <2>1 DEF Inv, Permissions, ConnInv
    <2>3. q[i] = <<q[i][1], q[i][2]>> /\ q[i][1] \in Resources /\ q[i][2] \in 1..MaxJobs
      BY <2>1, NamesAre
    <2>4. q[i][1] = <<k, q[i][1][2]>> /\ q[i][1][2] \in Ids
      BY <2>1, <2>3 DEF Resources
    <2>5. q[i][2] \in T
      BY <1>1, <2>2, <2>3, BoundsAssumption
    <2>6. q[i][1][2] \in ids
      BY <2>2, <2>4
    <2> QED
      BY <2>3, <2>4, <2>5, <2>6
  <1> HIDE DEF ids
  <1>9. SUFFICES ASSUME ~(Len(q) <= max_count) PROVE FALSE
    BY <1>0
  <1>10. IsFiniteSet(1..Len(q)) /\ Cardinality(1..Len(q)) = Len(q)
    <2>1. Len(q) > 0
      BY <1>7, <1>9 DEF max_count
    <2> QED
      BY <1>7, <2>1, FS_Interval
  <1>11. Cardinality(ids \X T) < Cardinality(1..Len(q))
    BY <1>6, <1>7, <1>9, <1>10 DEF max_count
  <1>12. PICK h : h = [i \in 1..Len(q) |-> <<q[i][1][2], q[i][2]>>]
    OBVIOUS
  <1>13. h \in [1..Len(q) -> ids \X T]
    BY <1>8, <1>12
  <1>14. PICK i \in 1..Len(q), j \in 1..Len(q) : i # j /\ h[i] = h[j]
    BY <1>5, <1>10, <1>11, <1>13, FS_PigeonHole
  <1>15. q[i][1][2] = q[j][1][2] /\ q[i][2] = q[j][2]
    BY <1>12, <1>14
  <1>16. q[i] = q[j]
    BY <1>8, <1>15
  <1> QED
    BY <1>7, <1>14, <1>16 DEF Remembered, NoRepeat

LEMMA SeqOf ==
    ASSUME NEW A, NEW B, NEW q \in Seq(A), \A i \in 1..Len(q) : q[i] \in B
    PROVE  q \in Seq(B)
  OBVIOUS

LEMMA InvTypes == Inv => TypeOK
  <1> SUFFICES ASSUME Inv PROVE TypeOK
    OBVIOUS
  <1>1. ConnNames = Names(conns)
    BY DEF ConnNames, Names
  <1>2. accp \in [Kinds -> Seq(ConnNames)]
    <2>1. accp \in [Kinds -> Seq(Resources \X Nat)]
      BY DEF Inv, Types
    <2>2. \A k \in Kinds : accp[k] \in Seq(ConnNames)
      <3> SUFFICES ASSUME NEW k \in Kinds PROVE accp[k] \in Seq(ConnNames)
        OBVIOUS
      <3>1. accp[k] \in Seq(Resources \X Nat)
        BY <2>1
      <3>2. \A i \in 1..Len(accp[k]) : accp[k][i] \in ConnNames
        BY <1>1 DEF Inv, Permissions, AccpInv, Remembered
      <3> QED
        BY <3>1, <3>2, SeqOf
    <2> QED
      BY <2>1, <2>2
  <1>3. pbox \in Seq(ConnNames)
    <2>1. pbox \in Seq(Resources \X Nat)
      BY DEF Inv, Types
    <2>2. \A i \in 1..Len(pbox) : pbox[i] \in ConnNames
      BY <1>1 DEF Inv, Permissions, BoxInv, Elements
    <2> QED
      BY <2>1, <2>2, SeqOf
  <1>4. \A k \in Kinds : Len(accp[k]) <= max_count
    BY FewRemembered
  <1> QED
    BY <1>2, <1>3, <1>4 DEF Inv, Types, TypeOK

\* What director.c, set.c, act.c and producer.c do with permissions and payments, for all
\* sets, actors, jobs and restarts of the director: nobody is paid without a permission,
\* no permission is forgotten while its director runs (director.c:92-93,156-164,194-203),
\* everyone is paid before the next job starts, those of earlier jobs at least as often
\* (director.c:226-234, producer.c:114-124), and s_a and a_a stay within their arrays.
THEOREM PaymentsAreRight == Spec => []Payments
  <1>1. Inv => Payments
    <2> SUFFICES ASSUME Inv PROVE Payments
      OBVIOUS
    <2>1. ConnNames = Names(conns)
      BY DEF ConnNames, Names
    <2>2. \A cn : St(cn) = S(conns, cn) /\ Pays(cn) = P(conns, cn)
      BY DEF St, Pays, S, P
    <2>3. TypeOK
      BY InvTypes
    <2>4. OnlyGrantedPaid
      BY <2>1, <2>2 DEF Inv, Permissions, ConnInv, OnlyGrantedPaid
    <2>5. GrantKept
      BY <2>1, <2>2 DEF Inv, Permissions, ConnInv, GrantKept, Kinds, Asked
    <2>6. NobodyUnpaid
      <3>1. ppc # "recv" => Elements(pbox) = {}
        BY EmptyElements DEF Inv, Permissions, BoxInv
      <3> QED
        BY <2>1, <2>2, <3>1 DEF Inv, Permissions, ConnInv, NobodyUnpaid
    <2>7. OldestPaidMost
      BY <2>2 DEF Inv, Permissions, AccpInv, Remembered, OldestPaidMost
    <2> QED
      BY <2>3, <2>4, <2>5, <2>6, <2>7 DEF Payments
  <1> QED
    BY <1>1, Invariance, PTL
=============================================================================
