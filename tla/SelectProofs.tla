------------------------- MODULE SelectProofs -------------------------
(***************************************************************************)
(* Proofs about the programs of select_servers for any number of clients,  *)
(* FIFOs and servers: the pool of MultiServer is never oversold, and its   *)
(* clients share FIFOs only after they counted down at the same time; the  *)
(* service servers are not shared; the log of LogServer has no gaps; and   *)
(* who is stuck stays so.                                                  *)
(***************************************************************************)
EXTENDS MCSelect, FiniteSetTheorems, WellFoundedInduction, TLAPS

\* What the programs are started with.
Parameters == IsFiniteSet(Clients) /\ Fifos \in Nat /\ Servers \in [Kinds -> Nat]

(***************************************************************************)
(* The inductive invariant                                                 *)
(***************************************************************************)
Types ==
    /\ number \in Int /\ local \in [Clients -> Int] /\ logno \in [Clients -> Int]
    /\ client \in [Clients -> {"attach", "load", "store", "open"}]
    /\ fd \in [Clients -> Kinds \cup {"none", "main"}]
    /\ ready \subseteq Ids /\ free \in [Kinds -> Nat]
    /\ answers \in [Ids -> Seq(Kinds)]
    /\ overlap \in BOOLEAN

\* The number in shared memory, and what a client has loaded of it, is counted down at
\* most once for each client that has stored.
Stored(f) == {c \in Clients : f[c] \in {"store", "open"}}
CountedDown ==
    /\ number <= Fifos /\ number >= Fifos - Cardinality(Stored(client))
    /\ \A c \in Clients : client[c] = "load" =>
           local[c] <= Fifos /\ local[c] >= Fifos - Cardinality(Stored(client))

\* While no two clients count down at the same time, the number is below all that were
\* taken from when it is stored until it is taken.
InTurn ==
    ~overlap =>
        /\ \A c, d \in Clients : CountingDown(c) /\ CountingDown(d) => c = d
        /\ \A c \in Clients : client[c] = "load" => local[c] = number
        /\ \A c \in Clients : client[c] = "store" => number < Fifos
        /\ \A c \in Clients : client[c] = "open" => number <= logno[c] /\ logno[c] < Fifos
        /\ \A c, d \in Clients : client[c] = "store" /\ client[d] = "open" =>
               number < logno[d]
        /\ \A c, d \in Clients : client[c] = "open" /\ client[d] = "open" =>
               (logno[c] = logno[d] => c = d)

\* Servers of a kind are free, promised in an answer nobody has read, or given.
Given(f, s) == {c \in Clients : f[c] = s}
Promised(f, s) == {x \in Ids \X Nat : x[2] \in 1..Len(f[x[1]]) /\ f[x[1]][x[2]] = s}
Pool ==
    \A s \in Kinds :
        /\ IsFiniteSet(Promised(answers, s))
        /\ Cardinality(Given(fd, s)) + Cardinality(Promised(answers, s)) + free[s] <= Servers[s]

Inv == Parameters /\ Types /\ CountedDown /\ InTurn /\ Pool

-----------------------------------------------------------------------------
(***************************************************************************)
(* Counting                                                                *)
(***************************************************************************)
\* The clients of a kind are a finite set.
LEMMA GivenFinite ==
    ASSUME IsFiniteSet(Clients), NEW f, NEW s
    PROVE  IsFiniteSet(Given(f, s)) /\ Cardinality(Given(f, s)) \in Nat
  <1>1. Given(f, s) \in SUBSET Clients
    BY DEF Given
  <1>2. IsFiniteSet(Given(f, s))
    BY <1>1, FS_Subset
  <1> QED
    BY <1>2, FS_CardinalityType

LEMMA StoredFinite ==
    ASSUME IsFiniteSet(Clients), NEW f
    PROVE  /\ IsFiniteSet(Stored(f)) /\ Cardinality(Stored(f)) \in Nat
           /\ Cardinality(Stored(f)) <= Cardinality(Clients) /\ Cardinality(Clients) \in Nat
  <1>1. Stored(f) \in SUBSET Clients
    BY DEF Stored
  <1>2. IsFiniteSet(Stored(f)) /\ Cardinality(Stored(f)) <= Cardinality(Clients)
    BY <1>1, FS_Subset
  <1> QED
    BY <1>2, FS_CardinalityType

Answered(f, j, s) == [f EXCEPT ![j] = Append(f[j], s)]

\* An answer promises one server more of its kind.
LEMMA OnePromised ==
    ASSUME NEW f \in [Ids -> Seq(Kinds)], NEW j \in Ids, NEW s \in Kinds,
           NEW g, g = Answered(f, j, s), IsFiniteSet(Promised(f, s))
    PROVE  /\ IsFiniteSet(Promised(g, s))
           /\ Cardinality(Promised(g, s)) = Cardinality(Promised(f, s)) + 1
           /\ \A t \in Kinds \ {s} : Promised(g, t) = Promised(f, t)
  <1> PICK x : x = <<j, Len(f[j]) + 1>>
    OBVIOUS
  <1>1. /\ Len(f[j]) \in Nat /\ Len(g[j]) = Len(f[j]) + 1
        /\ g[j][Len(f[j]) + 1] = s /\ \A n \in 1..Len(f[j]) : g[j][n] = f[j][n]
        /\ \A i \in Ids \ {j} : g[i] = f[i]
    BY DEF Answered
  <1>2. x \notin Promised(f, s)
    BY <1>1 DEF Promised
  <1>3. \A y \in Ids \X Nat : \A t \in Kinds :
            y \in Promised(g, t) <=> y \in Promised(f, t) \/ (y = x /\ t = s)
    <2> SUFFICES ASSUME NEW y \in Ids \X Nat, NEW t \in Kinds
                 PROVE  y \in Promised(g, t) <=> y \in Promised(f, t) \/ (y = x /\ t = s)
      OBVIOUS
    <2> PICK i \in Ids, n \in Nat : y = <<i, n>>
      OBVIOUS
    <2>1. \A h : y \in Promised(h, t) <=> n \in 1..Len(h[i]) /\ h[i][n] = t
      BY DEF Promised
    <2>2. CASE i # j
      <3>1. y # x
        BY <2>2
      <3>2. g[i] = f[i]
        BY <1>1, <2>2
      <3>3. y \in Promised(g, t) <=> n \in 1..Len(g[i]) /\ g[i][n] = t
        BY <2>1
      <3>4. y \in Promised(f, t) <=> n \in 1..Len(f[i]) /\ f[i][n] = t
        BY <2>1
      <3> QED
        BY <3>1, <3>2, <3>3, <3>4
    <2>3. CASE i = j
      <3>1. y = x <=> n = Len(f[j]) + 1
        BY <2>3
      <3>2. y \in Promised(g, t) <=> n \in 1..(Len(f[j]) + 1) /\ g[j][n] = t
        BY <1>1, <2>1, <2>3
      <3>3. y \in Promised(f, t) <=> n \in 1..Len(f[j]) /\ f[j][n] = t
        BY <2>1, <2>3
      <3>4. n \in 1..(Len(f[j]) + 1) <=> n \in 1..Len(f[j]) \/ n = Len(f[j]) + 1
        BY <1>1
      <3>5. Len(f[j]) + 1 \notin 1..Len(f[j])
        BY <1>1
      <3> QED
        BY <1>1, <3>1, <3>2, <3>3, <3>4, <3>5
    <2> QED
      BY <2>2, <2>3
  <1>4. Promised(g, s) = Promised(f, s) \cup {x}
    <2>1. x \in Ids \X Nat
      BY <1>1
    <2> QED
      BY <1>3, <2>1 DEF Promised
  <1>5. \A t \in Kinds \ {s} : Promised(g, t) = Promised(f, t)
    BY <1>3 DEF Promised
  <1>6. /\ IsFiniteSet(Promised(f, s) \cup {x})
        /\ Cardinality(Promised(f, s) \cup {x}) = Cardinality(Promised(f, s)) + 1
    BY <1>2, FS_AddElement
  <1> QED
    BY <1>4, <1>5, <1>6

\* Who reads takes the promise of the first answer, and the others are lost.
LEMMA FirstTaken ==
    ASSUME NEW f \in [Ids -> Seq(Kinds)], NEW j \in Ids, f[j] # <<>>,
           NEW g, g = [f EXCEPT ![j] = <<>>], NEW s \in Kinds,
           IsFiniteSet(Promised(f, s))
    PROVE  /\ IsFiniteSet(Promised(g, s))
           /\ Cardinality(Promised(g, s)) \in Nat /\ Cardinality(Promised(f, s)) \in Nat
           /\ Cardinality(Promised(g, s)) <= Cardinality(Promised(f, s))
           /\ Head(f[j]) = s => Cardinality(Promised(g, s)) + 1 <= Cardinality(Promised(f, s))
  <1> PICK x : x = <<j, 1>>
    OBVIOUS
  <1>1. /\ Len(f[j]) \in Nat /\ Len(f[j]) # 0 /\ Head(f[j]) = f[j][1] /\ Len(g[j]) = 0
        /\ \A i \in Ids \ {j} : g[i] = f[i]
    OBVIOUS
  <1>2. \A y \in Promised(g, s) : y \in Promised(f, s) /\ y # x
    <2> SUFFICES ASSUME NEW y \in Promised(g, s) PROVE y \in Promised(f, s) /\ y # x
      OBVIOUS
    <2> PICK i \in Ids, n \in Nat : y = <<i, n>>
      BY DEF Promised
    <2>1. n \in 1..Len(g[i]) /\ g[i][n] = s
      BY DEF Promised
    <2>2. i # j
      BY <1>1, <2>1
    <2> QED
      BY <1>1, <2>1, <2>2 DEF Promised
  <1>3. Promised(g, s) \in SUBSET (Promised(f, s) \ {x}) /\ Promised(g, s) \in SUBSET Promised(f, s)
    BY <1>2
  <1>4. /\ IsFiniteSet(Promised(g, s))
        /\ Cardinality(Promised(g, s)) <= Cardinality(Promised(f, s))
    BY <1>3, FS_Subset
  <1>5. ASSUME Head(f[j]) = s
        PROVE  Cardinality(Promised(g, s)) + 1 <= Cardinality(Promised(f, s))
    <2>1. x \in Promised(f, s)
      BY <1>1, <1>5 DEF Promised
    <2>2. /\ IsFiniteSet(Promised(f, s) \ {x})
          /\ Cardinality(Promised(f, s) \ {x}) = Cardinality(Promised(f, s)) - 1
      BY <2>1, FS_RemoveElement
    <2>3. Cardinality(Promised(g, s)) <= Cardinality(Promised(f, s) \ {x})
      BY <1>3, <2>2, FS_Subset
    <2> QED
      BY <1>4, <2>2, <2>3, FS_CardinalityType
  <1> QED
    BY <1>4, <1>5, FS_CardinalityType

-----------------------------------------------------------------------------
(***************************************************************************)
(* Each action preserves the invariant                                     *)
(***************************************************************************)
LEMMA InitInv == Parameters /\ Init => Inv
  <1> SUFFICES ASSUME Parameters, Init PROVE Inv
    OBVIOUS
  <1> USE DEF Parameters, Init
  <1>1. Types
    <2>1. <<>> \in Seq(Kinds)
      OBVIOUS
    <2>2. answers \in [Ids -> Seq(Kinds)]
      BY <2>1
    <2>3. -1 \in Int /\ 0 \in Int
      OBVIOUS
    <2>4. local \in [Clients -> Int] /\ logno \in [Clients -> Int]
      BY <2>3
    <2>5. /\ client \in [Clients -> {"attach", "load", "store", "open"}]
          /\ fd \in [Clients -> Kinds \cup {"none", "main"}]
      OBVIOUS
    <2>6. number \in Int /\ ready \subseteq Ids /\ free \in [Kinds -> Nat]
      OBVIOUS
    <2>7. overlap \in BOOLEAN
      OBVIOUS
    <2> HIDE DEF Init, Parameters
    <2> QED
      BY <2>2, <2>4, <2>5, <2>6, <2>7 DEF Types
  <1>2. CountedDown
    BY StoredFinite DEF CountedDown
  <1>3. InTurn
    BY DEF InTurn, CountingDown
  <1>4. Pool
    <2> SUFFICES ASSUME NEW s \in Kinds
                 PROVE  /\ IsFiniteSet(Promised(answers, s))
                        /\ Cardinality(Given(fd, s)) + Cardinality(Promised(answers, s)) + free[s]
                               <= Servers[s]
      BY DEF Pool
    <2>1. Given(fd, s) = {}
      BY DEF Given, Kinds
    <2>2. Promised(answers, s) = {}
      BY DEF Promised
    <2>3. free[s] = Servers[s] /\ Servers[s] \in Nat
      OBVIOUS
    <2>4. /\ Cardinality(Given(fd, s)) = 0 /\ Cardinality(Promised(answers, s)) = 0
          /\ IsFiniteSet(Promised(answers, s))
      BY <2>1, <2>2, FS_EmptySet
    <2> HIDE DEF Init, Parameters
    <2> QED
      BY <2>3, <2>4
  <1> QED
    BY <1>1, <1>2, <1>3, <1>4 DEF Inv

\* Steps that change neither the number nor the pool.
LEMMA QuietInv ==
    ASSUME Inv, UNCHANGED <<number, client, local, logno, overlap, fd, answers, free>>,
           ready' \subseteq Ids
    PROVE  Inv'
  BY DEF Inv, Parameters, Types, CountedDown, InTurn, CountingDown, Pool

LEMMA LoadInv ==
    ASSUME Inv, NEW c \in Clients, Load(c)
    PROVE  Inv'
  <1> USE DEF Inv
  <1>0. /\ client[c] = "attach" /\ UNCHANGED <<number, logno, fd, answers, ready, free>>
        /\ overlap' = (overlap \/ \E d \in Clients \ {c} : CountingDown(d))
    BY DEF Load, mainserver
  <1>1. /\ client'[c] = "load" /\ \A d \in Clients \ {c} : client'[d] = client[d]
        /\ local'[c] = number /\ \A d \in Clients \ {c} : local'[d] = local[d]
    BY DEF Load, Types
  <1>2. Types'
    BY <1>0 DEF Load, Types
  <1>3. CountedDown'
    <2>1. Stored(client') = Stored(client)
      BY <1>0, <1>1 DEF Stored
    <2> QED
      BY <1>0, <1>1, <2>1 DEF CountedDown
  <1>4. InTurn'
    <2> SUFFICES ASSUME ~overlap' PROVE InTurn'
      BY DEF InTurn
    <2>1. ~overlap /\ \A d \in Clients \ {c} : ~CountingDown(d)
      BY <1>0
    <2>2. \A d \in Clients : CountingDown(d)' => d = c
      BY <1>1, <2>1 DEF CountingDown
    <2> QED
      BY <1>0, <1>1, <2>1, <2>2 DEF InTurn
  <1>5. Pool'
    BY <1>0 DEF Pool
  <1> QED
    BY <1>2, <1>3, <1>4, <1>5 DEF Parameters

LEMMA StoreInv ==
    ASSUME Inv, NEW c \in Clients, Store(c)
    PROVE  Inv'
  <1> USE DEF Inv
  <1>0. /\ client[c] = "load" /\ number' = local[c] - 1
        /\ UNCHANGED <<local, logno, fd, answers, ready, free, overlap>>
    BY DEF Store, mainserver
  <1>1. client'[c] = "store" /\ \A d \in Clients \ {c} : client'[d] = client[d]
    BY DEF Store, Types
  <1>2. local[c] \in Int /\ number \in Int /\ \A d \in Clients : logno[d] \in Int /\ local[d] \in Int
    BY DEF Types
  <1>3. Types'
    BY <1>0, <1>2 DEF Store, Types
  <1>4. CountedDown'
    <2>1. Stored(client') = Stored(client) \cup {c} /\ c \notin Stored(client)
      BY <1>0, <1>1 DEF Stored
    <2>2. Cardinality(Stored(client')) = Cardinality(Stored(client)) + 1
      BY <2>1, StoredFinite, FS_AddElement DEF Parameters
    <2>3. Cardinality(Stored(client)) \in Nat
      BY StoredFinite DEF Parameters
    <2>4. Fifos \in Nat
      BY DEF Parameters
    <2>5. number' <= Fifos /\ number' >= Fifos - Cardinality(Stored(client'))
      BY <1>0, <1>2, <2>2, <2>3, <2>4 DEF CountedDown
    <2>6. \A d \in Clients : client'[d] = "load" =>
              local'[d] <= Fifos /\ local'[d] >= Fifos - Cardinality(Stored(client'))
      BY <1>0, <1>1, <1>2, <2>2, <2>3, <2>4 DEF CountedDown
    <2> QED
      BY <2>5, <2>6 DEF CountedDown
  <1>5. InTurn'
    <2> SUFFICES ASSUME ~overlap PROVE InTurn'
      BY <1>0 DEF InTurn
    <2>1. number' = number - 1 /\ number <= Fifos /\ Fifos \in Nat
      BY <1>0 DEF InTurn, CountedDown, Parameters
    <2>2. \A d \in Clients : CountingDown(d)' => d = c
      BY <1>0, <1>1 DEF CountingDown, InTurn
    <2>3. \A d \in Clients : client'[d] = "open" => client[d] = "open"
      BY <1>1
    <2>4. \A d \in Clients : client'[d] = "open" => number' < logno'[d] /\ logno'[d] < Fifos
      BY <1>0, <1>2, <2>1, <2>3 DEF InTurn
    <2>5. \A d \in Clients : client'[d] # "load"
      BY <1>1, <2>2 DEF CountingDown
    <2>6. number' < Fifos
      BY <1>2, <2>1
    <2> QED
      BY <1>0, <1>2, <2>1, <2>2, <2>3, <2>4, <2>5, <2>6 DEF InTurn
  <1>6. Pool'
    BY <1>0 DEF Pool
  <1> QED
    BY <1>3, <1>4, <1>5, <1>6 DEF Parameters

LEMMA OpenInv ==
    ASSUME Inv, NEW c \in Clients, Open(c)
    PROVE  Inv'
  <1> USE DEF Inv
  <1>0. /\ client[c] = "store"
        /\ UNCHANGED <<number, local, answers, ready, free, overlap>>
    BY DEF Open, mainserver
  <1>1. /\ client'[c] = "open" /\ \A d \in Clients \ {c} : client'[d] = client[d]
        /\ logno'[c] = number /\ \A d \in Clients \ {c} : logno'[d] = logno[d]
        /\ fd'[c] \in {"main", "none"} /\ \A d \in Clients \ {c} : fd'[d] = fd[d]
    BY DEF Open, Types
  <1>2. number \in Int /\ \A d \in Clients : logno[d] \in Int
    BY DEF Types
  <1>3. Types'
    BY <1>0, <1>2 DEF Open, Types
  <1>4. CountedDown'
    <2>1. Stored(client') = Stored(client)
      BY <1>0, <1>1 DEF Stored
    <2> QED
      BY <1>0, <1>1, <2>1 DEF CountedDown
  <1>5. InTurn'
    <2> SUFFICES ASSUME ~overlap PROVE InTurn'
      BY <1>0 DEF InTurn
    <2>1. \A d \in Clients : ~CountingDown(d)'
      BY <1>0, <1>1 DEF CountingDown, InTurn
    <2>2. \A d \in Clients : client'[d] = "open" => d = c \/ client[d] = "open"
      BY <1>1
    <2>3. number < Fifos /\ Fifos \in Nat
      BY <1>0 DEF InTurn, Parameters
    <2>4. \A d \in Clients \ {c} : client'[d] = "open" => number < logno'[d] /\ logno'[d] < Fifos
      BY <1>0, <1>1, <2>2 DEF InTurn
    <2>5. \A d \in Clients : client'[d] = "open" => number <= logno'[d] /\ logno'[d] < Fifos
      BY <1>1, <1>2, <2>3, <2>4
    <2>6. \A d, e \in Clients : client'[d] = "open" /\ client'[e] = "open" =>
              (logno'[d] = logno'[e] => d = e)
      BY <1>1, <1>2, <2>2, <2>4 DEF InTurn
    <2>7. \A d \in Clients : client'[d] \notin {"load", "store"}
      BY <2>1 DEF CountingDown
    <2> QED
      BY <1>0, <2>1, <2>5, <2>6, <2>7 DEF InTurn
  <1>6. Pool'
    <2> SUFFICES ASSUME NEW s \in Kinds
                 PROVE  /\ IsFiniteSet(Promised(answers, s))
                        /\ Cardinality(Given(fd', s)) + Cardinality(Promised(answers, s)) + free[s]
                               <= Servers[s]
      BY <1>0 DEF Pool
    <2>1. Given(fd', s) \in SUBSET Given(fd, s)
      BY <1>1 DEF Given, Kinds
    <2>2. Cardinality(Given(fd', s)) <= Cardinality(Given(fd, s))
      BY <2>1, GivenFinite, FS_Subset DEF Parameters
    <2>3. Cardinality(Given(fd', s)) \in Nat /\ Cardinality(Given(fd, s)) \in Nat
      BY GivenFinite DEF Parameters
    <2>4. /\ IsFiniteSet(Promised(answers, s)) /\ Cardinality(Promised(answers, s)) \in Nat
          /\ free[s] \in Nat /\ Servers[s] \in Nat
          /\ Cardinality(Given(fd, s)) + Cardinality(Promised(answers, s)) + free[s] <= Servers[s]
      BY FS_CardinalityType DEF Pool, Types, Parameters
    <2> QED
      BY <2>2, <2>3, <2>4
  <1> QED
    BY <1>3, <1>4, <1>5, <1>6 DEF Parameters

LEMMA ThreadReadInv ==
    ASSUME Inv, NEW c \in Clients, thread_read(c)
    PROVE  Inv'
  <1> USE DEF Inv
  <1> PICK j : j = logno[c]
    OBVIOUS
  <1>0. /\ j \in Ids /\ answers[j] # <<>>
        /\ UNCHANGED <<number, client, local, logno, ready, free, overlap>>
        /\ answers' = [answers EXCEPT ![j] = <<>>]
        /\ fd' = [fd EXCEPT ![c] = Head(answers[j])]
    BY DEF thread_read
  <1>1. answers \in [Ids -> Seq(Kinds)] /\ answers[j] \in Seq(Kinds) /\ fd \in [Clients -> Kinds \cup {"none", "main"}]
    BY <1>0 DEF Types
  <1>2. Head(answers[j]) \in Kinds
    BY <1>0, <1>1
  <1>3. Types'
    <2>1. answers' \in [Ids -> Seq(Kinds)]
      BY <1>0, <1>1
    <2>2. fd' \in [Clients -> Kinds \cup {"none", "main"}]
      BY <1>0, <1>1, <1>2
    <2> QED
      BY <1>0, <2>1, <2>2 DEF Types
  <1>4. CountedDown' /\ InTurn'
    BY <1>0 DEF CountedDown, InTurn, CountingDown
  <1>5. Pool'
    <2> SUFFICES ASSUME NEW s \in Kinds
                 PROVE  /\ IsFiniteSet(Promised(answers', s))
                        /\ Cardinality(Given(fd', s)) + Cardinality(Promised(answers', s)) + free[s]
                               <= Servers[s]
      BY <1>0 DEF Pool
    <2>1. /\ IsFiniteSet(Promised(answers, s)) /\ free[s] \in Nat /\ Servers[s] \in Nat
          /\ Cardinality(Given(fd, s)) + Cardinality(Promised(answers, s)) + free[s] <= Servers[s]
      BY DEF Pool, Types, Parameters
    <2>2. /\ IsFiniteSet(Promised(answers', s))
          /\ Cardinality(Promised(answers', s)) \in Nat /\ Cardinality(Promised(answers, s)) \in Nat
          /\ Cardinality(Promised(answers', s)) <= Cardinality(Promised(answers, s))
          /\ Head(answers[j]) = s =>
                 Cardinality(Promised(answers', s)) + 1 <= Cardinality(Promised(answers, s))
      BY <1>0, <1>1, <2>1, FirstTaken
    <2>3. /\ Cardinality(Given(fd', s)) \in Nat /\ Cardinality(Given(fd, s)) \in Nat
          /\ IsFiniteSet(Given(fd, s))
      BY GivenFinite DEF Parameters
    <2>4. CASE Head(answers[j]) = s
      <3>1. Given(fd', s) \in SUBSET (Given(fd, s) \cup {c})
        BY <1>0, <1>1 DEF Given
      <3>2. /\ IsFiniteSet(Given(fd, s) \cup {c})
            /\ Cardinality(Given(fd, s) \cup {c}) <= Cardinality(Given(fd, s)) + 1
        BY <2>3, FS_AddElement
      <3>3. Cardinality(Given(fd', s)) <= Cardinality(Given(fd, s) \cup {c})
        BY <3>1, <3>2, FS_Subset
      <3>4. Cardinality(Given(fd, s) \cup {c}) \in Nat
        BY <3>2, FS_CardinalityType
      <3> QED
        BY <2>1, <2>2, <2>3, <2>4, <3>2, <3>3, <3>4
    <2>5. CASE Head(answers[j]) # s
      <3>1. Given(fd', s) \in SUBSET Given(fd, s)
        BY <1>0, <1>1, <2>5 DEF Given
      <3>2. Cardinality(Given(fd', s)) <= Cardinality(Given(fd, s))
        BY <2>3, <3>1, FS_Subset
      <3> QED
        BY <2>1, <2>2, <2>3, <3>2
    <2> QED
      BY <2>4, <2>5
  <1> QED
    BY <1>3, <1>4, <1>5 DEF Parameters

LEMMA ServeInv ==
    ASSUME Inv, Serve
    PROVE  Inv'
  <1> USE DEF Inv
  <1>0. PICK j, s :
        /\ UNCHANGED <<number, client, local, logno, fd, overlap>>
        /\ ready' \subseteq Ids
        /\ \/ /\ s \in Kinds /\ free[s] > 0 /\ free' = [free EXCEPT ![s] = free[s] - 1]
              /\ answers' = [answers EXCEPT ![j] = Append(answers[j], s)]
           \/ UNCHANGED <<free, answers>>
    BY DEF Serve, HasServer, Types
  <1>1. CASE UNCHANGED <<free, answers>>
    BY <1>0, <1>1, QuietInv
  <1>2. CASE /\ s \in Kinds /\ free[s] > 0 /\ free' = [free EXCEPT ![s] = free[s] - 1]
             /\ answers' = [answers EXCEPT ![j] = Append(answers[j], s)]
    <2>0. answers \in [Ids -> Seq(Kinds)] /\ free \in [Kinds -> Nat] /\ free[s] \in Nat
      BY <1>2 DEF Types
    <2>1. /\ free' \in [Kinds -> Nat] /\ free'[s] = free[s] - 1
          /\ \A t \in Kinds \ {s} : free'[t] = free[t]
      BY <1>2, <2>0
    <2>2. CASE j \notin Ids
      <3>1. answers' = answers
        BY <1>2, <2>0, <2>2
      <3>2. Pool'
        <4>1. \A t \in Kinds : free'[t] <= free[t] /\ free'[t] \in Nat /\ free[t] \in Nat
          BY <1>2, <2>0, <2>1
        <4>2. \A t \in Kinds : /\ Cardinality(Given(fd, t)) \in Nat /\ Servers[t] \in Nat
                               /\ Cardinality(Promised(answers, t)) \in Nat
          BY GivenFinite, FS_CardinalityType DEF Parameters, Pool
        <4>3. \A a, b, m, n, k \in Nat : m <= n /\ a + b + n <= k => a + b + m <= k
          OBVIOUS
        <4> QED
          BY <1>0, <3>1, <4>1, <4>2, <4>3 DEF Pool
      <3>3. Types'
        BY <1>0, <2>1, <3>1 DEF Types
      <3>4. CountedDown' /\ InTurn'
        BY <1>0 DEF CountedDown, InTurn, CountingDown
      <3> QED
        BY <3>2, <3>3, <3>4 DEF Parameters
    <2>3. CASE j \in Ids
      <3>1. answers' \in [Ids -> Seq(Kinds)]
        BY <1>2, <2>0, <2>3
      <3>2. Types'
        BY <1>0, <2>1, <3>1 DEF Types
      <3>3. CountedDown' /\ InTurn'
        BY <1>0 DEF CountedDown, InTurn, CountingDown
      <3>4. IsFiniteSet(Promised(answers, s))
        BY <1>2 DEF Pool
      <3>5. /\ IsFiniteSet(Promised(answers', s))
            /\ Cardinality(Promised(answers', s)) = Cardinality(Promised(answers, s)) + 1
            /\ \A t \in Kinds \ {s} : Promised(answers', t) = Promised(answers, t)
        <4> PICK f, g : f = answers /\ g = answers'
          OBVIOUS
        <4>1. /\ f \in [Ids -> Seq(Kinds)] /\ s \in Kinds /\ IsFiniteSet(Promised(f, s))
              /\ g = Answered(f, j, s)
          BY <1>2, <2>0, <3>4 DEF Answered
        <4>2. /\ IsFiniteSet(Promised(g, s))
              /\ Cardinality(Promised(g, s)) = Cardinality(Promised(f, s)) + 1
              /\ \A t \in Kinds \ {s} : Promised(g, t) = Promised(f, t)
          BY <2>3, <4>1, OnePromised
        <4> QED
          BY <4>2
      <3>6. Pool'
        <4> SUFFICES ASSUME NEW t \in Kinds
                     PROVE  /\ IsFiniteSet(Promised(answers', t))
                            /\ Cardinality(Given(fd, t)) + Cardinality(Promised(answers', t)) + free'[t]
                                   <= Servers[t]
          BY <1>0 DEF Pool
        <4>1. /\ Cardinality(Given(fd, t)) \in Nat /\ Servers[t] \in Nat /\ free[t] \in Nat
              /\ IsFiniteSet(Promised(answers, t)) /\ Cardinality(Promised(answers, t)) \in Nat
              /\ Cardinality(Given(fd, t)) + Cardinality(Promised(answers, t)) + free[t] <= Servers[t]
          BY <2>0, GivenFinite, FS_CardinalityType DEF Parameters, Pool
        <4>2. CASE t = s
          BY <1>2, <2>1, <3>5, <4>1, <4>2
        <4>3. CASE t # s
          BY <2>1, <3>5, <4>1, <4>3
        <4> QED
          BY <4>2, <4>3
      <3> QED
        BY <3>2, <3>3, <3>6 DEF Parameters
    <2> QED
      BY <2>2, <2>3
  <1> QED
    BY <1>0, <1>1, <1>2

LEMMA NextInv == ASSUME Inv, [Next]_vars PROVE Inv'
  <1>0. ready \subseteq Ids
    BY DEF Inv, Types
  <1>1. CASE Select
    BY <1>1, QuietInv DEF Select
  <1>2. CASE Serve
    BY <1>2, ServeInv
  <1>3. ASSUME NEW c \in Clients, ClientStep(c) PROVE Inv'
    <2>1. CASE Load(c)
      BY <2>1, LoadInv
    <2>2. CASE Store(c)
      BY <2>2, StoreInv
    <2>3. CASE Open(c)
      BY <2>3, OpenInv
    <2>4. CASE thread_write(c)
      BY <1>0, <2>4, QuietInv DEF thread_write
    <2>5. CASE thread_read(c)
      BY <2>5, ThreadReadInv
    <2>6. CASE ReadFails(c)
      BY <1>0, <2>6, QuietInv DEF ReadFails, mainserver
    <2>7. CASE SetGot(c)
      BY <1>0, <2>7, QuietInv DEF SetGot, mainserver
    <2>8. CASE Talk(c)
      BY <1>0, <2>8, QuietInv DEF Talk
    <2> QED
      BY <1>3, <2>1, <2>2, <2>3, <2>4, <2>5, <2>6, <2>7, <2>8 DEF ClientStep
  <1>4. ASSUME NEW s \in Kinds, ServerReads(s) PROVE Inv'
    BY <1>0, <1>4, QuietInv DEF ServerReads, mainserver
  <1>5. CASE UNCHANGED vars
    BY <1>0, <1>5, QuietInv DEF vars
  <1> QED
    BY <1>1, <1>2, <1>3, <1>4, <1>5 DEF Next, MainStep

\* The invariant gives the properties: what is given is part of the pool.
LEMMA InvAllotted == Inv => MultiAllotted
  <1> SUFFICES ASSUME Inv PROVE MultiAllotted
    OBVIOUS
  <1> USE DEF Inv
  <1>1. TypeOK
    <2>1. /\ Cardinality(Stored(client)) \in Nat /\ Cardinality(Clients) \in Nat
          /\ Cardinality(Stored(client)) <= Cardinality(Clients) /\ Fifos \in Nat /\ number \in Int
      BY StoredFinite DEF Parameters, Types
    <2>2. number \in Fifos - Cardinality(Clients) .. Fifos
      BY <2>1 DEF CountedDown
    <2> QED
      BY <2>2 DEF TypeOK, Types
  <1>2. NotOversold
    <2> SUFFICES ASSUME NEW s \in Kinds PROVE Cardinality(On(s)) <= Servers[s]
      BY DEF NotOversold
    <2>1. /\ Cardinality(Given(fd, s)) \in Nat /\ Servers[s] \in Nat /\ free[s] \in Nat
          /\ Cardinality(Promised(answers, s)) \in Nat
          /\ Cardinality(Given(fd, s)) + Cardinality(Promised(answers, s)) + free[s] <= Servers[s]
      BY GivenFinite, FS_CardinalityType DEF Parameters, Pool, Types
    <2>2. On(s) = Given(fd, s)
      BY DEF On, Given
    <2> QED
      BY <2>1, <2>2
  <1>3. OwnFifo
    BY DEF OwnFifo, InTurn
  <1> QED
    BY <1>1, <1>2, <1>3 DEF MultiAllotted

-----------------------------------------------------------------------------
(***************************************************************************)
(* The theorem                                                             *)
(***************************************************************************)
\* Whatever the numbers of clients, FIFOs and servers, however the clients count down,
\* share FIFOs and take each other's answers: no more clients on a kind of server than
\* servers of it, and FIFOs are shared or missed only after decrements at the same time.
\* (client.c and mainserver.c of select_servers/multiserver)
THEOREM PoolIsNotOversold == Parameters /\ Spec => []MultiAllotted
  <1>1. Parameters /\ Init => Inv
    BY InitInv
  <1>2. Inv /\ [Next]_vars => Inv'
    BY NextInv
  <1>3. Inv => MultiAllotted
    BY InvAllotted
  <1> QED
    BY <1>1, <1>2, <1>3, PTL DEF Spec

-----------------------------------------------------------------------------
(***************************************************************************)
(* ServiceServer: the flag may swallow requests but invents none, and only *)
(* the first server is ever given to a second client.                      *)
(***************************************************************************)
\* What the programs are started with.
ServiceParameters == IsFiniteSet(Clients) /\ Count \in Nat \ {0} /\ Nobody \notin Service!Ids

SomeoneLeft == \E x \in Clients : se_client[x] = "quit"

(***************************************************************************)
(* The inductive invariant                                                 *)
(***************************************************************************)
ServiceTypes ==
    /\ Service!TypeOK
    /\ se_client \in [Clients -> {"off", "idle", "asked", "quit"}]
    /\ se_clientfifo \in Seq({"server", "quit"}) /\ se_clientfifowrite \in Seq(Service!Ids)
    /\ se_writer \in {"poll", "seen", "give"} /\ se_asks \in Nat
    /\ se_heard \in [Service!Ids -> SUBSET (Clients \X {"server", "line"})]

\* Every request made is in the FIFO, behind the flag, being answered, answered or
\* lost.  However many are in the FIFO, one read makes one of them.
Unread == \E i \in 1..Len(se_clientfifo) : se_clientfifo[i] = "server"
One(b) == IF b THEN 1 ELSE 0
ServiceRequests ==
    /\ Cardinality(Service!Given) + Len(se_clientfifowrite) + One(se_writer = "give")
          + One(se_gotserver)
           + One(Unread) <= se_asks
    /\ se_writer = "seen" => se_gotserver
    /\ se_asks > 0 => \E d \in Clients : se_client[d] \in {"asked", "quit"}
    /\ \A i \in 1..Len(se_clientfifo) : se_clientfifo[i] = "quit" => SomeoneLeft

\* A server is marked as given exactly when a client has it or an answer names it,
\* except the first after someone left.
Named(n) ==
    \/ \E c \in Clients : se_fd[c] = n
    \/ \E i \in 1..Len(se_clientfifowrite) : se_clientfifowrite[i] = n
Marked ==
    \A n \in Service!Ids :
        /\ se_status[n] = 1 => Named(n)
        /\ Named(n) => se_status[n] = 1 \/ (n = 0 /\ SomeoneLeft)

\* While there are servers for all requests, no server is named twice, by clients or
\* answers, except the first after someone left.
Once(n) == n # 0 \/ ~SomeoneLeft
NamedOnce ==
    se_asks <= Count => \A n \in Service!Ids : Once(n) =>
        /\ \A c, d \in Clients : se_fd[c] = n /\ se_fd[d] = n => c = d
        /\ \A i, j \in 1..Len(se_clientfifowrite) :
               se_clientfifowrite[i] = n /\ se_clientfifowrite[j] = n => i = j
        /\ \A c \in Clients, i \in 1..Len(se_clientfifowrite) :
               ~(se_fd[c] = n /\ se_clientfifowrite[i] = n)

ServiceInv == ServiceParameters /\ ServiceTypes /\ ServiceRequests /\ Marked /\ NamedOnce /\
      Service!StrayRequest

-----------------------------------------------------------------------------
(***************************************************************************)
(* Numbers, sequences and counting                                         *)
(***************************************************************************)
\* A set of numbers that is not empty has a smallest one.
LEMMA Smallest ==
    ASSUME NEW T, T \subseteq Nat, T # {}
    PROVE  \E x \in T : \A y \in T : x <= y
  <1>1. PICK x \in T : \A y \in T : ~(<<y, x>> \in OpToRel(<, Nat))
    BY NatLessThanWellFounded, WFMin
  <1>2. ASSUME NEW y \in T PROVE x <= y
    <2>1. <<y, x>> \notin OpToRel(<, Nat)
      BY <1>1
    <2>2. ~(y < x)
      BY <2>1 DEF OpToRel
    <2> QED
      BY <2>2
  <1> QED
    BY <1>2

LEMMA AnswerAppend ==
    ASSUME NEW S, NEW q \in Seq(S), NEW x \in S
    PROVE  /\ Append(q, x) \in Seq(S)
           /\ Len(q) \in Nat /\ Len(Append(q, x)) = Len(q) + 1
           /\ \A i \in 1..Len(q) : Append(q, x)[i] = q[i]
           /\ Append(q, x)[Len(q) + 1] = x
           /\ \A i \in 1..(Len(q) + 1) : i \in 1..Len(q) \/ i = Len(q) + 1
  OBVIOUS

LEMMA AnswerTail ==
    ASSUME NEW S, NEW q \in Seq(S), q # <<>>
    PROVE  /\ Tail(q) \in Seq(S) /\ Len(q) \in Nat /\ Len(Tail(q)) = Len(q) - 1
           /\ 1 \in 1..Len(q) /\ Head(q) = q[1] /\ Head(q) \in S
           /\ \A i \in 1..Len(Tail(q)) : i + 1 \in 1..Len(q) /\ Tail(q)[i] = q[i + 1]
           /\ \A i \in 1..Len(q) : i = 1 \/ (i - 1 \in 1..Len(Tail(q)) /\ Tail(q)[i - 1] =
                 q[i])
  OBVIOUS

\* The clients with a server are counted.
LEMMA ServiceGivenFinite ==
    ASSUME ServiceParameters
    PROVE  IsFiniteSet(Service!Given) /\ Cardinality(Service!Given) \in Nat
  <1>1. Service!Given \in SUBSET Clients
    BY DEF Service!Given
  <1>2. IsFiniteSet(Service!Given)
    BY <1>1, FS_Subset DEF ServiceParameters
  <1> QED
    BY <1>2, FS_CardinalityType

\* The values of a function on a finite set are no more than its arguments.
LEMMA ValuesFinite ==
    ASSUME NEW S, IsFiniteSet(S), NEW f
    PROVE  LET T == {f[x] : x \in S}
           IN  IsFiniteSet(T) /\ Cardinality(T) <= Cardinality(S) /\ Cardinality(T) \in Nat
  <1> DEFINE T == {f[x] : x \in S}
  <1> DEFINE g == [x \in S |-> f[x]]
  <1>1. g \in [S -> T]
    OBVIOUS
  <1>2. \A t \in T : \E x \in S : g[x] = t
    OBVIOUS
  <1>3. g \in Surjection(S, T)
    BY <1>1, <1>2 DEF Surjection
  <1> HIDE DEF T, g
  <1>4. IsFiniteSet(T) /\ Cardinality(T) <= Cardinality(S)
    BY <1>3, FS_Surjection
  <1>5. Cardinality(T) \in Nat
    BY <1>4, FS_CardinalityType
  <1> QED
    BY <1>4, <1>5 DEF T

\* When every server is named, the clients with a server and the answers are as many
\* as the servers.
LEMMA AllNamed ==
    ASSUME ServiceParameters, ServiceTypes, \A n \in Service!Ids : Named(n)
    PROVE  Count <= Cardinality(Service!Given) + Len(se_clientfifowrite)
  <1> DEFINE A == {se_fd[c] : c \in Service!Given}
  <1> DEFINE B == {se_clientfifowrite[i] : i \in 1..Len(se_clientfifowrite)}
  <1>0. Len(se_clientfifowrite) \in Nat /\ Count \in Nat \ {0}
    BY DEF ServiceTypes, ServiceParameters
  <1>1. /\ IsFiniteSet(A) /\ Cardinality(A) <= Cardinality(Service!Given) /\
             Cardinality(A) \in Nat
        /\ Cardinality(Service!Given) \in Nat
    BY ServiceGivenFinite, ValuesFinite
  <1>2. IsFiniteSet(1..Len(se_clientfifowrite))
    BY <1>0, FS_Interval
  <1>3. Cardinality(1..Len(se_clientfifowrite)) = Len(se_clientfifowrite)
    <2>1. Cardinality(1..Len(se_clientfifowrite)) =
              IF 1 > Len(se_clientfifowrite) THEN 0 ELSE Len(se_clientfifowrite) - 1 + 1
      BY <1>0, FS_Interval
    <2> QED
      BY <1>0, <2>1
  <1>4. IsFiniteSet(B) /\ Cardinality(B) <= Len(se_clientfifowrite) /\ Cardinality(B) \in Nat
    BY <1>2, <1>3, ValuesFinite
  <1>5. Service!Ids \subseteq A \cup B
    BY DEF Named, Service!Given, ServiceParameters
  <1> HIDE DEF A, B
  <1>6. IsFiniteSet(A \cup B) /\ Cardinality(A \cup B) <= Cardinality(A) + Cardinality(B)
    <2>1. IsFiniteSet(A \cap B)
      BY <1>1, FS_Subset
    <2>2. Cardinality(A \cap B) \in Nat
      BY <2>1, FS_CardinalityType
    <2>3. /\ IsFiniteSet(A \cup B)
          /\ Cardinality(A \cup B) = Cardinality(A) + Cardinality(B) - Cardinality(A \cap B)
      BY <1>1, <1>4, FS_Union
    <2> QED
      BY <1>1, <1>4, <2>2, <2>3
  <1>7. Cardinality(Service!Ids) = Count
    <2>1. 0 \in Int /\ Count - 1 \in Int
      BY <1>0
    <2>2. Cardinality(0 .. Count - 1) = IF 0 > Count - 1 THEN 0 ELSE Count - 1 - 0 + 1
      BY <2>1, FS_Interval
    <2> QED
      BY <1>0, <2>2 DEF Service!Ids
  <1>8. Service!Ids \in SUBSET (A \cup B)
    BY <1>5
  <1>9. Cardinality(Service!Ids) <= Cardinality(A \cup B)
    BY <1>6, <1>8, FS_Subset
  <1>10. Cardinality(A \cup B) \in Nat
    BY <1>6, FS_CardinalityType
  <1> QED
    BY <1>0, <1>1, <1>4, <1>6, <1>7, <1>9, <1>10

\* What thread_write gives is a server, and a free one if there is any.
LEMMA FirstFreeFacts ==
    ASSUME ServiceParameters, ServiceTypes
    PROVE  /\ Service!FirstFree \in Service!Ids
           /\ (\E n \in Service!Ids : se_status[n] = 0) => se_status[Service!FirstFree] = 0
  <1>1. CASE \E n \in Service!Ids : se_status[n] = 0
    <2> DEFINE T == {n \in Service!Ids : se_status[n] = 0}
    <2>1. T \subseteq Nat /\ T # {}
      BY <1>1 DEF Service!Ids, ServiceParameters
    <2>2. \E x \in T : \A y \in T : x <= y
      BY <2>1, Smallest
    <2>3. \E n \in Service!Ids : se_status[n] = 0 /\ \A m \in Service!Ids : se_status[m] =
            0 => n <= m
      BY <2>2
    <2>4. Service!FirstFree = CHOOSE n \in Service!Ids : se_status[n] = 0 /\
            \A m \in Service!Ids : se_status[m] = 0 => n <= m
      BY <1>1 DEF Service!FirstFree
    <2> QED
      BY <2>3, <2>4
  <1>2. CASE ~\E n \in Service!Ids : se_status[n] = 0
    BY <1>2 DEF Service!FirstFree, ServiceTypes, Service!TypeOK
  <1> QED
    BY <1>1, <1>2

-----------------------------------------------------------------------------
(***************************************************************************)
(* The parts of the invariant that a step leaves alone                     *)
(***************************************************************************)
\* Clients that have left stay so.
LEMMA LeftStays ==
    ASSUME UNCHANGED se_client PROVE SomeoneLeft => SomeoneLeft'
  BY DEF SomeoneLeft

LEMMA MarkedStays ==
    ASSUME Marked, UNCHANGED <<se_fd, se_clientfifowrite, se_status>>, SomeoneLeft =>
             SomeoneLeft'
    PROVE  Marked'
  BY DEF Marked, Named, Service!Ids

LEMMA OnceStays ==
    ASSUME NamedOnce, UNCHANGED <<se_fd, se_clientfifowrite>>, SomeoneLeft => SomeoneLeft',
           se_asks' <= Count => se_asks <= Count
    PROVE  NamedOnce'
  BY DEF NamedOnce, Once, Service!Ids

LEMMA StrayStays ==
    ASSUME Service!StrayRequest, UNCHANGED <<se_fd, se_heard>>,
           \A d \in Clients : se_client[d] \in {"asked", "quit"} =>
                 se_client'[d] \in {"asked", "quit"}
    PROVE  Service!StrayRequest'
  BY DEF Service!StrayRequest, Service!Ids

LEMMA ServiceParametersStay == ServiceParameters => ServiceParameters'
  BY DEF ServiceParameters, Service!Ids

\* Steps of the main server that change neither the table nor the answers.
LEMMA TableStays ==
    ASSUME ServiceInv, UNCHANGED <<se_fd, se_clientfifowrite, se_status, se_client, se_heard,
             se_asks>>
    PROVE  ServiceParameters' /\ Marked' /\ NamedOnce' /\ Service!StrayRequest'
  BY LeftStays, MarkedStays, OnceStays, StrayStays, ServiceParametersStay DEF ServiceInv

-----------------------------------------------------------------------------
(***************************************************************************)
(* One lemma for each step                                                 *)
(***************************************************************************)
LEMMA ServiceInitInv == ServiceParameters /\ Service!Init => ServiceInv
  <1> SUFFICES ASSUME ServiceParameters, Service!Init PROVE ServiceInv
    OBVIOUS
  <1>0. 0 \in Service!Ids /\ Nobody \notin Service!Ids
    BY DEF ServiceParameters, Service!Ids
  <1>1. ServiceTypes
    <2>1. Service!TypeOK
      BY <1>0 DEF Service!Init, Service!TypeOK
    <2> QED
      BY <2>1 DEF Service!Init, ServiceTypes
  <1>2. Service!Given = {}
    BY DEF Service!Init, Service!Given
  <1>3. ServiceRequests
    <2>1. Cardinality(Service!Given) = 0
      BY <1>2, FS_EmptySet
    <2> QED
      BY <2>1 DEF Service!Init, ServiceRequests, One, Unread
  <1>4. Marked
    BY <1>0 DEF Service!Init, Marked, Named
  <1>5. NamedOnce
    BY <1>0 DEF Service!Init, NamedOnce
  <1>6. Service!StrayRequest
    BY DEF Service!Init, Service!StrayRequest
  <1> QED
    BY <1>1, <1>3, <1>4, <1>5, <1>6 DEF ServiceInv

LEMMA ServiceStartInv ==
    ASSUME ServiceInv, NEW c \in Clients, Service!Start(c) PROVE ServiceInv'
  <1>1. ServiceTypes'
    BY DEF ServiceInv, ServiceTypes, Service!TypeOK, Service!Start, Service!main, Service!Ids
  <1>2. \A d \in Clients : se_client[d] \in {"asked", "quit"} => se_client'[d] = se_client[d]
    BY DEF ServiceInv, ServiceTypes, Service!Start
  <1>3. SomeoneLeft => SomeoneLeft'
    BY <1>2 DEF SomeoneLeft
  <1>4. ServiceRequests'
    BY <1>2, <1>3 DEF ServiceInv, ServiceRequests, Service!Start, Service!main, Service!Given,
       Unread, One
  <1> QED
    BY <1>1, <1>2, <1>3, <1>4, MarkedStays, OnceStays, StrayStays, ServiceParametersStay
       DEF ServiceInv, Service!Start, Service!main

LEMMA ServiceSetGotInv ==
    ASSUME ServiceInv, NEW c \in Clients, Service!SetGot(c) PROVE ServiceInv'
  <1>1. ServiceTypes'
    BY DEF ServiceInv, ServiceTypes, Service!TypeOK, Service!SetGot, Service!main, Service!Ids
  <1>2. ServiceRequests'
    BY DEF ServiceInv, ServiceRequests, Service!SetGot, Service!main, Service!Given, Unread,
       One, SomeoneLeft
  <1> QED
    BY <1>1, <1>2, TableStays DEF ServiceInv, Service!SetGot, Service!main

LEMMA ServiceTalkInv ==
    ASSUME ServiceInv, NEW c \in Clients, Service!Talk(c) PROVE ServiceInv'
  <1>1. ServiceTypes'
    BY DEF ServiceInv, ServiceTypes, Service!TypeOK, Service!Talk, Service!main, Service!Ids
  <1>2. ServiceRequests'
    BY DEF ServiceInv, ServiceRequests, Service!Talk, Service!main, Service!Given, Unread,
       One, SomeoneLeft
  <1>3. \A n \in Service!Ids, d \in Clients : <<d, "server">> \in se_heard'[n] => <<d,
          "server">> \in se_heard[n]
    BY DEF Service!Talk, ServiceInv, ServiceTypes
  <1>4. Service!StrayRequest'
    BY <1>3 DEF Service!StrayRequest, ServiceInv, Service!Talk, Service!Ids
  <1> QED
    BY <1>1, <1>2, <1>4, LeftStays, MarkedStays, OnceStays, ServiceParametersStay
       DEF ServiceInv, Service!Talk, Service!main

LEMMA ServiceServerReadsInv ==
    ASSUME ServiceInv, NEW n \in Service!Ids, Service!ServerReads(n) PROVE ServiceInv'
  <1>1. ServiceTypes'
    BY DEF ServiceInv, ServiceTypes, Service!TypeOK, Service!ServerReads, Service!main,
       Service!Ids
  <1>2. ServiceRequests'
    BY DEF ServiceInv, ServiceRequests, Service!ServerReads, Service!main, Service!Given,
       Unread, One, SomeoneLeft
  <1>3. \A m \in Service!Ids, d \in Clients : <<d, "server">> \in se_heard'[m] => <<d,
          "server">> \in se_heard[m]
    BY DEF Service!ServerReads, ServiceInv, ServiceTypes
  <1>4. Service!StrayRequest'
    BY <1>3 DEF Service!StrayRequest, ServiceInv, Service!ServerReads, Service!Ids
  <1> QED
    BY <1>1, <1>2, <1>4, LeftStays, MarkedStays, OnceStays, ServiceParametersStay
       DEF ServiceInv, Service!ServerReads, Service!main

LEMMA ServiceSeeFlagInv ==
    ASSUME ServiceInv, Service!SeeFlag PROVE ServiceInv'
  <1>1. ServiceTypes'
    BY DEF ServiceInv, ServiceTypes, Service!TypeOK, Service!SeeFlag, Service!Ids
  <1>2. ServiceRequests'
    BY DEF ServiceInv, ServiceRequests, Service!SeeFlag, Service!Given, Unread, One,
       SomeoneLeft
  <1> QED
    BY <1>1, <1>2, TableStays DEF ServiceInv, Service!SeeFlag

LEMMA ServiceClearFlagInv ==
    ASSUME ServiceInv, Service!ClearFlag PROVE ServiceInv'
  <1>1. ServiceTypes'
    BY DEF ServiceInv, ServiceTypes, Service!TypeOK, Service!ClearFlag, Service!Ids
  <1>2. ServiceRequests'
    <2>1. Service!Given' = Service!Given /\ (Unread' <=> Unread) /\
            (SomeoneLeft' <=> SomeoneLeft)
      BY DEF Service!ClearFlag, Service!Given, Unread, SomeoneLeft
    <2>2. /\ One(se_writer = "give") = 0 /\ One(se_gotserver) = 1 /\ One(Unread)' = One(Unread)
          /\ One(se_writer = "give")' = 1 /\ One(se_gotserver)' = 0
      BY <2>1 DEF Service!ClearFlag, ServiceInv, ServiceRequests, One
    <2>3. /\ Cardinality(Service!Given) \in Nat /\ Len(se_clientfifowrite) \in Nat
          /\ One(Unread) \in Nat /\ se_asks \in Nat
      BY ServiceGivenFinite DEF ServiceInv, ServiceTypes, One
    <2>4. Cardinality(Service!Given) + Len(se_clientfifowrite) + 0 + 1 + One(Unread) <= se_asks
      BY <2>2 DEF ServiceInv, ServiceRequests
    <2>5. (Cardinality(Service!Given) + Len(se_clientfifowrite) + One(se_writer = "give")
            + One(se_gotserver)
              + One(Unread) <= se_asks)'
      BY <2>1, <2>2, <2>3, <2>4 DEF Service!ClearFlag
    <2> QED
      BY <2>1, <2>5 DEF ServiceInv, ServiceRequests, Service!ClearFlag
  <1> QED
    BY <1>1, <1>2, TableStays DEF ServiceInv, Service!ClearFlag

\* A client that asks while it has a server writes to that server; somebody asked before.
LEMMA ServiceAskInv ==
    ASSUME ServiceInv, NEW c \in Clients, Service!Ask(c) PROVE ServiceInv'
  <1>0. /\ se_asks \in Nat /\ se_clientfifo \in Seq({"server", "quit"})
        /\ Cardinality(Service!Given) \in Nat /\ Len(se_clientfifowrite) \in Nat
        /\ One(se_writer = "give") \in {0, 1} /\ One(se_gotserver) \in {0, 1} /\
              One(Unread) \in {0, 1}
    BY ServiceGivenFinite DEF ServiceInv, ServiceTypes, One
  <1>1. /\ \A d \in Clients : se_client[d] \in {"asked", "quit"} => se_client'[d] =
             se_client[d]
        /\ se_client'[c] = "asked" /\ se_client[c] = "idle"
    BY DEF ServiceInv, ServiceTypes, Service!Ask
  <1>2. SomeoneLeft => SomeoneLeft'
    BY <1>1 DEF SomeoneLeft
  <1>3. Service!Given' = Service!Given /\ One(se_writer = "give")' = One(se_writer = "give")
        /\ One(se_gotserver)' = One(se_gotserver) /\ UNCHANGED <<se_clientfifowrite, se_fd,
              se_status>>
    BY DEF Service!Ask, Service!main, Service!Given, One
  <1>4. CASE se_fd[c] = Nobody
    <2>1. se_clientfifo' = Append(se_clientfifo, "server") /\ se_asks' = se_asks + 1 /\
            UNCHANGED se_heard
      BY <1>4 DEF Service!Ask
    <2>2. /\ se_clientfifo' \in Seq({"server", "quit"})
          /\ \A i \in 1..Len(se_clientfifo') :
                 se_clientfifo'[i] = "server" \/ (i \in 1..Len(se_clientfifo) /\
                       se_clientfifo'[i] = se_clientfifo[i])
      BY <1>0, <2>1, AnswerAppend
    <2>3. ServiceTypes'
      BY <1>0, <2>1, <2>2 DEF ServiceInv, ServiceTypes, Service!TypeOK, Service!Ask,
         Service!main, Service!Ids
    <2>4. One(Unread)' \in {0, 1}
      BY DEF One
    <2>5. (Cardinality(Service!Given) + Len(se_clientfifowrite) + One(se_writer = "give")
            + One(se_gotserver)
              + One(Unread) <= se_asks)'
      <3>1. Cardinality(Service!Given) + Len(se_clientfifowrite) + One(se_writer = "give")
              + One(se_gotserver)
                + One(Unread) <= se_asks
        BY DEF ServiceInv, ServiceRequests
      <3> QED
        BY <1>0, <1>3, <2>1, <2>4, <3>1
    <2>6. ServiceRequests'
      BY <1>1, <1>2, <2>2, <2>5 DEF ServiceInv, ServiceRequests, Service!Ask, Service!main
    <2>7. se_asks' <= Count => se_asks <= Count
      BY <1>0, <2>1 DEF ServiceInv, ServiceParameters
    <2> QED
      BY <1>1, <1>2, <1>3, <2>1, <2>3, <2>6, <2>7, MarkedStays, OnceStays, StrayStays,
         ServiceParametersStay DEF ServiceInv
  <1>5. CASE se_fd[c] # Nobody
    <2>1. /\ se_heard' = [se_heard EXCEPT ![se_fd[c]] = @ \cup {<<c, "server">>}]
          /\ UNCHANGED <<se_clientfifo, se_asks>> /\ se_fd[c] \in Service!Ids
      BY <1>5 DEF Service!Ask, ServiceInv, ServiceTypes, Service!TypeOK
    <2>2. ServiceTypes'
      BY <2>1 DEF ServiceInv, ServiceTypes, Service!TypeOK, Service!Ask, Service!main,
         Service!Ids
    <2>3. Unread' <=> Unread
      BY <2>1 DEF Unread
    <2>4. ServiceRequests'
      BY <1>1, <1>2, <1>3, <2>1, <2>3 DEF ServiceInv, ServiceRequests, Service!Ask,
         Service!main, One
    <2>5. \E d \in Clients \ {c} : se_client[d] \in {"asked", "quit"}
      <3>1. c \in Service!Given
        BY <1>5 DEF Service!Given
      <3>2. Cardinality(Service!Given) # 0
        BY <3>1, ServiceGivenFinite, FS_EmptySet DEF ServiceInv
      <3>3. se_asks > 0
        BY <1>0, <3>2 DEF ServiceInv, ServiceRequests
      <3> QED
        BY <1>1, <3>3 DEF ServiceInv, ServiceRequests
    <2>6. \A n \in Service!Ids, d \in Clients : <<d, "server">> \in se_heard'[n] =>
              <<d, "server">> \in se_heard[n] \/ (d = c /\ n = se_fd[c])
      BY <2>1 DEF ServiceInv, ServiceTypes
    <2>7. Service!StrayRequest'
      <3> SUFFICES ASSUME NEW n \in Service!Ids, NEW d \in Clients, <<d,
                            "server">> \in se_heard'[n]
                   PROVE  se_fd'[d] = n /\ \E x \in Clients \ {d} :
                            se_client'[x] \in {"asked", "quit"}
        BY DEF Service!StrayRequest, Service!Ids
      <3>1. CASE <<d, "server">> \in se_heard[n]
        BY <1>1, <1>3, <3>1 DEF ServiceInv, Service!StrayRequest
      <3>2. CASE d = c /\ n = se_fd[c]
        BY <1>1, <1>3, <2>5, <3>2
      <3> QED
        BY <2>6, <3>1, <3>2
    <2> QED
      BY <1>2, <1>3, <2>1, <2>2, <2>4, <2>7, MarkedStays, OnceStays, ServiceParametersStay
         DEF ServiceInv
  <1> QED
    BY <1>4, <1>5

LEMMA ServiceQuitInv ==
    ASSUME ServiceInv, NEW c \in Clients, Service!Quit(c) PROVE ServiceInv'
  <1>1. /\ \A d \in Clients : se_client[d] \in {"asked", "quit"} =>
             se_client'[d] \in {"asked", "quit"}
        /\ \A d \in Clients : se_client[d] = "quit" => se_client'[d] = "quit"
        /\ se_client'[c] = "quit"
    BY DEF ServiceInv, ServiceTypes, Service!Quit
  <1>2. SomeoneLeft'
    BY <1>1 DEF SomeoneLeft
  <1>3. /\ se_clientfifo \in Seq({"server", "quit"}) /\ se_clientfifo' = Append(se_clientfifo,
             "quit")
        /\ UNCHANGED <<se_clientfifowrite, se_fd, se_status, se_heard, se_asks, se_writer,
              se_gotserver>>
    BY DEF ServiceInv, ServiceTypes, Service!Quit, Service!main
  <1>4. /\ se_clientfifo' \in Seq({"server", "quit"})
        /\ \A i \in 1..Len(se_clientfifo') :
              se_clientfifo'[i] = "quit" \/ (i \in 1..Len(se_clientfifo) /\
                    se_clientfifo'[i] = se_clientfifo[i])
        /\ \A i \in 1..Len(se_clientfifo) : i \in 1..Len(se_clientfifo') /\
              se_clientfifo'[i] = se_clientfifo[i]
    BY <1>3, AnswerAppend
  <1>5. ServiceTypes'
    BY <1>3, <1>4 DEF ServiceInv, ServiceTypes, Service!TypeOK, Service!Quit, Service!main,
       Service!Ids
  <1>6. Unread' <=> Unread
    BY <1>4 DEF Unread
  <1>7. Service!Given' = Service!Given
    BY <1>3 DEF Service!Given
  <1>8. ServiceRequests'
    BY <1>1, <1>2, <1>3, <1>6, <1>7 DEF ServiceInv, ServiceRequests, One
  <1> QED
    BY <1>1, <1>2, <1>3, <1>5, <1>8, MarkedStays, OnceStays, StrayStays,
       ServiceParametersStay DEF ServiceInv

\* The name of the server passes from the first answer to the client.
LEMMA ServiceTakeAnswerInv ==
    ASSUME ServiceInv, NEW c \in Clients, Service!TakeAnswer(c) PROVE ServiceInv'
  <1>0. /\ se_clientfifowrite \in Seq(Service!Ids) /\ se_clientfifowrite # <<>> /\ se_fd[c] =
             Nobody
        /\ se_clientfifowrite' = Tail(se_clientfifowrite)
        /\ se_fd' = [se_fd EXCEPT ![c] = Head(se_clientfifowrite)]
        /\ se_fd \in [Clients -> Service!Ids \cup {Nobody}] /\ Nobody \notin Service!Ids
        /\ UNCHANGED <<se_clientfifo, se_gotserver, se_status, se_start, se_writer, se_client,
              se_got, se_heard, se_asks>>
    BY DEF ServiceInv, ServiceTypes, Service!TypeOK, Service!TakeAnswer, Service!main,
       ServiceParameters
  <1>1. /\ se_clientfifowrite' \in Seq(Service!Ids) /\ Len(se_clientfifowrite) \in Nat
        /\ Len(se_clientfifowrite') = Len(se_clientfifowrite) - 1
        /\ 1 \in 1..Len(se_clientfifowrite) /\ Head(se_clientfifowrite) = se_clientfifowrite[1]
        /\ se_clientfifowrite[1] \in Service!Ids
        /\ \A i \in 1..Len(se_clientfifowrite') :
              i + 1 \in 1..Len(se_clientfifowrite) /\ se_clientfifowrite'[i] =
                    se_clientfifowrite[i + 1]
        /\ \A i \in 1..Len(se_clientfifowrite) : i = 1 \/
              (i - 1 \in 1..Len(se_clientfifowrite') /\ se_clientfifowrite'[i - 1] =
                    se_clientfifowrite[i])
    BY <1>0, AnswerTail
  <1>2. se_fd'[c] = se_clientfifowrite[1] /\ \A d \in Clients \ {c} : se_fd'[d] = se_fd[d]
    BY <1>0, <1>1
  <1>3. ServiceTypes'
    <2>1. /\ se_fd' \in [Clients -> Service!Ids \cup {Nobody}]
          /\ \A d \in Clients : se_got[d] => se_fd'[d] # Nobody
      BY <1>0, <1>1, <1>2 DEF ServiceInv, ServiceTypes, Service!TypeOK
    <2> QED
      BY <1>0, <1>1, <2>1 DEF ServiceInv, ServiceTypes, Service!TypeOK, Service!Ids
  <1>4. ServiceRequests'
    <2>1. Service!Given' = Service!Given \cup {c} /\ c \notin Service!Given
      BY <1>0, <1>1, <1>2 DEF Service!Given
    <2>2. Cardinality(Service!Given') = Cardinality(Service!Given) + 1
      BY <2>1, ServiceGivenFinite, FS_AddElement DEF ServiceInv
    <2>3. /\ Cardinality(Service!Given) \in Nat /\ se_asks \in Nat
          /\ One(se_writer = "give") \in {0, 1} /\ One(se_gotserver) \in {0, 1} /\
                One(Unread) \in {0, 1}
      BY ServiceGivenFinite DEF ServiceInv, ServiceTypes, One
    <2>4. (Unread' <=> Unread) /\ (SomeoneLeft' <=> SomeoneLeft)
      BY <1>0 DEF Unread, SomeoneLeft
    <2>5. /\ One(se_writer = "give")' = One(se_writer = "give") /\ One(se_gotserver)' =
               One(se_gotserver)
          /\ One(Unread)' = One(Unread)
      BY <1>0, <2>4 DEF One
    <2>6. Cardinality(Service!Given) + Len(se_clientfifowrite) + One(se_writer = "give")
            + One(se_gotserver)
              + One(Unread) <= se_asks
      BY DEF ServiceInv, ServiceRequests
    <2>7. (Cardinality(Service!Given) + Len(se_clientfifowrite) + One(se_writer = "give")
            + One(se_gotserver)
              + One(Unread) <= se_asks)'
      BY <1>0, <1>1, <2>2, <2>3, <2>5, <2>6
    <2> QED
      BY <1>0, <2>4, <2>7 DEF ServiceInv, ServiceRequests
  <1>5. \A n \in Service!Ids : Named(n)' <=> Named(n)
    <2> SUFFICES ASSUME NEW n \in Service!Ids PROVE Named(n)' <=> Named(n)
      OBVIOUS
    <2>1. ASSUME Named(n) PROVE Named(n)'
      <3>1. CASE \E d \in Clients : se_fd[d] = n
        BY <1>0, <1>2, <3>1 DEF Named
      <3>2. CASE \E i \in 1..Len(se_clientfifowrite) : se_clientfifowrite[i] = n
        <4>1. PICK i \in 1..Len(se_clientfifowrite) : se_clientfifowrite[i] = n
          BY <3>2
        <4> QED
          BY <1>1, <1>2, <4>1 DEF Named
      <3> QED
        BY <2>1, <3>1, <3>2 DEF Named
    <2>2. ASSUME Named(n)' PROVE Named(n)
      <3>1. CASE \E d \in Clients : se_fd'[d] = n
        BY <1>1, <1>2, <3>1 DEF Named
      <3>2. CASE \E i \in 1..Len(se_clientfifowrite') : se_clientfifowrite'[i] = n
        BY <1>1, <3>2 DEF Named
      <3> QED
        BY <2>2, <3>1, <3>2 DEF Named
    <2> QED
      BY <2>1, <2>2
  <1>6. Marked'
    BY <1>0, <1>5 DEF ServiceInv, Marked, SomeoneLeft, Service!Ids
  <1>7. NamedOnce'
    <2> SUFFICES ASSUME se_asks <= Count, NEW n \in Service!Ids, Once(n)
                 PROVE  /\ \A d, e \in Clients : se_fd'[d] = n /\ se_fd'[e] = n => d = e
                        /\ \A i, j \in 1..Len(se_clientfifowrite') :
                              se_clientfifowrite'[i] = n /\ se_clientfifowrite'[j] = n => i = j
                        /\ \A d \in Clients, i \in 1..Len(se_clientfifowrite') :
                              ~(se_fd'[d] = n /\ se_clientfifowrite'[i] = n)
      BY <1>0 DEF NamedOnce, Once, SomeoneLeft, Service!Ids
    <2>1. /\ \A d, e \in Clients : se_fd[d] = n /\ se_fd[e] = n => d = e
          /\ \A i, j \in 1..Len(se_clientfifowrite) :
                se_clientfifowrite[i] = n /\ se_clientfifowrite[j] = n => i = j
          /\ \A d \in Clients, i \in 1..Len(se_clientfifowrite) :
                ~(se_fd[d] = n /\ se_clientfifowrite[i] = n)
      BY DEF ServiceInv, NamedOnce
    <2>2. \A d, e \in Clients : se_fd'[d] = n /\ se_fd'[e] = n => d = e
      BY <1>1, <1>2, <2>1
    <2>3. ASSUME NEW i \in 1..Len(se_clientfifowrite'), NEW j \in 1..Len(se_clientfifowrite'),
                 se_clientfifowrite'[i] = n, se_clientfifowrite'[j] = n
          PROVE  i = j
      <3>1. i + 1 = j + 1
        BY <1>1, <2>1, <2>3
      <3> QED
        BY <3>1
    <2>4. ASSUME NEW d \in Clients, NEW i \in 1..Len(se_clientfifowrite'),
                 se_fd'[d] = n, se_clientfifowrite'[i] = n
          PROVE  FALSE
      <3>1. i + 1 \in 1..Len(se_clientfifowrite) /\ se_clientfifowrite[i + 1] = n
        BY <1>1, <2>4
      <3>2. CASE d = c
        <4>1. 1 = i + 1
          BY <1>1, <1>2, <2>1, <2>4, <3>1, <3>2
        <4> QED
          BY <4>1
      <3>3. CASE d # c
        BY <1>2, <2>1, <2>4, <3>1, <3>3
      <3> QED
        BY <3>2, <3>3
    <2> QED
      BY <2>2, <2>3, <2>4
  <1>8. Service!StrayRequest'
    <2>1. \A n \in Service!Ids, d \in Clients : <<d, "server">> \in se_heard[n] => se_fd'[d] =
            se_fd[d]
      BY <1>0, <1>2 DEF ServiceInv, Service!StrayRequest
    <2> QED
      BY <1>0, <2>1 DEF ServiceInv, Service!StrayRequest, Service!Ids
  <1> QED
    BY <1>3, <1>4, <1>6, <1>7, <1>8, ServiceParametersStay DEF ServiceInv

\* However many requests are read at once, they set the flag once.
LEMMA ServiceThreadReadInv ==
    ASSUME ServiceInv, Service!thread_read PROVE ServiceInv'
  <1>0. /\ se_clientfifo \in Seq({"server", "quit"}) /\ se_clientfifo # <<>> /\
             se_clientfifo' = <<>>
        /\ UNCHANGED <<se_clientfifowrite, se_start, se_writer, se_client, se_fd, se_got,
              se_heard, se_asks>>
    BY DEF ServiceInv, ServiceTypes, Service!thread_read
  <1>1. 1 \in 1..Len(se_clientfifo) /\ Head(se_clientfifo) = se_clientfifo[1]
    BY <1>0, AnswerTail
  <1>2. ~Unread' /\ Service!Given' = Service!Given /\ (SomeoneLeft' <=> SomeoneLeft)
    BY <1>0 DEF Unread, Service!Given, SomeoneLeft
  <1>3. /\ Cardinality(Service!Given) \in Nat /\ Len(se_clientfifowrite) \in Nat /\
             se_asks \in Nat
        /\ One(se_writer = "give") \in {0, 1} /\ One(se_gotserver) \in {0, 1} /\
              One(Unread) \in {0, 1}
        /\ One(se_writer = "give")' = One(se_writer = "give") /\ One(Unread)' = 0
    BY <1>0, <1>2, ServiceGivenFinite DEF ServiceInv, ServiceTypes, One
  <1>4. Cardinality(Service!Given) + Len(se_clientfifowrite) + One(se_writer = "give")
          + One(se_gotserver)
            + One(Unread) <= se_asks
    BY DEF ServiceInv, ServiceRequests
  <1>5. CASE Head(se_clientfifo) = "server"
    <2>1. se_gotserver' = TRUE /\ UNCHANGED se_status
      BY <1>5 DEF Service!thread_read
    <2>2. ServiceTypes'
      BY <1>0, <2>1 DEF ServiceInv, ServiceTypes, Service!TypeOK, Service!Ids
    <2>3. One(se_gotserver)' = 1 /\ One(Unread) = 1
      BY <1>1, <1>5, <2>1 DEF One, Unread
    <2>4. (Cardinality(Service!Given) + Len(se_clientfifowrite) + One(se_writer = "give")
            + One(se_gotserver)
              + One(Unread) <= se_asks)'
      BY <1>0, <1>2, <1>3, <1>4, <2>3
    <2>5. ServiceRequests'
      <3>1. se_gotserver'
        BY <2>1
      <3>2. se_asks' > 0 => \E d \in Clients : se_client'[d] \in {"asked", "quit"}
        BY <1>0 DEF ServiceInv, ServiceRequests
      <3>3. \A i \in 1..Len(se_clientfifo') : FALSE
        BY <1>0
      <3> QED
        BY <2>4, <3>1, <3>2, <3>3 DEF ServiceRequests
    <2> QED
      BY <1>0, <2>1, <2>2, <2>5, TableStays DEF ServiceInv
  <1>6. CASE Head(se_clientfifo) # "server"
    <2>1. se_status' = [se_status EXCEPT ![0] = 0] /\ UNCHANGED se_gotserver
      BY <1>6 DEF Service!thread_read
    <2>2. se_clientfifo[1] = "quit"
      BY <1>0, <1>1, <1>6
    <2>3. SomeoneLeft
      BY <1>1, <2>2 DEF ServiceInv, ServiceRequests
    <2>4. ServiceTypes'
      <3>1. se_status' \in [Service!Ids -> {0, 1}]
        BY <2>1 DEF ServiceInv, ServiceTypes, Service!TypeOK
      <3> QED
        BY <1>0, <2>1, <3>1 DEF ServiceInv, ServiceTypes, Service!TypeOK, Service!Ids
    <2>5. One(se_gotserver)' = One(se_gotserver)
      BY <2>1 DEF One
    <2>6. (Cardinality(Service!Given) + Len(se_clientfifowrite) + One(se_writer = "give")
            + One(se_gotserver)
              + One(Unread) <= se_asks)'
      BY <1>0, <1>2, <1>3, <1>4, <2>5
    <2>7. ServiceRequests'
      BY <1>0, <1>2, <2>1, <2>6 DEF ServiceInv, ServiceRequests
    <2>8. \A n \in Service!Ids : n # 0 => se_status'[n] = se_status[n]
      BY <2>1 DEF ServiceInv, ServiceTypes, Service!TypeOK
    <2>9. \A n \in Service!Ids : Named(n)' <=> Named(n)
      BY <1>0 DEF Named
    <2>10. \A n \in Service!Ids : se_status'[n] = 1 => se_status[n] = 1
      BY <2>1 DEF ServiceInv, ServiceTypes, Service!TypeOK
    <2>11. Marked'
      BY <1>2, <2>3, <2>8, <2>9, <2>10 DEF ServiceInv, Marked, Service!Ids
    <2> QED
      BY <1>0, <1>2, <2>4, <2>7, <2>11, OnceStays, StrayStays, ServiceParametersStay
         DEF ServiceInv
  <1> QED
    BY <1>5, <1>6

\* A server that no other client has is given while there are servers for all requests:
\* were all marked, the requests would be more than the servers.
LEMMA ServiceGiveInv ==
    ASSUME ServiceInv, Service!Give PROVE ServiceInv'
  <1> PICK n0 : n0 = Service!FirstFree
    OBVIOUS
  <1>0. /\ se_clientfifowrite \in Seq(Service!Ids) /\ se_clientfifowrite' =
             Append(se_clientfifowrite, n0)
        /\ n0 \in Service!Ids /\ ((\E n \in Service!Ids : se_status[n] = 0) => se_status[n0] =
              0)
        /\ se_status \in [Service!Ids -> {0, 1}] /\ se_status' = [se_status EXCEPT ![n0] =
              1] /\ se_start' = n0
        /\ se_writer = "give" /\ se_writer' = "poll"
        /\ UNCHANGED <<se_clientfifo, se_gotserver, se_client, se_fd, se_got, se_heard,
              se_asks>>
    BY FirstFreeFacts DEF ServiceInv, ServiceTypes, Service!TypeOK, Service!Give,
       Service!TakenAs
  <1>1. /\ se_clientfifowrite' \in Seq(Service!Ids) /\ Len(se_clientfifowrite) \in Nat
        /\ Len(se_clientfifowrite') = Len(se_clientfifowrite) + 1
        /\ \A i \in 1..Len(se_clientfifowrite) :
              i \in 1..Len(se_clientfifowrite') /\ se_clientfifowrite'[i] =
                    se_clientfifowrite[i]
        /\ Len(se_clientfifowrite) + 1 \in 1..Len(se_clientfifowrite')
        /\ se_clientfifowrite'[Len(se_clientfifowrite) + 1] = n0
        /\ \A i \in 1..Len(se_clientfifowrite') :
              i \in 1..Len(se_clientfifowrite) \/ i = Len(se_clientfifowrite) + 1
    BY <1>0, AnswerAppend
  <1>2. /\ se_status' \in [Service!Ids -> {0, 1}] /\ se_status'[n0] = 1
        /\ \A n \in Service!Ids \ {n0} : se_status'[n] = se_status[n]
    BY <1>0
  <1>3. ServiceTypes'
    BY <1>0, <1>1, <1>2 DEF ServiceInv, ServiceTypes, Service!TypeOK, Service!Ids
  <1>4. (Unread' <=> Unread) /\ (SomeoneLeft' <=> SomeoneLeft) /\ Service!Given' =
          Service!Given
    BY <1>0 DEF Unread, SomeoneLeft, Service!Given
  <1>5. /\ Cardinality(Service!Given) \in Nat /\ se_asks \in Nat /\ Count \in Nat
        /\ One(se_gotserver) \in {0, 1} /\ One(Unread) \in {0, 1}
    BY ServiceGivenFinite DEF ServiceInv, ServiceTypes, One, ServiceParameters
  <1>6. Cardinality(Service!Given) + Len(se_clientfifowrite) + 1 + One(se_gotserver)
          + One(Unread) <= se_asks
    BY <1>0 DEF ServiceInv, ServiceRequests, One
  <1>7. ServiceRequests'
    <2>1. /\ One(se_writer = "give")' = 0 /\ One(se_gotserver)' = One(se_gotserver)
          /\ One(Unread)' = One(Unread)
      BY <1>0, <1>4 DEF One
    <2>2. (Cardinality(Service!Given) + Len(se_clientfifowrite) + One(se_writer = "give")
            + One(se_gotserver)
              + One(Unread) <= se_asks)'
      BY <1>0, <1>1, <1>4, <1>5, <1>6, <2>1
    <2> QED
      BY <1>0, <1>4, <2>2 DEF ServiceInv, ServiceRequests
  <1>8. \A n \in Service!Ids : Named(n)' <=> Named(n) \/ n = n0
    <2> SUFFICES ASSUME NEW n \in Service!Ids PROVE Named(n)' <=> Named(n) \/ n = n0
      OBVIOUS
    <2>1. Named(n) => Named(n)'
      BY <1>0, <1>1 DEF Named
    <2>2. n = n0 => Named(n)'
      BY <1>1 DEF Named
    <2>3. Named(n)' => Named(n) \/ n = n0
      BY <1>0, <1>1 DEF Named
    <2> QED
      BY <2>1, <2>2, <2>3
  <1>9. Marked'
    BY <1>2, <1>4, <1>8 DEF ServiceInv, Marked, Service!Ids
  <1>10. ASSUME se_asks <= Count, Once(n0) PROVE ~Named(n0)
    <2>1. \E n \in Service!Ids : se_status[n] = 0
      <3> SUFFICES ASSUME \A n \in Service!Ids : se_status[n] # 0 PROVE FALSE
        OBVIOUS
      <3>1. \A n \in Service!Ids : Named(n)
        BY <1>0 DEF ServiceInv, Marked
      <3>2. Count <= Cardinality(Service!Given) + Len(se_clientfifowrite)
        BY <3>1, AllNamed DEF ServiceInv
      <3> QED
        BY <1>1, <1>5, <1>6, <1>10, <3>2
    <2>2. se_status[n0] = 0
      BY <1>0, <2>1
    <2> QED
      BY <1>0, <1>10, <2>2 DEF ServiceInv, Marked, Once
  <1>11. NamedOnce'
    <2> SUFFICES ASSUME se_asks <= Count, NEW n \in Service!Ids, Once(n)
                 PROVE  /\ \A d, e \in Clients : se_fd'[d] = n /\ se_fd'[e] = n => d = e
                        /\ \A i, j \in 1..Len(se_clientfifowrite') :
                              se_clientfifowrite'[i] = n /\ se_clientfifowrite'[j] = n => i = j
                        /\ \A d \in Clients, i \in 1..Len(se_clientfifowrite') :
                              ~(se_fd'[d] = n /\ se_clientfifowrite'[i] = n)
      BY <1>0, <1>4 DEF NamedOnce, Once, Service!Ids
    <2>1. /\ \A d, e \in Clients : se_fd[d] = n /\ se_fd[e] = n => d = e
          /\ \A i, j \in 1..Len(se_clientfifowrite) :
                se_clientfifowrite[i] = n /\ se_clientfifowrite[j] = n => i = j
          /\ \A d \in Clients, i \in 1..Len(se_clientfifowrite) :
                ~(se_fd[d] = n /\ se_clientfifowrite[i] = n)
      BY DEF ServiceInv, NamedOnce
    <2>2. CASE n # n0
      BY <1>0, <1>1, <2>1, <2>2
    <2>3. CASE n = n0
      <3>1. /\ \A d \in Clients : se_fd[d] # n0
            /\ \A i \in 1..Len(se_clientfifowrite) : se_clientfifowrite[i] # n0
        BY <1>10, <2>3 DEF Named
      <3> QED
        BY <1>0, <1>1, <2>3, <3>1
    <2> QED
      BY <2>2, <2>3
  <1> QED
    BY <1>0, <1>3, <1>7, <1>9, <1>11, StrayStays, ServiceParametersStay DEF ServiceInv

-----------------------------------------------------------------------------
(***************************************************************************)
(* The theorems                                                            *)
(***************************************************************************)
LEMMA ServiceNextInv == ServiceInv /\ [Service!Next]_(Service!vars) => ServiceInv'
  <1> SUFFICES ASSUME ServiceInv, [Service!Next]_(Service!vars) PROVE ServiceInv'
    OBVIOUS
  <1>1. CASE Service!MainStep
    BY <1>1, ServiceThreadReadInv, ServiceSeeFlagInv, ServiceClearFlagInv, ServiceGiveInv
       DEF Service!MainStep
  <1>2. CASE \E c \in Clients : Service!ClientStep(c)
    BY <1>2, ServiceStartInv, ServiceAskInv, ServiceTakeAnswerInv, ServiceSetGotInv,
       ServiceTalkInv, ServiceQuitInv DEF Service!ClientStep
  <1>3. CASE \E n \in Service!Ids : Service!ServerReads(n)
    BY <1>3, ServiceServerReadsInv
  <1>4. CASE UNCHANGED Service!vars
    <2>1. ServiceTypes'
      BY <1>4 DEF ServiceInv, ServiceTypes, Service!TypeOK, Service!vars, Service!Ids
    <2>2. ServiceRequests'
      BY <1>4 DEF ServiceInv, ServiceRequests, Service!vars, Service!Given, Unread, One,
         SomeoneLeft
    <2> QED
      BY <1>4, <2>1, <2>2, TableStays DEF ServiceInv, Service!vars
  <1> QED
    BY <1>1, <1>2, <1>3, <1>4 DEF Service!Next

\* However many clients and service servers there are, the invariant holds.
THEOREM ServiceInvariance == ServiceParameters /\ Service!Spec => []ServiceInv
  <1>1. ServiceParameters /\ Service!Init => ServiceInv
    BY ServiceInitInv
  <1>2. ServiceInv /\ [Service!Next]_(Service!vars) => ServiceInv'
    BY ServiceNextInv
  <1> QED
    BY <1>1, <1>2, PTL DEF Service!Spec

LEMMA ServiceInvAllotted == ServiceInv => Service!ServiceAllotted
  <1> SUFFICES ASSUME ServiceInv PROVE Service!ServiceAllotted
    OBVIOUS
  <1>1. Service!NoInvented
    <2>1. /\ Cardinality(Service!Given) \in Nat /\ Len(se_clientfifowrite) \in Nat
          /\ se_asks \in Nat
          /\ One(se_gotserver) \in {0, 1} /\ One(Unread) \in {0, 1}
          /\ One(se_writer = "give") \in {0, 1}
          /\ One(se_writer = "give") = IF se_writer = "give" THEN 1 ELSE 0
      BY ServiceGivenFinite DEF ServiceInv, ServiceTypes, One
    <2>2. Cardinality(Service!Given) + Len(se_clientfifowrite) + One(se_writer = "give")
            + One(se_gotserver) + One(Unread) <= se_asks
      BY DEF ServiceInv, ServiceRequests
    <2>3. Cardinality(Service!Given) + Len(se_clientfifowrite) + One(se_writer = "give")
            <= se_asks
      BY <2>1, <2>2
    <2>4. Service!NoInvented <=>
            Cardinality(Service!Given) + Len(se_clientfifowrite)
                + (IF se_writer = "give" THEN 1 ELSE 0) <= se_asks
      BY DEF Service!NoInvented, Service!Cardinality, Cardinality
    <2> QED
      BY <2>1, <2>3, <2>4
  <1>2. Service!Exclusive
    <2> SUFFICES ASSUME se_asks <= Count, NEW c \in Service!Given, NEW d \in Service!Given,
                          c # d, se_fd[c] = se_fd[d]
                 PROVE  se_fd[c] = 0 /\ SomeoneLeft
      BY DEF Service!Exclusive, SomeoneLeft
    <2>1. c \in Clients /\ d \in Clients /\ se_fd[c] \in Service!Ids
      BY DEF Service!Given, ServiceInv, ServiceTypes, Service!TypeOK
    <2>2. ~Once(se_fd[c])
      BY <2>1 DEF ServiceInv, NamedOnce
    <2> QED
      BY <2>2 DEF Once
  <1> QED
    BY <1>1, <1>2 DEF Service!ServiceAllotted, ServiceInv, ServiceTypes

AllSpec == AllInit /\ [][AllNext]_allVars

\* The programs run side by side without a step of their own.
LEMMA ServiceSpec == AllSpec => Service!Spec
  <1>1. AllInit => Service!Init
    BY DEF AllInit
  <1>2. [AllNext]_allVars => [Service!Next]_(Service!vars)
    BY DEF AllNext, InChat, InMulti, InService, InLogs, InRelay, allVars, service, Service!vars
  <1> QED
    BY <1>1, <1>2, PTL DEF AllSpec, Service!Spec

\* Whatever the numbers of clients and service servers and however their requests and
\* answers cross on the two FIFOs that all share: no more servers are given than were
\* asked for, only the first can have a second client, after someone left, and a request
\* reaches a service server only when answers were swapped.
\* (mainserver.c and client.c of select_servers/serviceserver)
THEOREM ServiceServersAllotted == ServiceParameters /\ AllSpec => []ServiceAllotted
  BY ServiceSpec, ServiceInvariance, ServiceInvAllotted, PTL DEF ServiceAllotted
-----------------------------------------------------------------------------
(***************************************************************************)
(* LogServer: the inductive invariant                                      *)
(***************************************************************************)
LogParameters == IsFiniteSet(LogServers) /\ LogFifos \in Nat \ {0} /\ Cap \in Nat

Entries == LogServers \X (Nat \ {0})
LogTypes ==
    /\ lo_logging \in BOOLEAN /\ lo_number \in Int /\ lo_local \in [LogServers -> Int]
    /\ lo_server \in [LogServers -> {"start", "store", "open", "run", "ended"}]
    /\ lo_logno \in [LogServers -> Int] /\ lo_typed \in [LogServers -> Nat]
    /\ lo_in \in [LogServers -> Seq(Nat)] /\ lo_line \in [LogServers -> Nat]
    /\ lo_logfifo \in [Logs!Ids -> Seq(Entries)] /\ lo_logged \in Seq(Entries)
    /\ \A i \in Logs!Ids : Len(lo_logfifo[i]) <= Cap
    /\ \A s \in LogServers : lo_server[s] = "run" => lo_logno[s] \in Logs!Ids

\* As in MultiServer, the number is counted down at most once for each server.
LogStored(f) == {s \in LogServers : f[s] \notin {"start", "store"}}
LogCountedDown ==
    /\ lo_number <= LogFifos /\ lo_number >= -Cardinality(LogStored(lo_server))
    /\ \A s \in LogServers : lo_server[s] = "store" =>
           lo_local[s] <= LogFifos /\ lo_local[s] >= -Cardinality(LogStored(lo_server))

\* The lines typed to a server are, in order, copied, read or still in its FIFO.
Copied(s) == lo_typed[s] - Len(lo_in[s]) - (IF lo_line[s] > 0 THEN 1 ELSE 0)
Flow ==
    \A s \in LogServers :
        /\ Len(lo_in[s]) <= lo_typed[s]
        /\ \A i \in 1..Len(lo_in[s]) : lo_in[s][i] = lo_typed[s] - Len(lo_in[s]) + i
        /\ lo_line[s] > 0 => lo_line[s] = lo_typed[s] - Len(lo_in[s])
        /\ lo_server[s] # "run" => lo_line[s] = 0 /\ Len(lo_in[s]) = lo_typed[s]

\* What is logged, and what waits in the only FIFO that is read: in order, of servers
\* that run on that FIFO, and up to the last line each of them has copied.
Written == lo_logged \o lo_logfifo[0]
OnZero(s) == lo_server[s] = "run" /\ lo_logno[s] = 0
Order(q) ==
    /\ Logs!InOrder(q)
    /\ \A p \in 1..Len(q) : OnZero(q[p][1]) /\ q[p][2] <= Copied(q[p][1])
    /\ \A s \in LogServers : OnZero(s) /\ Copied(s) >= 1 =>
           \E p \in 1..Len(q) : q[p] = <<s, Copied(s)>>

LogInv == LogParameters /\ LogTypes /\ LogCountedDown /\ Flow /\ Order(Written)

LEMMA ConcatFacts ==
    ASSUME NEW S, NEW q \in Seq(S), NEW r \in Seq(S)
    PROVE  /\ q \o r \in Seq(S) /\ Len(q \o r) = Len(q) + Len(r)
           /\ Len(q) \in Nat /\ Len(r) \in Nat
           /\ \A i \in 1..Len(q) : (q \o r)[i] = q[i]
  OBVIOUS

LEMMA ConcatAppend ==
    ASSUME NEW S, NEW q \in Seq(S), NEW r \in Seq(S), NEW x \in S
    PROVE  q \o Append(r, x) = Append(q \o r, x)
  OBVIOUS

LEMMA ConcatMove ==
    ASSUME NEW S, NEW q \in Seq(S), NEW r \in Seq(S), r # <<>>
    PROVE  Append(q, Head(r)) \o Tail(r) = q \o r
  OBVIOUS

LEMMA AppendFacts ==
    ASSUME NEW S, NEW q \in Seq(S), NEW x \in S
    PROVE  /\ Append(q, x) \in Seq(S)
           /\ Len(q) \in Nat /\ Len(Append(q, x)) = Len(q) + 1
           /\ \A i \in 1..Len(q) : i \in 1..(Len(q) + 1) /\ Append(q, x)[i] = q[i]
           /\ Append(q, x)[Len(q) + 1] = x /\ Len(q) + 1 \in 1..(Len(q) + 1)
           /\ \A i \in 1..(Len(q) + 1) : i \in 1..Len(q) \/ i = Len(q) + 1
  OBVIOUS

LEMMA TailFacts ==
    ASSUME NEW S, NEW q \in Seq(S), q # <<>>
    PROVE  /\ Tail(q) \in Seq(S) /\ Len(q) \in Nat \ {0} /\ Len(Tail(q)) = Len(q) - 1
           /\ 1 \in 1..Len(q) /\ Head(q) = q[1] /\ Head(q) \in S
           /\ \A i \in 1..Len(Tail(q)) : i + 1 \in 1..Len(q) /\ Tail(q)[i] = q[i + 1]
  OBVIOUS

LEMMA LogZero == LogParameters => 0 \in Logs!Ids
  BY DEF LogParameters, Logs!Ids

LEMMA WrittenType ==
    ASSUME LogParameters, LogTypes
    PROVE  /\ Written \in Seq(Entries) /\ Len(lo_logged) \in Nat /\ Len(Written) \in Nat
           /\ Len(lo_logged) <= Len(Written)
           /\ \A i \in 1..Len(lo_logged) : Written[i] = lo_logged[i]
  <1>1. lo_logged \in Seq(Entries) /\ lo_logfifo[0] \in Seq(Entries)
    BY LogZero DEF LogTypes
  <1> QED
    BY <1>1, ConcatFacts DEF Written

LEMMA LogStoredFinite ==
    ASSUME LogParameters, NEW f
    PROVE  /\ IsFiniteSet(LogStored(f)) /\ Cardinality(LogStored(f)) \in Nat
           /\ Cardinality(LogStored(f)) <= Cardinality(LogServers)
           /\ Cardinality(LogServers) \in Nat
  <1>1. LogStored(f) \in SUBSET LogServers
    BY DEF LogStored
  <1>2. /\ IsFiniteSet(LogStored(f)) /\ IsFiniteSet(LogServers)
        /\ Cardinality(LogStored(f)) <= Cardinality(LogServers)
    BY <1>1, FS_Subset DEF LogParameters
  <1> QED
    BY <1>2, FS_CardinalityType

\* How far a server has copied is a number.
LEMMA CopiedFacts ==
    ASSUME LogTypes, Flow, NEW s \in LogServers
    PROVE  Copied(s) \in Nat
  <1>1. lo_typed[s] \in Nat /\ Len(lo_in[s]) \in Nat /\ lo_line[s] \in Nat
    BY DEF LogTypes
  <1> QED
    BY <1>1 DEF Copied, Flow

\* Steps that neither copy a line nor let a server run leave the order alone.
LEMMA OrderStays ==
    ASSUME NEW q \in Seq(Entries), Order(q),
           \A s \in LogServers : (OnZero(s)' <=> OnZero(s)) /\ Copied(s)' = Copied(s)
    PROVE  Order(q)'
  <1>1. \A p \in 1..Len(q) : q[p][1] \in LogServers
    BY DEF Entries
  <1>2. Logs!InOrder(q)'
    BY DEF Order, Logs!InOrder
  <1>3. \A p \in 1..Len(q) : OnZero(q[p][1])' /\ q[p][2] <= Copied(q[p][1])'
    <2> SUFFICES ASSUME NEW p \in 1..Len(q)
                 PROVE  OnZero(q[p][1])' /\ q[p][2] <= Copied(q[p][1])'
      OBVIOUS
    <2> PICK s : s = q[p][1]
      OBVIOUS
    <2>1. s \in LogServers /\ OnZero(s) /\ q[p][2] <= Copied(s)
      BY <1>1 DEF Order
    <2>2. OnZero(s)' /\ Copied(s)' = Copied(s)
      BY <2>1
    <2> QED
      BY <2>1, <2>2
  <1>4. ASSUME NEW s \in LogServers, OnZero(s)', Copied(s)' >= 1
        PROVE  \E p \in 1..Len(q) : q[p] = <<s, Copied(s)'>>
    <2>1. OnZero(s) /\ Copied(s)' = Copied(s)
      BY <1>4
    <2>2. Copied(s) >= 1
      BY <1>4, <2>1
    <2>3. \E p \in 1..Len(q) : q[p] = <<s, Copied(s)>>
      BY <2>1, <2>2 DEF Order
    <2> QED
      BY <2>1, <2>3
  <1> QED
    BY <1>2, <1>3, <1>4 DEF Order

LEMMA WrittenStays ==
    ASSUME LogInv, Written' = Written,
           \A s \in LogServers : (OnZero(s)' <=> OnZero(s)) /\ Copied(s)' = Copied(s)
    PROVE  Order(Written)'
  <1> PICK q : q = Written
    OBVIOUS
  <1>1. q \in Seq(Entries) /\ Order(q)
    BY WrittenType DEF LogInv
  <1>2. Order(q)'
    BY <1>1, OrderStays
  <1> QED
    BY <1>2 DEF Order

LEMMA LogInitInv == LogParameters /\ Logs!Init => LogInv
  <1> SUFFICES ASSUME LogParameters, Logs!Init PROVE LogInv
    OBVIOUS
  <1>1. LogTypes
    <2>0. lo_logging \in BOOLEAN
      BY DEF Logs!Init
    <2>1. lo_logged \in Seq(Entries) /\ lo_logfifo = [i \in Logs!Ids |-> <<>>]
      BY DEF Logs!Init
    <2>2. lo_number \in Int /\ lo_local \in [LogServers -> Int] /\ lo_logno \in [LogServers -> Int]
      BY DEF Logs!Init
    <2>3. /\ lo_server \in [LogServers -> {"start", "store", "open", "run", "ended"}]
          /\ \A s \in LogServers : lo_server[s] # "run"
      BY DEF Logs!Init
    <2>4. lo_typed \in [LogServers -> Nat] /\ lo_in \in [LogServers -> Seq(Nat)]
          /\ lo_line \in [LogServers -> Nat]
      BY DEF Logs!Init
    <2>5. lo_logfifo \in [Logs!Ids -> Seq(Entries)] /\ \A i \in Logs!Ids : Len(lo_logfifo[i]) <= Cap
      BY <2>1 DEF LogParameters
    <2> QED
      BY <2>0, <2>1, <2>2, <2>3, <2>4, <2>5 DEF LogTypes
  <1>2. LogCountedDown
    <2>1. LogStored(lo_server) = {}
      BY DEF LogStored, Logs!Init
    <2>2. Cardinality(LogStored(lo_server)) = 0
      BY <2>1, FS_EmptySet
    <2> QED
      BY <2>2 DEF LogParameters, LogCountedDown, Logs!Init
  <1>3. Flow
    BY DEF Flow, Logs!Init
  <1>4. Written = <<>>
    BY LogZero DEF Written, Logs!Init
  <1>5. Order(Written)
    <2>1. \A s \in LogServers : ~OnZero(s)
      BY DEF OnZero, Logs!Init
    <2> QED
      BY <1>4, <2>1 DEF Order, Logs!InOrder
  <1> QED
    BY <1>1, <1>2, <1>3, <1>5 DEF LogInv

\* Steps of the log server and the clients do not change who has stored.
LEMMA CountStays ==
    ASSUME LogInv, UNCHANGED <<lo_server, lo_local, lo_number>>
    PROVE  LogCountedDown'
  BY DEF LogInv, LogCountedDown

LEMMA LogLoadInv ==
    ASSUME LogInv, NEW s \in LogServers, Logs!Load(s) PROVE LogInv'
  <1>0. /\ lo_server[s] = "start" /\ lo_server' = [lo_server EXCEPT ![s] = "store"]
        /\ lo_local' = [lo_local EXCEPT ![s] = lo_number]
        /\ UNCHANGED <<lo_number, lo_logging, lo_logno, lo_typed, lo_in, lo_line, lo_logfifo, lo_logged>>
    BY DEF Logs!Load
  <1>1. LogTypes'
    BY <1>0 DEF LogInv, LogTypes, Logs!Ids
  <1>2. LogCountedDown'
    <2>1. LogStored(lo_server') = LogStored(lo_server)
      BY <1>0 DEF LogStored, LogInv, LogTypes
    <2> QED
      BY <1>0, <2>1 DEF LogInv, LogTypes, LogCountedDown
  <1>3. Flow'
    BY <1>0 DEF LogInv, LogTypes, Flow
  <1>4. Order(Written)'
    BY <1>0, WrittenStays DEF Written, OnZero, Copied, LogInv, LogTypes
  <1> QED
    BY <1>1, <1>2, <1>3, <1>4 DEF LogInv, LogParameters

LEMMA LogStoreInv ==
    ASSUME LogInv, NEW s \in LogServers, Logs!Store(s) PROVE LogInv'
  <1>0. /\ lo_server[s] = "store" /\ lo_server' = [lo_server EXCEPT ![s] = "open"]
        /\ lo_number' = lo_local[s] - 1
        /\ UNCHANGED <<lo_logging, lo_local, lo_logno, lo_typed, lo_in, lo_line, lo_logfifo, lo_logged>>
    BY DEF Logs!Store
  <1>1. LogTypes'
    BY <1>0 DEF LogInv, LogTypes, Logs!Ids
  <1>2. LogCountedDown'
    <2>1. LogStored(lo_server') = LogStored(lo_server) \union {s} /\ s \notin LogStored(lo_server)
      BY <1>0 DEF LogStored, LogInv, LogTypes
    <2>2. /\ Cardinality(LogStored(lo_server')) = Cardinality(LogStored(lo_server)) + 1
          /\ Cardinality(LogStored(lo_server)) \in Nat
      BY <2>1, LogStoredFinite, FS_AddElement DEF LogInv
    <2>3. \A u \in LogServers : lo_server'[u] = "store" => lo_server[u] = "store"
      BY <1>0 DEF LogInv, LogTypes
    <2>4. /\ lo_local[s] <= LogFifos /\ lo_local[s] >= -Cardinality(LogStored(lo_server))
          /\ lo_local \in [LogServers -> Int] /\ LogFifos \in Nat
      BY <1>0 DEF LogInv, LogCountedDown, LogTypes, LogParameters
    <2>5. lo_number' <= LogFifos /\ lo_number' >= -Cardinality(LogStored(lo_server'))
      BY <1>0, <2>2, <2>4
    <2>6. ASSUME NEW u \in LogServers, lo_server'[u] = "store"
          PROVE  lo_local'[u] <= LogFifos /\ lo_local'[u] >= -Cardinality(LogStored(lo_server'))
      <3>1. lo_local[u] <= LogFifos /\ lo_local[u] >= -Cardinality(LogStored(lo_server))
        BY <2>3, <2>6 DEF LogInv, LogCountedDown
      <3>2. lo_local[u] \in Int /\ lo_local'[u] = lo_local[u]
        BY <1>0, <2>4
      <3> QED
        BY <2>2, <3>1, <3>2
    <2> QED
      BY <2>5, <2>6 DEF LogCountedDown
  <1>3. Flow'
    BY <1>0 DEF LogInv, LogTypes, Flow
  <1>4. Order(Written)'
    BY <1>0, WrittenStays DEF Written, OnZero, Copied, LogInv, LogTypes
  <1> QED
    BY <1>1, <1>2, <1>3, <1>4 DEF LogInv, LogParameters

LEMMA LogWriteInv ==
    ASSUME LogInv, NEW s \in LogServers, Logs!thread_write(s) PROVE LogInv'
  <1>0. /\ lo_typed' = [lo_typed EXCEPT ![s] = lo_typed[s] + 1]
        /\ lo_in' = [lo_in EXCEPT ![s] = Append(lo_in[s], lo_typed[s] + 1)]
        /\ UNCHANGED <<lo_number, lo_logging, lo_server, lo_local, lo_logno, lo_line, lo_logfifo, lo_logged>>
    BY DEF Logs!thread_write, LogInv, LogTypes
  <1>1. /\ lo_in[s] \in Seq(Nat) /\ lo_typed[s] \in Nat /\ Len(lo_in[s]) \in Nat
        /\ lo_in'[s] = Append(lo_in[s], lo_typed[s] + 1) /\ lo_typed'[s] = lo_typed[s] + 1
        /\ \A u \in LogServers \ {s} : lo_in'[u] = lo_in[u] /\ lo_typed'[u] = lo_typed[u]
    BY <1>0 DEF LogInv, LogTypes
  <1>2. /\ lo_in'[s] \in Seq(Nat) /\ Len(lo_in'[s]) = Len(lo_in[s]) + 1
        /\ \A i \in 1..Len(lo_in[s]) : lo_in'[s][i] = lo_in[s][i]
        /\ lo_in'[s][Len(lo_in[s]) + 1] = lo_typed[s] + 1
        /\ \A i \in 1..Len(lo_in'[s]) : i \in 1..Len(lo_in[s]) \/ i = Len(lo_in[s]) + 1
    BY <1>1, AppendFacts
  <1>3. LogTypes'
    BY <1>0, <1>1, <1>2 DEF LogInv, LogTypes, Logs!Ids
  <1>4. Flow'
    <2> SUFFICES ASSUME NEW u \in LogServers
                 PROVE  /\ Len(lo_in'[u]) <= lo_typed'[u]
                        /\ \A i \in 1..Len(lo_in'[u]) : lo_in'[u][i] = lo_typed'[u] - Len(lo_in'[u]) + i
                        /\ lo_line[u] > 0 => lo_line[u] = lo_typed'[u] - Len(lo_in'[u])
                        /\ lo_server[u] # "run" => lo_line[u] = 0 /\ Len(lo_in'[u]) = lo_typed'[u]
      BY <1>0 DEF Flow
    <2>1. CASE u # s
      BY <1>1, <2>1 DEF LogInv, Flow
    <2>2. CASE u = s
      <3>1. /\ Len(lo_in[s]) <= lo_typed[s]
            /\ \A i \in 1..Len(lo_in[s]) : lo_in[s][i] = lo_typed[s] - Len(lo_in[s]) + i
            /\ lo_line[s] > 0 => lo_line[s] = lo_typed[s] - Len(lo_in[s])
            /\ lo_server[s] # "run" => lo_line[s] = 0 /\ Len(lo_in[s]) = lo_typed[s]
        BY DEF LogInv, Flow
      <3>2. ASSUME NEW i \in 1..Len(lo_in'[s])
            PROVE  lo_in'[s][i] = lo_typed'[s] - Len(lo_in'[s]) + i
        <4>1. CASE i = Len(lo_in[s]) + 1
          BY <1>1, <1>2, <4>1
        <4>2. CASE i \in 1..Len(lo_in[s])
          <5>1. lo_in'[s][i] = lo_typed[s] - Len(lo_in[s]) + i
            BY <1>2, <3>1, <4>2
          <5> QED
            BY <1>1, <1>2, <5>1
        <4> QED
          BY <1>2, <4>1, <4>2
      <3>3. lo_typed'[s] - Len(lo_in'[s]) = lo_typed[s] - Len(lo_in[s])
        BY <1>1, <1>2
      <3>4. Len(lo_in'[s]) <= lo_typed'[s]
        BY <1>1, <1>2, <3>1
      <3>5. lo_line[s] > 0 => lo_line[s] = lo_typed'[s] - Len(lo_in'[s])
        BY <3>1, <3>3
      <3>6. lo_server[s] # "run" => lo_line[s] = 0 /\ Len(lo_in'[s]) = lo_typed'[s]
        BY <1>1, <1>2, <3>1
      <3> QED
        BY <2>2, <3>2, <3>4, <3>5, <3>6
    <2> QED
      BY <2>1, <2>2
  <1>5. \A u \in LogServers : Copied(u)' = Copied(u)
    <2>1. Copied(s)' = Copied(s)
      BY <1>0, <1>1, <1>2 DEF Copied, LogInv, LogTypes
    <2>2. \A u \in LogServers \ {s} : Copied(u)' = Copied(u)
      BY <1>0, <1>1 DEF Copied
    <2> QED
      BY <2>1, <2>2
  <1>6. Order(Written)'
    BY <1>0, <1>5, WrittenStays DEF Written, OnZero
  <1> QED
    BY <1>0, <1>3, <1>4, <1>6, CountStays DEF LogInv, LogParameters

LEMMA LogReadInv ==
    ASSUME LogInv, NEW s \in LogServers, Logs!Read(s) PROVE LogInv'
  <1>0. /\ lo_server[s] = "run" /\ lo_line[s] = 0 /\ lo_in[s] # <<>>
        /\ lo_line' = [lo_line EXCEPT ![s] = Head(lo_in[s])]
        /\ lo_in' = [lo_in EXCEPT ![s] = Tail(lo_in[s])]
        /\ UNCHANGED <<lo_number, lo_logging, lo_server, lo_local, lo_logno, lo_typed, lo_logfifo, lo_logged>>
    BY DEF Logs!Read, LogInv, LogTypes
  <1>1. /\ lo_in[s] \in Seq(Nat) /\ lo_typed[s] \in Nat
        /\ lo_in'[s] = Tail(lo_in[s]) /\ lo_line'[s] = Head(lo_in[s])
        /\ \A u \in LogServers \ {s} : lo_in'[u] = lo_in[u] /\ lo_line'[u] = lo_line[u]
    BY <1>0 DEF LogInv, LogTypes
  <1>2. /\ lo_in'[s] \in Seq(Nat) /\ Len(lo_in[s]) \in Nat \ {0}
        /\ Len(lo_in'[s]) = Len(lo_in[s]) - 1
        /\ 1 \in 1..Len(lo_in[s]) /\ lo_line'[s] = lo_in[s][1] /\ lo_line'[s] \in Nat
        /\ \A i \in 1..Len(lo_in'[s]) : i + 1 \in 1..Len(lo_in[s]) /\ lo_in'[s][i] = lo_in[s][i + 1]
    <2> PICK q : q = lo_in[s]
      OBVIOUS
    <2>1. q \in Seq(Nat) /\ q # <<>>
      BY <1>0, <1>1
    <2>2. /\ Tail(q) \in Seq(Nat) /\ Len(q) \in Nat \ {0} /\ Len(Tail(q)) = Len(q) - 1
          /\ 1 \in 1..Len(q) /\ Head(q) = q[1] /\ Head(q) \in Nat
          /\ \A i \in 1..Len(Tail(q)) : i + 1 \in 1..Len(q) /\ Tail(q)[i] = q[i + 1]
      BY <2>1, TailFacts
    <2> QED
      BY <1>1, <2>2
  <1>3. LogTypes'
    <2>1. lo_in' \in [LogServers -> Seq(Nat)] /\ lo_line' \in [LogServers -> Nat]
      BY <1>0, <1>1, <1>2 DEF LogInv, LogTypes
    <2> QED
      BY <1>0, <2>1 DEF LogInv, LogTypes, Logs!Ids
  <1>4. /\ Len(lo_in[s]) <= lo_typed[s]
        /\ \A i \in 1..Len(lo_in[s]) : lo_in[s][i] = lo_typed[s] - Len(lo_in[s]) + i
    BY DEF LogInv, Flow
  <1>5. lo_line'[s] = lo_typed[s] - Len(lo_in'[s]) /\ lo_line'[s] > 0
    <2>1. lo_line'[s] = lo_typed[s] - Len(lo_in[s]) + 1
      BY <1>2, <1>4
    <2> QED
      BY <1>1, <1>2, <1>4, <2>1
  <1>6. Flow'
    <2> SUFFICES ASSUME NEW u \in LogServers
                 PROVE  /\ Len(lo_in'[u]) <= lo_typed[u]
                        /\ \A i \in 1..Len(lo_in'[u]) : lo_in'[u][i] = lo_typed[u] - Len(lo_in'[u]) + i
                        /\ lo_line'[u] > 0 => lo_line'[u] = lo_typed[u] - Len(lo_in'[u])
                        /\ lo_server[u] # "run" => lo_line'[u] = 0 /\ Len(lo_in'[u]) = lo_typed[u]
      BY <1>0 DEF Flow
    <2>1. CASE u # s
      BY <1>1, <2>1 DEF LogInv, Flow
    <2>2. CASE u = s
      <3>1. ASSUME NEW i \in 1..Len(lo_in'[s])
            PROVE  lo_in'[s][i] = lo_typed[s] - Len(lo_in'[s]) + i
        <4>1. lo_in'[s][i] = lo_typed[s] - Len(lo_in[s]) + (i + 1)
          BY <1>2, <1>4
        <4>2. /\ i \in Int /\ Len(lo_in'[s]) = Len(lo_in[s]) - 1 /\ Len(lo_in[s]) \in Int
              /\ lo_typed[s] \in Int
          BY <1>1, <1>2
        <4>3. lo_typed[s] - Len(lo_in[s]) + (i + 1) = lo_typed[s] - Len(lo_in'[s]) + i
          BY <4>2
        <4> QED
          BY <4>1, <4>3
      <3>2. Len(lo_in'[s]) <= lo_typed[s]
        BY <1>1, <1>2, <1>4
      <3> QED
        BY <1>0, <1>5, <2>2, <3>1, <3>2
    <2> QED
      BY <2>1, <2>2
  <1>7. \A u \in LogServers : Copied(u)' = Copied(u)
    <2>1. Copied(s)' = lo_typed[s] - Len(lo_in'[s]) - 1 /\ Copied(s) = lo_typed[s] - Len(lo_in[s]) - 0
      BY <1>0, <1>5 DEF Copied
    <2>2. Copied(s)' = Copied(s)
      BY <1>1, <1>2, <2>1
    <2>3. \A u \in LogServers \ {s} : Copied(u)' = Copied(u)
      BY <1>0, <1>1 DEF Copied
    <2> QED
      BY <2>2, <2>3
  <1>8. Order(Written)'
    BY <1>0, <1>7, WrittenStays DEF Written, OnZero
  <1> QED
    BY <1>0, <1>3, <1>6, <1>8, CountStays DEF LogInv, LogParameters

LEMMA LogMakeInv ==
    ASSUME LogInv, Logs!MakeFifos PROVE LogInv'
  <1>0. /\ lo_logging' = TRUE /\ lo_number' = LogFifos
        /\ UNCHANGED <<lo_server, lo_local, lo_logno, lo_typed, lo_in, lo_line, lo_logfifo, lo_logged>>
    BY DEF Logs!MakeFifos
  <1>1. LogTypes'
    BY <1>0 DEF LogInv, LogTypes, LogParameters, Logs!Ids
  <1>2. LogCountedDown'
    <2>1. Cardinality(LogStored(lo_server)) \in Nat
      BY LogStoredFinite DEF LogInv
    <2> QED
      BY <1>0, <2>1 DEF LogInv, LogCountedDown, LogParameters
  <1>3. Flow'
    BY <1>0 DEF LogInv, Flow
  <1>4. Order(Written)'
    BY <1>0, WrittenStays DEF Written, OnZero, Copied
  <1> QED
    BY <1>1, <1>2, <1>3, <1>4 DEF LogInv, LogParameters

\* A line that is logged was the first in the FIFO: the two together stay as they are.
LEMMA LogLogInv ==
    ASSUME LogInv, Logs!Log PROVE LogInv'
  <1>0. /\ lo_logfifo[0] # <<>> /\ lo_logged' = Append(lo_logged, Head(lo_logfifo[0]))
        /\ lo_logfifo' = [lo_logfifo EXCEPT ![0] = Tail(lo_logfifo[0])]
        /\ UNCHANGED <<lo_number, lo_logging, lo_server, lo_local, lo_logno, lo_typed, lo_in, lo_line>>
    BY DEF Logs!Log, Logs!Readset
  <1>1. /\ lo_logged \in Seq(Entries) /\ lo_logfifo[0] \in Seq(Entries)
        /\ lo_logfifo'[0] = Tail(lo_logfifo[0]) /\ 0 \in Logs!Ids
        /\ \A i \in Logs!Ids \ {0} : lo_logfifo'[i] = lo_logfifo[i]
    BY <1>0, LogZero DEF LogInv, LogTypes
  <1>2. /\ lo_logfifo'[0] \in Seq(Entries) /\ Len(lo_logfifo'[0]) = Len(lo_logfifo[0]) - 1
        /\ Len(lo_logfifo[0]) \in Nat /\ Head(lo_logfifo[0]) \in Entries
    <2> PICK q : q = lo_logfifo[0]
      OBVIOUS
    <2>1. q \in Seq(Entries) /\ q # <<>>
      BY <1>0, <1>1
    <2>2. /\ Tail(q) \in Seq(Entries) /\ Len(q) \in Nat \ {0} /\ Len(Tail(q)) = Len(q) - 1
          /\ Head(q) \in Entries
      BY <2>1, TailFacts
    <2> QED
      BY <1>1, <2>2
  <1>3. lo_logged' \in Seq(Entries)
    BY <1>0, <1>1, <1>2, AppendFacts
  <1>4. LogTypes'
    <2>1. lo_logfifo' \in [Logs!Ids -> Seq(Entries)]
      BY <1>0, <1>1, <1>2 DEF LogInv, LogTypes
    <2>2. \A i \in Logs!Ids : Len(lo_logfifo'[i]) <= Cap
      <3>1. Len(lo_logfifo[0]) <= Cap /\ Cap \in Nat
        BY <1>1 DEF LogInv, LogTypes, LogParameters
      <3>2. Len(lo_logfifo'[0]) <= Cap
        BY <1>2, <3>1
      <3> QED
        BY <1>1, <3>2 DEF LogInv, LogTypes
    <2> QED
      BY <1>0, <1>3, <2>1, <2>2 DEF LogInv, LogTypes, Logs!Ids
  <1>5. Written' = Written
    BY <1>0, <1>1, ConcatMove DEF Written
  <1>6. Flow'
    BY <1>0 DEF LogInv, Flow
  <1>7. Order(Written)'
    BY <1>0, <1>5, WrittenStays DEF OnZero, Copied
  <1> QED
    BY <1>0, <1>4, <1>6, <1>7, CountStays DEF LogInv, LogParameters

\* A line that is copied into the FIFO that is read is the next one of its server.
LEMMA NextLine ==
    ASSUME NEW q \in Seq(Entries), Order(q), NEW s \in LogServers, OnZero(s),
           Copied(s) \in Nat, NEW x, x = <<s, Copied(s) + 1>>,
           \A u \in LogServers : OnZero(u)' <=> OnZero(u),
           \A u \in LogServers \ {s} : Copied(u)' = Copied(u), Copied(s)' = Copied(s) + 1,
           NEW r, r = Append(q, x)
    PROVE  Order(r)'
  <1>0. x \in Entries /\ x[1] = s /\ x[2] = Copied(s) + 1
    BY DEF Entries
  <1>1. /\ r \in Seq(Entries) /\ Len(q) \in Nat /\ Len(r) = Len(q) + 1
        /\ \A i \in 1..Len(q) : i \in 1..Len(r) /\ r[i] = q[i]
        /\ r[Len(q) + 1] = x /\ Len(q) + 1 \in 1..Len(r)
        /\ \A i \in 1..Len(r) : i \in 1..Len(q) \/ i = Len(q) + 1
    BY <1>0, AppendFacts
  <1>2. /\ \A p \in 1..Len(q) : q[p][1] \in LogServers /\ q[p][2] \in Nat
        /\ \A p \in 1..Len(q) : OnZero(q[p][1]) /\ q[p][2] <= Copied(q[p][1])
    BY DEF Entries, Order
  <1>3. Logs!InOrder(r)
    <2> SUFFICES ASSUME NEW p \in 1..Len(r)
                 PROVE  /\ r[p][2] = 1 \/ \E i \in 1..(p - 1) : r[i] = <<r[p][1], r[p][2] - 1>>
                        /\ \A i \in 1..(p - 1) : r[i][1] = r[p][1] => r[i][2] < r[p][2]
      BY DEF Logs!InOrder
    <2>1. CASE p \in 1..Len(q)
      <3>1. /\ q[p][2] = 1 \/ \E i \in 1..(p - 1) : q[i] = <<q[p][1], q[p][2] - 1>>
            /\ \A i \in 1..(p - 1) : q[i][1] = q[p][1] => q[i][2] < q[p][2]
        BY <2>1 DEF Order, Logs!InOrder
      <3>2. r[p] = q[p] /\ \A i \in 1..(p - 1) : i \in 1..Len(q) /\ r[i] = q[i]
        BY <1>1, <2>1
      <3> QED
        BY <3>1, <3>2
    <2>2. CASE p = Len(q) + 1
      <3>1. r[p] = x /\ p - 1 = Len(q) /\ \A i \in 1..(p - 1) : i \in 1..Len(q) /\ r[i] = q[i]
        BY <1>1, <2>2
      <3>2. \A i \in 1..(p - 1) : r[i][1] = r[p][1] => r[i][2] < r[p][2]
        BY <1>0, <1>2, <3>1
      <3>3. r[p][2] = 1 \/ \E i \in 1..(p - 1) : r[i] = <<r[p][1], r[p][2] - 1>>
        <4>1. CASE Copied(s) = 0
          BY <1>0, <3>1, <4>1
        <4>2. CASE Copied(s) >= 1
          <5>1. PICK i \in 1..Len(q) : q[i] = <<s, Copied(s)>>
            BY <4>2 DEF Order
          <5>2. r[p][2] - 1 = Copied(s) /\ r[p][1] = s
            BY <1>0, <3>1
          <5>3. i \in 1..(p - 1) /\ r[i] = <<s, Copied(s)>>
            BY <1>1, <3>1, <5>1
          <5> QED
            BY <5>2, <5>3
        <4>3. \A n \in Nat : n = 0 \/ n >= 1
          OBVIOUS
        <4> QED
          BY <4>1, <4>2, <4>3
      <3> QED
        BY <3>2, <3>3
    <2> QED
      BY <1>1, <2>1, <2>2
  <1>4. ASSUME NEW p \in 1..Len(r) PROVE OnZero(r[p][1])' /\ r[p][2] <= Copied(r[p][1])'
    <2>1. CASE p \in 1..Len(q)
      <3> PICK u : u = q[p][1]
        OBVIOUS
      <3>1. r[p] = q[p] /\ u \in LogServers /\ OnZero(u) /\ q[p][2] <= Copied(u) /\ q[p][2] \in Nat
        BY <1>1, <1>2, <2>1
      <3>2. OnZero(u)'
        BY <3>1
      <3>3. CASE u = s
        <4>1. q[p][2] <= Copied(s) + 1
          BY <3>1, <3>3
        <4> QED
          BY <3>1, <3>2, <3>3, <4>1
      <3>4. CASE u # s
        <4>1. Copied(u)' = Copied(u)
          BY <3>1, <3>4
        <4> QED
          BY <3>1, <3>2, <4>1
      <3> QED
        BY <3>3, <3>4
    <2>2. CASE p = Len(q) + 1
      <3>1. r[p][1] = s /\ r[p][2] = Copied(s)'
        BY <1>0, <1>1, <2>2
      <3>2. Copied(s)' \in Nat /\ OnZero(s)'
        OBVIOUS
      <3>3. r[p][2] <= Copied(s)'
        BY <3>1, <3>2
      <3> QED
        BY <3>1, <3>2, <3>3
    <2> QED
      BY <1>1, <2>1, <2>2
  <1>5. ASSUME NEW u \in LogServers, OnZero(u)', Copied(u)' >= 1
        PROVE  \E p \in 1..Len(r) : r[p] = <<u, Copied(u)'>>
    <2>1. CASE u = s
      BY <1>1, <2>1
    <2>2. CASE u # s
      <3>1. Copied(u)' = Copied(u) /\ OnZero(u)
        BY <1>5, <2>2
      <3>2. Copied(u) >= 1
        BY <1>5, <3>1
      <3>3. PICK p \in 1..Len(q) : q[p] = <<u, Copied(u)>>
        BY <3>1, <3>2 DEF Order
      <3> QED
        BY <1>1, <3>1, <3>3
    <2> QED
      BY <2>1, <2>2
  <1> QED
    BY <1>3, <1>4, <1>5 DEF Order, Logs!InOrder

LEMMA LogCopyInv ==
    ASSUME LogInv, NEW s \in LogServers, Logs!Copy(s) PROVE LogInv'
  <1> PICK j : j = lo_logno[s]
    OBVIOUS
  <1> PICK x : x = <<s, lo_line[s]>>
    OBVIOUS
  <1>0. /\ lo_server[s] = "run" /\ lo_line[s] > 0 /\ Len(lo_logfifo[j]) < Cap
        /\ lo_logfifo' = [lo_logfifo EXCEPT ![j] = Append(lo_logfifo[j], x)]
        /\ lo_line' = [lo_line EXCEPT ![s] = 0]
        /\ UNCHANGED <<lo_number, lo_logging, lo_server, lo_local, lo_logno, lo_typed, lo_in, lo_logged>>
    BY DEF Logs!Copy, LogInv, LogTypes
  <1>1. /\ j \in Logs!Ids /\ lo_logfifo[j] \in Seq(Entries) /\ lo_line[s] \in Nat
        /\ lo_logfifo'[j] = Append(lo_logfifo[j], x) /\ lo_line'[s] = 0
        /\ \A i \in Logs!Ids \ {j} : lo_logfifo'[i] = lo_logfifo[i]
        /\ \A u \in LogServers \ {s} : lo_line'[u] = lo_line[u]
    BY <1>0 DEF LogInv, LogTypes
  <1>2. x \in Entries
    BY <1>0, <1>1 DEF Entries
  <1>3. /\ lo_logfifo'[j] \in Seq(Entries) /\ Len(lo_logfifo'[j]) = Len(lo_logfifo[j]) + 1
        /\ Len(lo_logfifo[j]) \in Nat
    <2> PICK q : q = lo_logfifo[j]
      OBVIOUS
    <2>1. Append(q, x) \in Seq(Entries) /\ Len(Append(q, x)) = Len(q) + 1 /\ Len(q) \in Nat
      BY <1>1, <1>2, AppendFacts
    <2> QED
      BY <1>1, <2>1
  <1>4. LogTypes'
    <2>1. lo_logfifo' \in [Logs!Ids -> Seq(Entries)] /\ lo_line' \in [LogServers -> Nat]
      BY <1>0, <1>1, <1>3 DEF LogInv, LogTypes
    <2>2. \A i \in Logs!Ids : Len(lo_logfifo'[i]) <= Cap
      <3>1. Len(lo_logfifo'[j]) <= Cap
        BY <1>0, <1>3 DEF LogInv, LogParameters
      <3> QED
        BY <1>1, <3>1 DEF LogInv, LogTypes
    <2> QED
      BY <1>0, <2>1, <2>2 DEF LogInv, LogTypes, Logs!Ids
  <1>5. Flow'
    <2> SUFFICES ASSUME NEW u \in LogServers
                 PROVE  /\ Len(lo_in[u]) <= lo_typed[u]
                        /\ \A i \in 1..Len(lo_in[u]) : lo_in[u][i] = lo_typed[u] - Len(lo_in[u]) + i
                        /\ lo_line'[u] > 0 => lo_line'[u] = lo_typed[u] - Len(lo_in[u])
                        /\ lo_server[u] # "run" => lo_line'[u] = 0 /\ Len(lo_in[u]) = lo_typed[u]
      BY <1>0 DEF Flow
    <2>1. CASE u # s
      BY <1>1, <2>1 DEF LogInv, Flow
    <2>2. CASE u = s
      BY <1>0, <1>1, <2>2 DEF LogInv, Flow
    <2> QED
      BY <2>1, <2>2
  <1>6. /\ Copied(s) \in Nat /\ lo_line[s] = Copied(s) + 1 /\ Copied(s)' = Copied(s) + 1
    <2>1. /\ Copied(s) = lo_typed[s] - Len(lo_in[s]) - 1
          /\ Copied(s)' = lo_typed[s] - Len(lo_in[s]) - 0
          /\ lo_line[s] = lo_typed[s] - Len(lo_in[s])
      BY <1>0, <1>1 DEF Copied, LogInv, Flow
    <2>2. lo_typed[s] \in Nat /\ Len(lo_in[s]) \in Nat /\ Copied(s) \in Nat
      BY CopiedFacts DEF LogInv, LogTypes
    <2> QED
      BY <2>1, <2>2
  <1>7. \A u \in LogServers \ {s} : Copied(u)' = Copied(u)
    BY <1>0, <1>1 DEF Copied
  <1>8. \A u \in LogServers : OnZero(u)' <=> OnZero(u)
    BY <1>0 DEF OnZero
  <1>9. Order(Written)'
    <2>1. CASE j = 0
      <3> PICK q : q = Written
        OBVIOUS
      <3> PICK r : r = Append(q, x)
        OBVIOUS
      <3>1. q \in Seq(Entries) /\ Order(q)
        BY WrittenType DEF LogInv
      <3>2. OnZero(s) /\ x = <<s, Copied(s) + 1>>
        BY <1>0, <1>6, <2>1 DEF OnZero
      <3>3. Order(r)'
        BY <1>6, <1>7, <1>8, <3>1, <3>2, NextLine
      <3>4. Written' = r
        <4>1. lo_logged \in Seq(Entries) /\ lo_logfifo[0] \in Seq(Entries)
          BY <1>1, <2>1 DEF LogInv, LogTypes
        <4>2. lo_logged \o Append(lo_logfifo[0], x) = Append(lo_logged \o lo_logfifo[0], x)
          BY <1>2, <4>1, ConcatAppend
        <4> QED
          BY <1>0, <1>1, <2>1, <4>2 DEF Written
      <3> QED
        BY <3>3, <3>4 DEF Order
    <2>2. CASE j # 0
      <3> PICK q : q = Written
        OBVIOUS
      <3>0. q \in Seq(Entries) /\ Order(q)
        BY WrittenType DEF LogInv
      <3>1. Written' = q
        BY <1>0, <1>1, <2>2, LogZero DEF Written, LogInv
      <3>2. ~OnZero(s) /\ ~OnZero(s)'
        BY <1>0, <2>2 DEF OnZero
      <3>3. \A p \in 1..Len(q) : q[p][1] \in LogServers \ {s}
        BY <3>0, <3>2 DEF Order, Entries
      <3>4. Logs!InOrder(q)'
        BY <3>0 DEF Order, Logs!InOrder
      <3>5. ASSUME NEW p \in 1..Len(q) PROVE OnZero(q[p][1])' /\ q[p][2] <= Copied(q[p][1])'
        <4> PICK u : u = q[p][1]
          OBVIOUS
        <4>1. u \in LogServers \ {s} /\ OnZero(u) /\ q[p][2] <= Copied(u)
          BY <3>0, <3>3 DEF Order
        <4>2. OnZero(u)' /\ Copied(u)' = Copied(u)
          BY <1>7, <1>8, <4>1
        <4> QED
          BY <4>1, <4>2
      <3>6. ASSUME NEW u \in LogServers, OnZero(u)', Copied(u)' >= 1
            PROVE  \E p \in 1..Len(q) : q[p] = <<u, Copied(u)'>>
        <4>1. u # s /\ OnZero(u) /\ Copied(u)' = Copied(u)
          BY <1>7, <1>8, <3>2, <3>6
        <4>2. Copied(u) >= 1
          BY <3>6, <4>1
        <4>3. \E p \in 1..Len(q) : q[p] = <<u, Copied(u)>>
          BY <3>0, <4>1, <4>2 DEF Order
        <4> QED
          BY <4>1, <4>3
      <3>7. Order(q)'
        BY <3>4, <3>5, <3>6 DEF Order
      <3> QED
        BY <3>1, <3>7 DEF Order
    <2> QED
      BY <2>1, <2>2
  <1> QED
    BY <1>0, <1>4, <1>5, <1>9, CountStays DEF LogInv, LogParameters

\* A server that starts to run has copied nothing.
LEMMA LogOpenInv ==
    ASSUME LogInv, NEW s \in LogServers, Logs!Open(s) PROVE LogInv'
  <1>0. /\ lo_server[s] = "open" /\ lo_server'[s] \in {"run", "ended"}
        /\ lo_server'[s] = "run" => lo_logno'[s] \in Logs!Ids
        /\ lo_server' \in [LogServers -> {"start", "store", "open", "run", "ended"}]
        /\ lo_logno' \in [LogServers -> Int]
        /\ \A u \in LogServers \ {s} : lo_server'[u] = lo_server[u] /\ lo_logno'[u] = lo_logno[u]
        /\ UNCHANGED <<lo_number, lo_logging, lo_local, lo_typed, lo_in, lo_line, lo_logfifo, lo_logged>>
    BY DEF Logs!Open, LogInv, LogTypes
  <1>1. LogTypes'
    BY <1>0 DEF LogInv, LogTypes, Logs!Ids
  <1>2. LogCountedDown'
    <2>1. LogStored(lo_server') = LogStored(lo_server)
      BY <1>0 DEF LogStored
    <2>2. \A u \in LogServers : lo_server'[u] = "store" => lo_server[u] = "store"
      BY <1>0
    <2> QED
      BY <1>0, <2>1, <2>2 DEF LogInv, LogCountedDown
  <1>3. Flow'
    BY <1>0 DEF LogInv, Flow
  <1>4. Copied(s)' = 0 /\ ~OnZero(s)
    <2>1. lo_line[s] = 0 /\ Len(lo_in[s]) = lo_typed[s] /\ lo_typed[s] \in Nat
      BY <1>0 DEF LogInv, Flow, LogTypes
    <2>2. Copied(s)' = lo_typed[s] - Len(lo_in[s]) - 0
      BY <1>0, <2>1 DEF Copied
    <2> QED
      BY <1>0, <2>1, <2>2 DEF OnZero
  <1>5. \A u \in LogServers \ {s} : Copied(u)' = Copied(u) /\ (OnZero(u)' <=> OnZero(u))
    BY <1>0 DEF Copied, OnZero
  <1>6. Order(Written)'
    <2> PICK q : q = Written
      OBVIOUS
    <2>0. q \in Seq(Entries) /\ Order(q) /\ Written' = q
      BY <1>0, WrittenType DEF LogInv, Written
    <2>1. \A p \in 1..Len(q) : q[p][1] \in LogServers \ {s}
      BY <1>4, <2>0 DEF Order, Entries
    <2>2. Logs!InOrder(q)'
      BY <2>0 DEF Order, Logs!InOrder
    <2>3. ASSUME NEW p \in 1..Len(q) PROVE OnZero(q[p][1])' /\ q[p][2] <= Copied(q[p][1])'
      <3> PICK u : u = q[p][1]
        OBVIOUS
      <3>1. u \in LogServers \ {s} /\ OnZero(u) /\ q[p][2] <= Copied(u)
        BY <2>0, <2>1 DEF Order
      <3>2. OnZero(u)' /\ Copied(u)' = Copied(u)
        BY <1>5, <3>1
      <3> QED
        BY <3>1, <3>2
    <2>4. ASSUME NEW u \in LogServers, OnZero(u)', Copied(u)' >= 1
          PROVE  \E p \in 1..Len(q) : q[p] = <<u, Copied(u)'>>
      <3>1. u # s
        BY <1>4, <2>4
      <3>2. OnZero(u) /\ Copied(u)' = Copied(u)
        BY <1>5, <2>4, <3>1
      <3>3. Copied(u) >= 1
        BY <2>4, <3>2
      <3>4. \E p \in 1..Len(q) : q[p] = <<u, Copied(u)>>
        BY <2>0, <3>2, <3>3 DEF Order
      <3> QED
        BY <3>2, <3>4
    <2>5. Order(q)'
      BY <2>2, <2>3, <2>4 DEF Order
    <2> QED
      BY <2>0, <2>5 DEF Order
  <1> QED
    BY <1>1, <1>2, <1>3, <1>6 DEF LogInv, LogParameters

LEMMA LogNextInv == LogInv /\ [Logs!Next]_(Logs!vars) => LogInv'
  <1> SUFFICES ASSUME LogInv, [Logs!Next]_(Logs!vars) PROVE LogInv'
    OBVIOUS
  <1>1. CASE Logs!MakeFifos
    BY <1>1, LogMakeInv
  <1>2. CASE Logs!Log
    BY <1>2, LogLogInv
  <1>3. ASSUME NEW s \in LogServers, Logs!thread_write(s) \/ Logs!ServerStep(s) PROVE LogInv'
    BY <1>3, LogWriteInv, LogLoadInv, LogStoreInv, LogOpenInv, LogReadInv, LogCopyInv
       DEF Logs!ServerStep
  <1>4. CASE UNCHANGED Logs!vars
    <2>1. UNCHANGED <<lo_number, lo_logging, lo_server, lo_local, lo_logno, lo_typed, lo_in, lo_line,
                      lo_logfifo, lo_logged>>
      BY <1>4 DEF Logs!vars
    <2>2. LogTypes' /\ Flow'
      BY <2>1 DEF LogInv, LogTypes, Flow, Logs!Ids
    <2>3. Order(Written)'
      BY <2>1, WrittenStays DEF Written, OnZero, Copied
    <2> QED
      BY <2>1, <2>2, <2>3, CountStays DEF LogInv, LogParameters
  <1> QED
    BY <1>1, <1>2, <1>3, <1>4 DEF Logs!Next

LEMMA LogInvNoGaps == LogInv => LogsNoGaps
  <1> SUFFICES ASSUME LogInv PROVE LogsNoGaps
    OBVIOUS
  <1>1. Logs!TypeOK
    <2>1. Logs!Cardinality(LogServers) = Cardinality(LogServers)
      BY DEF Logs!Cardinality, Cardinality
    <2>2. lo_number \in -Cardinality(LogServers) .. LogFifos
      <3>1. /\ Cardinality(LogStored(lo_server)) \in Nat /\ Cardinality(LogServers) \in Nat
            /\ Cardinality(LogStored(lo_server)) <= Cardinality(LogServers)
        BY LogStoredFinite DEF LogInv
      <3>2. /\ lo_number <= LogFifos /\ lo_number >= -Cardinality(LogStored(lo_server))
            /\ lo_number \in Int /\ LogFifos \in Nat
        BY DEF LogInv, LogCountedDown, LogTypes, LogParameters
      <3> QED
        BY <3>1, <3>2
    <2> QED
      BY <2>1, <2>2 DEF Logs!TypeOK, LogInv, LogTypes
  <1>2. Logs!NoGaps
    <2>1. /\ Logs!InOrder(Written) /\ Len(lo_logged) \in Nat /\ Len(Written) \in Nat
          /\ Len(lo_logged) <= Len(Written)
          /\ \A i \in 1..Len(lo_logged) : Written[i] = lo_logged[i]
      BY WrittenType DEF LogInv, Order
    <2>2. ASSUME NEW p \in 1..Len(lo_logged)
          PROVE  /\ lo_logged[p][2] = 1 \/ \E i \in 1..(p - 1) : lo_logged[i] = <<lo_logged[p][1], lo_logged[p][2] - 1>>
                 /\ \A i \in 1..(p - 1) : lo_logged[i][1] = lo_logged[p][1] => lo_logged[i][2] < lo_logged[p][2]
      <3>1. /\ p \in 1..Len(Written) /\ Written[p] = lo_logged[p]
            /\ \A i \in 1..(p - 1) : Written[i] = lo_logged[i]
        BY <2>1
      <3>2. /\ Written[p][2] = 1 \/ \E i \in 1..(p - 1) : Written[i] = <<Written[p][1], Written[p][2] - 1>>
            /\ \A i \in 1..(p - 1) : Written[i][1] = Written[p][1] => Written[i][2] < Written[p][2]
        BY <2>1, <3>1 DEF Logs!InOrder
      <3> QED
        BY <3>1, <3>2
    <2> QED
      BY <2>2 DEF Logs!NoGaps, Logs!InOrder
  <1> QED
    BY <1>1, <1>2 DEF LogsNoGaps

LEMMA LogsSpec == AllSpec => Logs!Init /\ [][Logs!Next]_(Logs!vars)
  <1>1. AllInit => Logs!Init
    BY DEF AllInit
  <1>2. [AllNext]_allVars => [Logs!Next]_(Logs!vars)
    BY DEF AllNext, InChat, InMulti, InService, InLogs, InRelay, allVars, logs, Logs!vars
  <1> QED
    BY <1>1, <1>2, PTL DEF AllSpec

\* Whatever the numbers of servers and FIFOs, the FIFOs' capacity and how many lines are
\* typed: what the log server prints of a server are its client's lines from the first on,
\* in order and without gaps.  (server.c and logserver.c of select_servers/logserver)
THEOREM LogsHaveNoGaps == LogParameters /\ AllSpec => []LogsNoGaps
  BY LogsSpec, LogInitInv, LogNextInv, LogInvNoGaps, PTL

-----------------------------------------------------------------------------
(***************************************************************************)
(* MultiServer: who is refused.  A FIFO nobody has taken is as it was made *)
(* and the only client of a FIFO asks once, so that there is one request,  *)
(* one answer or one refusal on it, and never two of them.                 *)
(***************************************************************************)
Asking ==
    /\ wants \in [Clients -> BOOLEAN] /\ reading \in [Clients -> BOOLEAN]
    /\ gotserver \in [Clients -> BOOLEAN] /\ refused \in [Ids -> BOOLEAN]
    /\ mainfifo \in [Ids -> Seq(Kinds \cup {"line"})]
    /\ \A i \in ready : mainfifo[i] # <<>>
    /\ \A c \in Clients :
           /\ client[c] # "open" =>
                  logno[c] = -1 /\ fd[c] = "none" /\ wants[c] /\ reading[c]
           /\ fd[c] = "main" => logno[c] \in Ids /\ reading[c]
           /\ gotserver[c] => ~reading[c]

Fresh(i) == mainfifo[i] = <<>> /\ answers[i] = <<>> /\ ~refused[i]
OneRequest(c) ==
    /\ wants[c] => Fresh(logno[c])
    /\ mainfifo[logno[c]] # <<>> => /\ Len(mainfifo[logno[c]]) = 1
                                   /\ answers[logno[c]] = <<>> /\ ~refused[logno[c]]
    /\ answers[logno[c]] # <<>> => ~refused[logno[c]]
Requests ==
    /\ \A i \in Ids : (\A c \in Clients : logno[c] # i) => Fresh(i)
    /\ \A c \in Clients : logno[c] \in Ids /\ Alone(c) => OneRequest(c)

MultiInv == Inv /\ Asking /\ Requests

\* A step that leaves the FIFOs, the refusals and who has asked alone.
LEMMA RequestsStay ==
    ASSUME Requests, UNCHANGED <<logno, mainfifo, answers, refused, wants>>
    PROVE  Requests'
  BY DEF Requests, Fresh, OneRequest, Alone

LEMMA AskingInit == Parameters /\ Init => Asking /\ Requests
  <1> SUFFICES ASSUME Parameters, Init PROVE Asking /\ Requests
    OBVIOUS
  <1>1. Asking
    BY DEF Asking, Init
  <1>2. \A c \in Clients : logno[c] \notin Ids
    BY DEF Init, Ids, Parameters
  <1>3. \A i \in Ids : Fresh(i)
    BY DEF Init, Fresh
  <1> QED
    BY <1>1, <1>2, <1>3 DEF Requests

LEMMA CountingAsking ==
    ASSUME MultiInv, NEW c \in Clients, Load(c) \/ Store(c)
    PROVE  Asking' /\ Requests'
  <1>1. /\ UNCHANGED <<logno, wants, fd, reading, gotserver, mainfifo, answers, ready, refused>>
        /\ \A d \in Clients : client'[d] # "open" => client[d] # "open"
    BY DEF Load, Store, mainserver, MultiInv, Inv, Types
  <1>2. Asking'
    BY <1>1 DEF MultiInv, Asking, Ids
  <1> QED
    BY <1>1, <1>2, RequestsStay DEF MultiInv

LEMMA OpenAsking ==
    ASSUME MultiInv, NEW c \in Clients, Open(c)
    PROVE  Asking' /\ Requests'
  <1>1. /\ UNCHANGED <<wants, reading, gotserver, mainfifo, answers, ready, refused>>
        /\ client[c] = "store" /\ logno[c] = -1 /\ wants[c]
    BY DEF Open, mainserver, MultiInv, Asking
  <1>2. /\ \A d \in Clients : d # c => logno'[d] = logno[d] /\ fd'[d] = fd[d] /\ client'[d] = client[d]
        /\ client'[c] = "open" /\ logno'[c] = number
        /\ fd'[c] = IF number \in Ids THEN "main" ELSE "none"
    BY DEF Open, MultiInv, Inv, Types
  <1>3. -1 \notin Ids
    BY DEF Ids
  <1>4. fd[c] = "none"
    BY <1>1 DEF MultiInv, Asking
  <1>5. Asking'
    <2>1. ASSUME NEW d \in Clients
          PROVE  /\ client'[d] # "open" =>
                        logno'[d] = -1 /\ fd'[d] = "none" /\ wants'[d] /\ reading'[d]
                 /\ fd'[d] = "main" => logno'[d] \in Ids /\ reading'[d]
                 /\ gotserver'[d] => ~reading'[d]
      <3>1. CASE d = c
        <4>1. reading[c] /\ (gotserver[c] => ~reading[c])
          BY <1>1 DEF MultiInv, Asking
        <4> QED
          BY <1>1, <1>2, <3>1, <4>1
      <3> QED
        BY <1>1, <1>2, <3>1 DEF MultiInv, Asking
    <2> QED
      BY <1>1, <2>1 DEF MultiInv, Asking, Ids
  <1>6. Requests'
    <2>1. ASSUME NEW i \in Ids, \A d \in Clients : logno'[d] # i PROVE Fresh(i)
      BY <1>1, <1>2, <1>3, <2>1 DEF MultiInv, Requests
    <2>2. ASSUME NEW d \in Clients, logno'[d] \in Ids, \A e \in Clients \ {d} : logno'[e] # logno'[d]
          PROVE  OneRequest(d)'
      <3>1. CASE d = c
        <4>1. \A e \in Clients : logno[e] # number
          BY <1>1, <1>2, <1>3, <2>2, <3>1
        <4>2. Fresh(number)
          BY <1>2, <2>2, <3>1, <4>1 DEF MultiInv, Requests
        <4> QED
          BY <1>1, <1>2, <3>1, <4>2 DEF Fresh, OneRequest
      <3>2. CASE d # c
        <4>1. logno[d] \in Ids /\ Alone(d)
          BY <1>1, <1>2, <1>3, <2>2, <3>2 DEF Alone
        <4>2. OneRequest(d)
          BY <4>1 DEF MultiInv, Requests
        <4> QED
          BY <1>1, <1>2, <3>2, <4>2 DEF Fresh, OneRequest
      <3> QED
        BY <3>1, <3>2
    <2> QED
      BY <1>1, <2>1, <2>2 DEF Requests, Alone, Fresh, Ids
  <1> QED
    BY <1>5, <1>6

\* What c sends goes to its own FIFO, if it has one.
LEMMA SendFacts ==
    ASSUME MultiInv, NEW c \in Clients, NEW m \in Kinds \cup {"line"}, Send(c, m)
    PROVE  /\ mainfifo' \in [Ids -> Seq(Kinds \cup {"line"})]
           /\ \A i \in Ids : i # logno[c] => mainfifo'[i] = mainfifo[i]
           /\ fd[c] # "main" => mainfifo' = mainfifo
           /\ fd[c] = "main" => /\ logno[c] \in Ids
                               /\ mainfifo'[logno[c]] = Append(mainfifo[logno[c]], m)
           /\ \A i \in Ids : mainfifo[i] # <<>> => mainfifo'[i] # <<>>
  <1>1. mainfifo \in [Ids -> Seq(Kinds \cup {"line"})] /\ (fd[c] = "main" => logno[c] \in Ids)
    BY DEF MultiInv, Asking
  <1>2. CASE fd[c] = "main"
    <2> PICK i : i = logno[c]
      OBVIOUS
    <2>1. i \in Ids /\ mainfifo' = [mainfifo EXCEPT ![i] = Append(mainfifo[i], m)]
      BY <1>1, <1>2 DEF Send
    <2>2. mainfifo[i] \in Seq(Kinds \cup {"line"})
      BY <1>1, <2>1
    <2> PICK q : q = mainfifo[i]
      OBVIOUS
    <2>3. Append(q, m) \in Seq(Kinds \cup {"line"}) /\ Append(q, m) # <<>>
      BY <2>2
    <2> QED
      BY <1>1, <1>2, <2>1, <2>3
  <1>3. CASE fd[c] # "main"
    BY <1>1, <1>3 DEF Send
  <1> QED
    BY <1>2, <1>3

LEMMA WriteAsking ==
    ASSUME MultiInv, NEW c \in Clients, thread_write(c)
    PROVE  Asking' /\ Requests'
  <1>1. /\ UNCHANGED <<client, logno, fd, reading, gotserver, answers, ready, refused>>
        /\ client[c] = "open" /\ wants[c]
        /\ wants' = [wants EXCEPT ![c] = FALSE]
    BY DEF thread_write
  <1>2. PICK m \in Kinds : Send(c, m)
    BY DEF thread_write
  <1>3. /\ mainfifo' \in [Ids -> Seq(Kinds \cup {"line"})]
        /\ \A i \in Ids : i # logno[c] => mainfifo'[i] = mainfifo[i]
        /\ fd[c] # "main" => mainfifo' = mainfifo
        /\ fd[c] = "main" => /\ logno[c] \in Ids
                            /\ mainfifo'[logno[c]] = Append(mainfifo[logno[c]], m)
        /\ \A i \in Ids : mainfifo[i] # <<>> => mainfifo'[i] # <<>>
    BY <1>2, SendFacts
  <1>4. wants \in [Clients -> BOOLEAN] /\ ready \subseteq Ids
    BY DEF MultiInv, Asking, Inv, Types
  <1>5. Asking'
    <2>1. wants' \in [Clients -> BOOLEAN] /\ \A d \in Clients : d # c => wants'[d] = wants[d]
      BY <1>1, <1>4
    <2>2. \A i \in ready : mainfifo'[i] # <<>>
      BY <1>3, <1>4 DEF MultiInv, Asking
    <2> QED
      BY <1>1, <1>3, <2>1, <2>2 DEF MultiInv, Asking, Ids
  <1>6. Requests'
    <2>1. ASSUME NEW i \in Ids, \A d \in Clients : logno[d] # i PROVE Fresh(i)'
      <3>1. Fresh(i) /\ i # logno[c]
        BY <2>1 DEF MultiInv, Requests
      <3> QED
        BY <1>1, <1>3, <3>1 DEF Fresh
    <2>2. ASSUME NEW d \in Clients, logno[d] \in Ids, Alone(d) PROVE OneRequest(d)'
      <3>1. OneRequest(d)
        BY <2>2 DEF MultiInv, Requests
      <3>2. CASE d = c /\ fd[c] = "main"
        <4>1. Fresh(logno[c])
          BY <1>1, <3>1, <3>2 DEF OneRequest
        <4>2. mainfifo'[logno[c]] = Append(<<>>, m)
          BY <1>3, <3>2, <4>1 DEF Fresh
        <4>3. Len(mainfifo'[logno[c]]) = 1
          BY <4>2
        <4>4. ~wants'[c]
          BY <1>1, <1>4
        <4> QED
          BY <1>1, <3>2, <4>1, <4>3, <4>4 DEF OneRequest, Fresh
      <3>3. CASE d = c /\ fd[c] # "main"
        <4>1. ~wants'[c] /\ mainfifo' = mainfifo
          BY <1>1, <1>3, <1>4, <3>3
        <4> QED
          BY <1>1, <3>1, <3>3, <4>1 DEF OneRequest
      <3>4. CASE d # c
        <4>1. wants'[d] = wants[d] /\ mainfifo'[logno[d]] = mainfifo[logno[d]]
          BY <1>1, <1>3, <1>4, <2>2, <3>4 DEF Alone
        <4> QED
          BY <1>1, <3>1, <4>1 DEF OneRequest, Fresh
      <3> QED
        BY <3>2, <3>3, <3>4
    <2> QED
      BY <1>1, <2>1, <2>2 DEF Requests, Alone, Ids
  <1> QED
    BY <1>5, <1>6

\* Only who has a server still types: nothing more comes into the FIFOs of requests.
LEMMA TalkAsking ==
    ASSUME MultiInv, NEW c \in Clients, Talk(c)
    PROVE  Asking' /\ Requests'
  <1>1. /\ UNCHANGED <<client, logno, wants, fd, reading, gotserver, answers, ready, refused>>
        /\ gotserver[c] /\ Send(c, "line")
    BY DEF Talk
  <1>2. fd[c] # "main"
    BY <1>1 DEF MultiInv, Asking
  <1>3. UNCHANGED mainfifo
    BY <1>1, <1>2, SendFacts
  <1>4. Asking'
    BY <1>1, <1>3 DEF MultiInv, Asking, Ids
  <1> QED
    BY <1>1, <1>3, <1>4, RequestsStay DEF MultiInv

LEMMA ReadAsking ==
    ASSUME MultiInv, NEW c \in Clients, thread_read(c)
    PROVE  Asking' /\ Requests'
  <1>1. /\ UNCHANGED <<client, logno, wants, gotserver, mainfifo, ready, refused>>
        /\ client[c] = "open" /\ logno[c] \in Ids /\ answers[logno[c]] # <<>>
        /\ reading' = [reading EXCEPT ![c] = FALSE]
        /\ fd' = [fd EXCEPT ![c] = Head(answers[logno[c]])]
        /\ answers' = [answers EXCEPT ![logno[c]] = <<>>]
    BY DEF thread_read
  <1>2. /\ fd \in [Clients -> Kinds \cup {"none", "main"}] /\ answers \in [Ids -> Seq(Kinds)]
        /\ reading \in [Clients -> BOOLEAN]
    BY DEF MultiInv, Inv, Types, Asking
  <1>3. Head(answers[logno[c]]) \in Kinds
    <2> PICK q : q = answers[logno[c]]
      OBVIOUS
    <2>1. q \in Seq(Kinds) /\ q # <<>>
      BY <1>1, <1>2
    <2> QED
      BY <2>1
  <1>4. fd'[c] # "main" /\ ~reading'[c] /\ reading' \in [Clients -> BOOLEAN]
    BY <1>1, <1>2, <1>3 DEF Kinds
  <1>5. \A d \in Clients : d # c => fd'[d] = fd[d] /\ reading'[d] = reading[d]
    BY <1>1, <1>2
  <1>6. Asking'
    <2>1. ASSUME NEW d \in Clients
          PROVE  /\ client'[d] # "open" =>
                        logno'[d] = -1 /\ fd'[d] = "none" /\ wants'[d] /\ reading'[d]
                 /\ fd'[d] = "main" => logno'[d] \in Ids /\ reading'[d]
                 /\ gotserver'[d] => ~reading'[d]
      <3>1. CASE d = c
        BY <1>1, <1>4, <3>1
      <3> QED
        BY <1>1, <1>5, <3>1 DEF MultiInv, Asking
    <2> QED
      BY <1>1, <1>4, <2>1 DEF MultiInv, Asking, Ids
  <1>7. \A i \in Ids : answers'[i] = answers[i] \/ answers'[i] = <<>>
    BY <1>1, <1>2
  <1>8. Requests'
    <2>1. ASSUME NEW i \in Ids, \A d \in Clients : logno[d] # i PROVE Fresh(i)'
      <3>1. Fresh(i)
        BY <2>1 DEF MultiInv, Requests
      <3> QED
        BY <1>1, <1>7, <3>1 DEF Fresh
    <2>2. ASSUME NEW d \in Clients, logno[d] \in Ids, Alone(d) PROVE OneRequest(d)'
      <3>1. OneRequest(d)
        BY <2>2 DEF MultiInv, Requests
      <3> QED
        BY <1>1, <1>7, <2>2, <3>1 DEF OneRequest, Fresh
    <2> QED
      BY <1>1, <2>1, <2>2 DEF Requests, Alone, Ids
  <1> QED
    BY <1>6, <1>8

LEMMA FlagAsking ==
    ASSUME MultiInv, NEW c \in Clients, ReadFails(c) \/ SetGot(c)
    PROVE  Asking' /\ Requests'
  <1>1. UNCHANGED <<client, logno, wants, fd, mainfifo, answers, ready, refused>>
    BY DEF ReadFails, SetGot, mainserver
  <1>2. reading \in [Clients -> BOOLEAN] /\ gotserver \in [Clients -> BOOLEAN]
    BY DEF MultiInv, Asking
  <1>3. /\ reading' \in [Clients -> BOOLEAN] /\ gotserver' \in [Clients -> BOOLEAN]
        /\ \A d \in Clients : d # c => reading'[d] = reading[d] /\ gotserver'[d] = gotserver[d]
    BY <1>2 DEF ReadFails, SetGot
  <1>4. /\ (client[c] = "open" /\ fd[c] # "main") \/ reading'[c] = reading[c]
        /\ gotserver'[c] => ~reading'[c]
    BY <1>2 DEF ReadFails, SetGot, MultiInv, Asking
  <1>5. Asking'
    BY <1>1, <1>3, <1>4 DEF MultiInv, Asking, Ids
  <1> QED
    BY <1>1, <1>5, RequestsStay DEF MultiInv

LEMMA SelectAsking ==
    ASSUME MultiInv, Select
    PROVE  Asking' /\ Requests'
  <1>1. /\ UNCHANGED <<client, logno, wants, fd, reading, gotserver, mainfifo, answers, refused>>
        /\ ready' = {i \in Ids : mainfifo[i] # <<>>}
    BY DEF Select
  <1>2. Asking'
    BY <1>1 DEF MultiInv, Asking, Ids
  <1> QED
    BY <1>1, <1>2, RequestsStay DEF MultiInv

\* The one request of a client alone becomes an answer or a refusal.
LEMMA ServeAsking ==
    ASSUME MultiInv, Serve
    PROVE  Asking' /\ Requests'
  <1>1. /\ ready # {} /\ ready \subseteq Ids /\ \A i \in ready : mainfifo[i] # <<>>
        /\ mainfifo \in [Ids -> Seq(Kinds \cup {"line"})] /\ refused \in [Ids -> BOOLEAN]
        /\ answers \in [Ids -> Seq(Kinds)]
    BY DEF Serve, MultiInv, Asking, Inv, Types
  <1>2. \E x \in ready : \A y \in ready : x <= y
    <2>1. ready \subseteq Nat
      BY <1>1 DEF Ids, MultiInv, Inv, Parameters
    <2> QED
      BY <1>1, <2>1, Smallest
  <1>3. PICK j : j = CHOOSE x \in ready : \A y \in ready : x <= y
    OBVIOUS
  <1>4. j \in ready /\ j \in Ids
    BY <1>1, <1>2, <1>3
  <1>5. PICK t : t = Head(mainfifo[j])
    OBVIOUS
  <1>6. /\ UNCHANGED <<client, logno, wants, fd, reading, gotserver>>
        /\ ready' = ready \ {j} /\ mainfifo' = [mainfifo EXCEPT ![j] = Tail(mainfifo[j])]
        /\ \/ answers' = [answers EXCEPT ![j] = Append(answers[j], t)] /\ refused' = refused
           \/ refused' = [refused EXCEPT ![j] = TRUE] /\ answers' = answers
    BY <1>3, <1>5 DEF Serve
  <1>7. PICK q : q = mainfifo[j]
    OBVIOUS
  <1>8. /\ q \in Seq(Kinds \cup {"line"}) /\ q # <<>>
        /\ Tail(q) \in Seq(Kinds \cup {"line"}) /\ (Len(q) = 1 => Tail(q) = <<>>)
    <2>1. q \in Seq(Kinds \cup {"line"}) /\ q # <<>>
      BY <1>1, <1>4, <1>7
    <2>2. /\ Tail(q) \in Seq(Kinds \cup {"line"}) /\ Len(Tail(q)) = Len(q) - 1
      BY <2>1
    <2>3. Len(q) = 1 => Len(Tail(q)) = 0
      BY <2>2
    <2> QED
      BY <2>1, <2>2, <2>3
  <1>9. /\ mainfifo' \in [Ids -> Seq(Kinds \cup {"line"})] /\ refused' \in [Ids -> BOOLEAN]
        /\ mainfifo'[j] = Tail(q)
        /\ \A i \in Ids : i # j => /\ mainfifo'[i] = mainfifo[i] /\ answers'[i] = answers[i]
                                  /\ refused'[i] = refused[i]
        /\ answers'[j] = answers[j] \/ refused'[j] = refused[j]
    BY <1>1, <1>4, <1>6, <1>7, <1>8
  <1>10. Asking'
    <2>1. \A i \in ready' : mainfifo'[i] # <<>>
      BY <1>1, <1>6, <1>9
    <2> QED
      BY <1>6, <1>9, <2>1 DEF MultiInv, Asking, Ids
  <1>11. Requests'
    <2>1. ASSUME NEW i \in Ids, \A d \in Clients : logno[d] # i PROVE Fresh(i)'
      <3>1. Fresh(i)
        BY <2>1 DEF MultiInv, Requests
      <3>2. i # j
        BY <1>7, <1>8, <3>1 DEF Fresh
      <3> QED
        BY <1>9, <3>1, <3>2 DEF Fresh
    <2>2. ASSUME NEW d \in Clients, logno[d] \in Ids, Alone(d) PROVE OneRequest(d)'
      <3>1. OneRequest(d)
        BY <2>2 DEF MultiInv, Requests
      <3>2. CASE logno[d] # j
        BY <1>6, <1>9, <2>2, <3>1, <3>2 DEF OneRequest, Fresh
      <3>3. CASE logno[d] = j
        <4>1. ~wants[d] /\ Len(q) = 1 /\ answers[j] = <<>> /\ ~refused[j]
          BY <1>7, <1>8, <3>1, <3>3 DEF OneRequest, Fresh
        <4>2. mainfifo'[j] = <<>>
          BY <1>8, <1>9, <4>1
        <4> QED
          BY <1>6, <1>9, <3>3, <4>1, <4>2 DEF OneRequest, Fresh
      <3> QED
        BY <3>2, <3>3
    <2> QED
      BY <1>6, <2>1, <2>2 DEF Requests, Alone, Ids
  <1> QED
    BY <1>10, <1>11

LEMMA MultiNextInv == MultiInv /\ [Next]_vars => MultiInv'
  <1> SUFFICES ASSUME MultiInv, [Next]_vars PROVE MultiInv'
    OBVIOUS
  <1>1. Inv'
    BY NextInv DEF MultiInv
  <1>2. CASE MainStep
    BY <1>1, <1>2, SelectAsking, ServeAsking DEF MainStep, MultiInv
  <1>3. ASSUME NEW c \in Clients, ClientStep(c) PROVE MultiInv'
    BY <1>1, <1>3, CountingAsking, OpenAsking, WriteAsking, TalkAsking, ReadAsking, FlagAsking
       DEF ClientStep, MultiInv
  <1>4. CASE (\E t \in Kinds : ServerReads(t)) \/ UNCHANGED vars
    <2>1. UNCHANGED <<client, logno, wants, fd, reading, gotserver, mainfifo, answers, ready, refused>>
      BY <1>4 DEF ServerReads, mainserver, vars
    <2>2. Asking'
      BY <2>1 DEF MultiInv, Asking, Ids
    <2> QED
      BY <1>1, <2>1, <2>2, RequestsStay DEF MultiInv
  <1> QED
    BY <1>2, <1>3, <1>4 DEF Next

\* A client reads an answer of its own FIFO only, where none is after a refusal.
LEMMA RefusedStays ==
    ASSUME MultiInv, [Next]_vars, NEW c \in Clients,
           client[c] = "open", logno[c] \in Ids, refused[logno[c]], Alone(c)'
    PROVE  fd'[c] = fd[c]
  <1>1. fd \in [Clients -> Kinds \cup {"none", "main"}]
    BY DEF MultiInv, Inv, Types
  <1>2. CASE UNCHANGED fd
    BY <1>2
  <1>3. ASSUME NEW d \in Clients, Open(d) PROVE fd'[c] = fd[c]
    BY <1>1, <1>3 DEF Open
  <1>4. ASSUME NEW d \in Clients, thread_read(d) PROVE fd'[c] = fd[c]
    <2>1. CASE d # c
      BY <1>1, <1>4, <2>1 DEF thread_read
    <2>2. CASE d = c
      <3>1. Alone(c) /\ answers[logno[c]] # <<>>
        BY <1>4, <2>2 DEF thread_read, Alone
      <3>2. OneRequest(c)
        BY <3>1 DEF MultiInv, Requests
      <3> QED
        BY <3>1, <3>2 DEF OneRequest
    <2> QED
      BY <2>1, <2>2
  <1>5. UNCHANGED fd \/ \E d \in Clients : Open(d) \/ thread_read(d)
    BY DEF Next, MainStep, ClientStep, Load, Store, thread_write, Talk, ReadFails, SetGot, Select,
           Serve, ServerReads, vars
  <1> QED
    BY <1>2, <1>3, <1>4, <1>5

-----------------------------------------------------------------------------
(***************************************************************************)
(* The chat servers, and the log server's other FIFOs                      *)
(***************************************************************************)
ChatParameters == N \in Nat /\ N >= 2 /\ Cap \in Nat

ChatInv ==
    /\ ChatParameters
    /\ ch_user \in [Chat!Ids -> {"absent", "typing", "gone"}] /\ ch_k \in 0..N
    /\ ch_out = [c \in Chat!Ids |-> ch_out[c]]

LEMMA ChatNextInv == ChatInv /\ [Chat!Next]_(Chat!vars) => ChatInv'
  <1> SUFFICES ASSUME ChatInv, [Chat!Next]_(Chat!vars) PROVE ChatInv'
    OBVIOUS
  <1>1. ASSUME NEW c \in Chat!Ids, Chat!ClientStep(c) PROVE ChatInv'
    BY <1>1 DEF Chat!ClientStep, Chat!MakeFifos, Chat!thread_write, Chat!thread_read, Chat!Leave,
       ChatInv, ChatParameters, Chat!Ids
  <1>2. CASE Chat!OpenFifos \/ Chat!ServerStep
    BY <1>2 DEF Chat!OpenFifos, Chat!ServerStep, Chat!Select, Chat!ReadLine, Chat!Broadcast,
       Chat!Again, ChatInv, ChatParameters, Chat!Ids
  <1>3. CASE UNCHANGED Chat!vars
    BY <1>3 DEF Chat!vars, ChatInv, ChatParameters, Chat!Ids
  <1> QED
    BY <1>1, <1>2, <1>3 DEF Chat!Next

\* The server waits in the broadcast, and nobody reads the FIFO it waits for.
LEMMA ChatStuck == ChatInv /\ [Chat!Next]_(Chat!vars) /\ Chat!Stuck => Chat!Stuck'
  <1> SUFFICES ASSUME ChatInv, [Chat!Next]_(Chat!vars), Chat!Stuck PROVE Chat!Stuck'
    OBVIOUS
  <1>0. /\ ch_server = "scan" /\ ch_k < N /\ ch_k \in Chat!Ids /\ ch_user[ch_k] = "gone"
        /\ Len(ch_out[ch_k]) = Cap /\ ch_k # ch_msg.from
    BY DEF Chat!Stuck, Chat!Others, Chat!Ids, ChatInv, ChatParameters
  <1>1. ASSUME NEW c \in Chat!Ids, Chat!ClientStep(c) PROVE Chat!Stuck'
    <2>1. UNCHANGED <<ch_server, ch_k, ch_msg>>
      BY <1>1 DEF Chat!ClientStep, Chat!MakeFifos, Chat!thread_write, Chat!thread_read, Chat!Leave
    <2>2. ch_user'[ch_k] = ch_user[ch_k] /\ ch_out'[ch_k] = ch_out[ch_k]
      BY <1>0, <1>1 DEF Chat!ClientStep, Chat!MakeFifos, Chat!thread_write, Chat!thread_read,
         Chat!Leave, ChatInv
    <2> QED
      BY <1>0, <2>1, <2>2 DEF Chat!Stuck, Chat!Others
  <1>2. CASE Chat!OpenFifos \/ Chat!ServerStep
    <2>1. ~(Len(ch_out[ch_k]) < Cap) /\ ch_k # N
      BY <1>0 DEF ChatInv, ChatParameters
    <2> QED
      BY <1>0, <1>2, <2>1 DEF Chat!OpenFifos, Chat!ServerStep, Chat!Select, Chat!ReadLine,
         Chat!Broadcast, Chat!Again, Chat!Others
  <1>3. CASE UNCHANGED Chat!vars
    BY <1>0, <1>3 DEF Chat!vars, Chat!Stuck, Chat!Others
  <1> QED
    BY <1>1, <1>2, <1>3 DEF Chat!Next

\* A line that is being passed on has still someone to go to.
RelayInv ==
    /\ ChatParameters
    /\ re_user \in [Relay!Ids -> {"absent", "typing", "gone"}]
    /\ re_to \subseteq Relay!Ids /\ (re_server = "open" => re_to # {})

LEMMA RelayNextInv == RelayInv /\ [Relay!Next]_(Relay!vars) => RelayInv'
  <1> SUFFICES ASSUME RelayInv, [Relay!Next]_(Relay!vars) PROVE RelayInv'
    OBVIOUS
  <1>1. ASSUME NEW c \in Relay!Ids, Relay!ClientStep(c) PROVE RelayInv'
    BY <1>1 DEF Relay!ClientStep, Relay!Run, Relay!writer, Relay!reader, Relay!Leave, RelayInv,
       ChatParameters, Relay!Ids
  <1>2. CASE Relay!Wait \/ Relay!Open
    BY <1>2 DEF Relay!Wait, Relay!Open, Relay!users, RelayInv, ChatParameters, Relay!Ids
  <1>3. CASE Relay!Read
    <2>1. PICK i : re_to' = Relay!Ids \ {i}
      BY <1>3 DEF Relay!Read
    <2>2. 0 \in Relay!Ids /\ 1 \in Relay!Ids
      BY DEF RelayInv, ChatParameters, Relay!Ids
    <2>3. re_to' # {} /\ re_to' \subseteq Relay!Ids
      BY <2>1, <2>2
    <2> QED
      BY <1>3, <2>3 DEF Relay!Read, Relay!users, RelayInv, ChatParameters, Relay!Ids
  <1>4. CASE Relay!Write
    BY <1>4 DEF Relay!Write, Relay!users, RelayInv, ChatParameters, Relay!Ids
  <1>5. CASE UNCHANGED Relay!vars
    BY <1>5 DEF Relay!vars, RelayInv, ChatParameters, Relay!Ids
  <1> QED
    BY <1>1, <1>2, <1>3, <1>4, <1>5 DEF Relay!Next, Relay!ServerStep

\* The server waits for a reader of the FIFO, and the client that left does not return.
LEMMA RelayStuck == RelayInv /\ [Relay!Next]_(Relay!vars) /\ Relay!Stuck => Relay!Stuck'
  <1> SUFFICES ASSUME RelayInv, [Relay!Next]_(Relay!vars), Relay!Stuck PROVE Relay!Stuck'
    OBVIOUS
  <1>1. PICK j : j = Relay!Min(re_to)
    OBVIOUS
  <1>2. re_server = "open" /\ re_user[j] = "gone"
    BY <1>1 DEF Relay!Stuck
  <1>3. j \in Relay!Ids
    <2>1. re_to \subseteq Nat /\ re_to # {} /\ re_to \subseteq Relay!Ids
      BY <1>2 DEF RelayInv, ChatParameters, Relay!Ids
    <2>2. \E x \in re_to : \A y \in re_to : x <= y
      BY <2>1, Smallest
    <2>3. j \in re_to
      BY <1>1, <2>2 DEF Relay!Min
    <2> QED
      BY <2>1, <2>3
  <1>4. ASSUME NEW c \in Relay!Ids, Relay!ClientStep(c) PROVE Relay!Stuck'
    <2>1. UNCHANGED <<re_server, re_to>>
      BY <1>4 DEF Relay!ClientStep, Relay!Run, Relay!writer, Relay!reader, Relay!Leave
    <2>2. re_user'[j] = "gone"
      BY <1>2, <1>3, <1>4 DEF Relay!ClientStep, Relay!Run, Relay!writer, Relay!reader, Relay!Leave,
         RelayInv
    <2> QED
      BY <1>1, <1>2, <2>1, <2>2 DEF Relay!Stuck
  <1>5. CASE Relay!ServerStep
    BY <1>1, <1>2, <1>5 DEF Relay!ServerStep, Relay!Wait, Relay!Read, Relay!Open, Relay!Write
  <1>6. CASE UNCHANGED Relay!vars
    BY <1>1, <1>2, <1>6 DEF Relay!vars, Relay!Stuck
  <1> QED
    BY <1>4, <1>5, <1>6 DEF Relay!Next

\* A FIFO other than 0 is not read, and a server that waits to write into it reads nothing.
LEMMA LogBlocked ==
    ASSUME LogInv, [Logs!Next]_(Logs!vars), NEW s \in LogServers, Logs!Blocked(s)
    PROVE  Logs!Blocked(s)' /\ lo_typed'[s] - Len(lo_in'[s]) = lo_typed[s] - Len(lo_in[s])
  <1>1. PICK i : i = lo_logno[s]
    OBVIOUS
  <1>2. /\ lo_line[s] > 0 /\ Len(lo_logfifo[i]) = Cap /\ i # 0 /\ lo_line[s] # 0
        /\ lo_server[s] = "run" /\ i \in Logs!Ids /\ ~(Len(lo_logfifo[i]) < Cap)
    BY <1>1 DEF Logs!Blocked, LogInv, Flow, LogTypes, LogParameters
  <1>3. /\ lo_server \in [LogServers -> {"start", "store", "open", "run", "ended"}]
        /\ lo_logno \in [LogServers -> Int] /\ lo_typed \in [LogServers -> Nat]
        /\ lo_in \in [LogServers -> Seq(Nat)] /\ lo_line \in [LogServers -> Nat]
        /\ lo_logfifo \in [Logs!Ids -> Seq(Entries)]
    BY DEF LogInv, LogTypes
  <1>4. SUFFICES /\ lo_line'[s] = lo_line[s] /\ lo_logno'[s] = i /\ lo_logfifo'[i] = lo_logfifo[i]
                 /\ lo_typed'[s] - Len(lo_in'[s]) = lo_typed[s] - Len(lo_in[s])
    BY <1>2, <1>4 DEF Logs!Blocked
  <1>5. CASE Logs!MakeFifos \/ UNCHANGED Logs!vars
    BY <1>1, <1>5 DEF Logs!MakeFifos, Logs!vars
  <1>6. CASE Logs!Log
    BY <1>1, <1>2, <1>3, <1>6 DEF Logs!Log, Logs!Readset
  <1>7. ASSUME NEW t \in LogServers, Logs!thread_write(t)
        PROVE  /\ lo_line'[s] = lo_line[s] /\ lo_logno'[s] = i /\ lo_logfifo'[i] = lo_logfifo[i]
               /\ lo_typed'[s] - Len(lo_in'[s]) = lo_typed[s] - Len(lo_in[s])
    <2>1. UNCHANGED <<lo_line, lo_logno, lo_logfifo>>
      BY <1>7 DEF Logs!thread_write
    <2>2. CASE t # s
      BY <1>1, <1>3, <1>7, <2>1, <2>2 DEF Logs!thread_write
    <2>3. CASE t = s
      <3> PICK q : q = lo_in[s]
        OBVIOUS
      <3> PICK n : n = lo_typed[s]
        OBVIOUS
      <3>1. q \in Seq(Nat) /\ n \in Nat
        BY <1>3
      <3>2. lo_typed'[s] = n + 1 /\ lo_in'[s] = Append(q, n + 1)
        BY <1>3, <1>7, <2>3 DEF Logs!thread_write
      <3>3. Len(Append(q, n + 1)) = Len(q) + 1 /\ Len(q) \in Nat
        BY <3>1
      <3>4. PICK l \in Nat : l = Len(q)
        BY <3>3
      <3>5. (n + 1) - (l + 1) = n - l
        BY <3>1
      <3> QED
        BY <1>1, <2>1, <3>2, <3>3, <3>4, <3>5
    <2> QED
      BY <2>2, <2>3
  <1>8. ASSUME NEW t \in LogServers, Logs!ServerStep(t)
        PROVE  /\ lo_line'[s] = lo_line[s] /\ lo_logno'[s] = i /\ lo_logfifo'[i] = lo_logfifo[i]
               /\ lo_typed'[s] - Len(lo_in'[s]) = lo_typed[s] - Len(lo_in[s])
    <2>1. CASE Logs!Load(t) \/ Logs!Store(t)
      BY <1>1, <2>1 DEF Logs!Load, Logs!Store
    <2>2. CASE Logs!Open(t)
      BY <1>1, <1>2, <1>3, <2>2 DEF Logs!Open
    <2>3. CASE Logs!Read(t)
      BY <1>1, <1>2, <1>3, <2>3 DEF Logs!Read
    <2>4. CASE Logs!Copy(t)
      <3>1. /\ Len(lo_logfifo[lo_logno[t]]) < Cap
            /\ UNCHANGED <<lo_logno, lo_typed, lo_in>> /\ lo_line' = [lo_line EXCEPT ![t] = 0]
            /\ lo_logfifo' = [lo_logfifo EXCEPT ![lo_logno[t]] = Append(@, <<t, lo_line[t]>>)]
        BY <2>4 DEF Logs!Copy
      <3>2. lo_logno[t] # i /\ t # s
        BY <1>1, <1>2, <3>1
      <3> QED
        BY <1>1, <1>2, <1>3, <3>1, <3>2
    <2> QED
      BY <1>8, <2>1, <2>2, <2>3, <2>4 DEF Logs!ServerStep
  <1> QED
    BY <1>5, <1>6, <1>7, <1>8 DEF Logs!Next

-----------------------------------------------------------------------------
(***************************************************************************)
(* Who is stuck                                                            *)
(***************************************************************************)
StuckInv == MultiInv /\ ChatInv /\ RelayInv /\ LogInv

\* A step of one program leaves the others alone.
LEMMA EachSteps ==
    [AllNext]_allVars => /\ [Next]_vars /\ [Chat!Next]_(Chat!vars)
                         /\ [Relay!Next]_(Relay!vars) /\ [Logs!Next]_(Logs!vars)
  BY DEF AllNext, InChat, InMulti, InService, InLogs, InRelay, allVars, chat, logs, relay, vars,
     Chat!vars, Relay!vars, Logs!vars

LEMMA StuckNext == StuckInv /\ [AllNext]_allVars => StuckInv'
  BY EachSteps, MultiNextInv, ChatNextInv, RelayNextInv, LogNextInv DEF StuckInv

\* Whatever the numbers of clients, servers and FIFOs: a chat server that waits at the FIFO
\* of a client that ended, or opens it again, does so for ever; a client that was refused a
\* server and shares its FIFOs with nobody is never given one; a server whose log FIFO is
\* full and is not FIFO 0 never reads its client again.
\* (server.c of select_servers/chatserver, chatserver and selectservers/chatserver,
\* mainserver.c of select_servers/multiserver, logserver.c of select_servers/logserver)
THEOREM StuckStayStuck ==
    Parameters /\ ChatParameters /\ LogParameters /\ AllSpec => StuckForEver
  <1>1. Parameters /\ ChatParameters /\ LogParameters /\ AllInit => StuckInv
    <2> SUFFICES ASSUME Parameters, ChatParameters, LogParameters, AllInit PROVE StuckInv
      OBVIOUS
    <2>1. Init /\ Chat!Init /\ Relay!Init /\ Logs!Init
      BY DEF AllInit
    <2>2. MultiInv
      BY <2>1, InitInv, AskingInit DEF MultiInv
    <2>3. ChatInv
      BY <2>1 DEF ChatInv, ChatParameters, Chat!Init
    <2>4. RelayInv
      BY <2>1 DEF RelayInv, ChatParameters, Relay!Init
    <2> QED
      BY <2>1, <2>2, <2>3, <2>4, LogInitInv DEF StuckInv
  <1>2. StuckInv /\ [AllNext]_allVars => StuckInv'
    BY StuckNext
  <1>3. StuckInv /\ [AllNext]_allVars => [Chat!Stuck => Chat!Stuck']_(Chat!vars)
    BY EachSteps, ChatStuck DEF StuckInv
  <1>4. StuckInv /\ [AllNext]_allVars => [Relay!Stuck => Relay!Stuck']_(Relay!vars)
    BY EachSteps, RelayStuck DEF StuckInv
  <1>5. StuckInv /\ [AllNext]_allVars =>
            [\A c \in Clients :
                client[c] = "open" /\ logno[c] \in Ids /\ refused[logno[c]] /\ Alone(c)'
                    => fd'[c] = fd[c]]_vars
    BY EachSteps, RefusedStays DEF StuckInv
  <1>6. StuckInv /\ [AllNext]_allVars =>
            [\A s \in LogServers : Logs!Blocked(s) =>
                Logs!Blocked(s)' /\ lo_typed'[s] - Len(lo_in'[s]) = lo_typed[s] - Len(lo_in[s])]_(Logs!vars)
    BY EachSteps, LogBlocked DEF StuckInv
  <1> QED
    BY <1>1, <1>2, <1>3, <1>4, <1>5, <1>6, PTL
       DEF AllSpec, StuckForEver, Chat!StuckForEver, Relay!StuckForEver, RefusedForEver,
           Logs!UnreadForEver
=============================================================================
