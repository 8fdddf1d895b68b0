----------------------------- MODULE RpcProofs -----------------------------
(***************************************************************************)
(* Proofs about the programs of MCRpc, for any clients, lines and files,   *)
(* and however often requests are sent again, delayed or lost.  The stubs, *)
(* the network and svc_run are the service of AtLeastOnce; the server      *)
(* executes a call at most once for each transmission of its request; what *)
(* the users see is right; the server keeps its tree and leaks descriptors *)
(* in ls and touch only; and what is lost is not made up for.              *)
(***************************************************************************)
EXTENDS MCRpc, FiniteSetTheorems, SequenceTheorems, WellFoundedInduction, TLAPS

Spec == Init /\ [][Next]_vars

(***************************************************************************)
(* Stubs, network and server                                               *)
(***************************************************************************)

\* What becomes a call.
Legal(prog) == IF prog = "nfs" THEN {l \in NfsLines : LineKind(l) = "call"} ELSE SumLines

\* What the procedures return is not known; at any time it is in some set V.
Values(V) ==
    /\ asked \in [Clients -> Seq(Legal(service))]
    /\ sent \in [Clients -> Seq(Nat)]
    /\ log \in [Clients -> Seq(V)]
    /\ runs \in [Clients -> Seq(Seq(V))]
    /\ state \in [Clients -> {"ready", "calling", "ended", "crashed"}]

\* A client has one call in progress or none, and all others have a result.
CallsInv ==
    \A c \in Clients :
        /\ Len(sent[c]) = Len(asked[c])
        /\ Len(runs[c]) = Len(asked[c])
        /\ IF state[c] = "calling" THEN Len(asked[c]) = Len(log[c]) + 1
                                   ELSE Len(asked[c]) = Len(log[c])

\* A request in flight asks for what its call asked for; a reply in flight carries
\* what an execution of its own call returned.
DatagramsInv ==
    /\ \A r \in requests :
        /\ r.from \in Clients /\ r.call \in 1..Len(asked[r.from])
        /\ r.line = asked[r.from][r.call]
    /\ \A r \in replies :
        /\ r.to \in Clients /\ r.call \in 1..Len(asked[r.to])
        /\ \E m \in 1..Len(runs[r.to][r.call]) : r.res = runs[r.to][r.call][m]

\* the requests of call n of client c that are in flight
Pending(c, n) == {r \in requests : r.from = c /\ r.call = n}

\* Every transmission is executed, in flight or lost.
CountInv ==
    \A c \in Clients : \A n \in 1..Len(asked[c]) :
        /\ IsFiniteSet(Pending(c, n))
        /\ Len(runs[c][n]) + Cardinality(Pending(c, n)) <= sent[c][n]

RpcInv ==
    /\ \E V : Values(V)
    /\ CallsInv
    /\ DatagramsInv
    /\ CountInv

(***************************************************************************)
(* The steps of both programs, as far as calls and datagrams go            *)
(***************************************************************************)
States == {"ready", "calling", "ended", "crashed"}

Rests ==
    /\ UNCHANGED <<service, asked, sent, log, requests, replies, runs>>
    /\ state' \in [Clients -> States]
    /\ \A c \in Clients : state'[c] = "calling" <=> state[c] = "calling"
    /\ \/ /\ UNCHANGED <<server, gen, up>>
          /\ \/ UNCHANGED bound
             \/ gen # 0 /\ \E c \in Clients : bound' = [bound EXCEPT ![c] = gen]
       \/ /\ server' = BootAny(server) /\ up' = TRUE /\ UNCHANGED bound
          /\ gen < MaxStarts /\ gen' = gen + 1

Runs(r) ==
    LET s == ServeAny(server, r.line) IN
    /\ server' = s.server
    /\ requests' = requests \ {r}
    /\ runs' = [runs EXCEPT ![r.from][r.call] = Append(@, s.res)]
    /\ replies' \subseteq replies \union {[to |-> r.from, call |-> r.call, res |-> s.res]}
    /\ up' = s.up
    /\ UNCHANGED <<service, gen, bound, state, asked, sent, log>>

Sends(c, l, n, q) == q.from = c /\ q.call = n /\ q.line = l /\ q.gen = bound[c]

Calls(c, l) ==
    /\ state[c] = "ready" /\ state' = [state EXCEPT ![c] = "calling"]
    /\ bound[c] > 0
    /\ asked' = [asked EXCEPT ![c] = Append(@, l)]
    /\ sent' = [sent EXCEPT ![c] = Append(@, 1)]
    /\ runs' = [runs EXCEPT ![c] = Append(@, <<>>)]
    /\ \E q : Sends(c, l, Len(asked[c]) + 1, q) /\ requests' = requests \union {q}
    /\ UNCHANGED <<service, server, gen, up, bound, log, replies>>

Resends(c) ==
    /\ state[c] = "calling" /\ sent[c][Len(asked[c])] < MaxTries
    /\ \E q : /\ Sends(c, asked[c][Len(asked[c])], Len(asked[c]), q)
             /\ requests' = requests \union {q}
    /\ sent' = [sent EXCEPT ![c][Len(asked[c])] = @ + 1]
    /\ UNCHANGED <<service, server, gen, up, bound, state, asked, log, replies, runs>>

Returns(c, x) ==
    /\ state[c] = "calling"
    /\ \E w \in States \ {"calling"} : state' = [state EXCEPT ![c] = w]
    /\ log' = [log EXCEPT ![c] = Append(@, x)]
    /\ replies' \subseteq replies
    /\ UNCHANGED <<service, server, gen, up, bound, asked, sent, requests, runs>>

OwnAnswer(c, x) ==
    x = Null \/ \E r \in replies : r.to = c /\ r.call = Len(asked[c]) /\ x = r.res

RpcStep ==
    \/ Rests
    \/ \E r \in requests : Runs(r)
    \/ \E c \in Clients, l \in Legal(service) : Calls(c, l)
    \/ \E c \in Clients : Resends(c) \/ \E x : Returns(c, x) /\ OwnAnswer(c, x)

-----------------------------------------------------------------------------
LEMMA AppendFacts ==
    ASSUME NEW A, NEW q \in Seq(A), NEW x \in A
    PROVE  /\ Append(q, x) \in Seq(A)
           /\ Len(Append(q, x)) = Len(q) + 1 /\ Len(q) \in Nat
           /\ \A n \in 1..Len(q) : Append(q, x)[n] = q[n]
           /\ Append(q, x)[Len(q) + 1] = x
  OBVIOUS

LEMMA LenFacts ==
    ASSUME NEW A, NEW q \in Seq(A)
    PROVE  /\ Len(q) \in Nat /\ DOMAIN q = 1..Len(q)
           /\ \A n \in 1..Len(q) : q[n] \in A
  OBVIOUS

\* one more possible result
LEMMA MoreValues ==
    ASSUME NEW V, Values(V), NEW x
    PROVE  Values(V \union {x})
  <1>1. \A q \in Seq(V) : q \in Seq(V \union {x})
    OBVIOUS
  <1>2. \A q \in Seq(Seq(V)) : q \in Seq(Seq(V \union {x}))
    BY <1>1
  <1>3. log \in [Clients -> Seq(V \union {x})]
    BY <1>1 DEF Values
  <1>4. runs \in [Clients -> Seq(Seq(V \union {x}))]
    BY <1>2 DEF Values
  <1> QED
    BY <1>3, <1>4 DEF Values

LEMMA InitCalls == Init => RpcInv
  <1> SUFFICES ASSUME Init PROVE RpcInv
    OBVIOUS
  <1>1. /\ state = [c \in Clients |-> "ready"] /\ asked = [c \in Clients |-> <<>>]
        /\ sent = [c \in Clients |-> <<>>] /\ log = [c \in Clients |-> <<>>]
        /\ runs = [c \in Clients |-> <<>>] /\ requests = {} /\ replies = {}
    BY DEF Init, N!Init, S!Init
  <1>2. Values({})
    BY <1>1 DEF Values
  <1>3. CallsInv /\ DatagramsInv /\ CountInv
    BY <1>1 DEF CallsInv, DatagramsInv, CountInv
  <1> QED
    BY <1>2, <1>3 DEF RpcInv

\* Steps that change neither calls nor datagrams.
LEMMA RestsInv ==
    ASSUME RpcInv, Rests
    PROVE  RpcInv'
  <1>1. PICK V : Values(V)
    BY DEF RpcInv
  <1>2. Values(V)'
    BY <1>1 DEF Rests, States, Values
  <1>3. CallsInv' /\ DatagramsInv' /\ CountInv'
    BY DEF Rests, RpcInv, CallsInv, DatagramsInv, CountInv, Pending
  <1> QED
    BY <1>2, <1>3 DEF RpcInv

\* What an execution does to the results.
Executes(r, c, n, x) == c = r.from /\ n = r.call /\ x = ServeAny(server, r.line).res
Appends(V, c, n, x) ==
    /\ Values(V) /\ x \in V
    /\ c \in Clients /\ n \in 1..Len(asked[c]) /\ n \in 1..Len(runs[c])
    /\ runs[c][n] \in Seq(V)
    /\ Append(runs[c][n], x) \in Seq(V)
    /\ Len(Append(runs[c][n], x)) = Len(runs[c][n]) + 1 /\ Len(runs[c][n]) \in Nat
    /\ \A m \in 1..Len(runs[c][n]) : Append(runs[c][n], x)[m] = runs[c][n][m]
    /\ Append(runs[c][n], x)[Len(runs[c][n]) + 1] = x
    /\ runs' \in [Clients -> Seq(Seq(V))]
    /\ \A d \in Clients : Len(runs'[d]) = Len(runs[d])
    /\ \A d \in Clients : \A m \in 1..Len(runs[d]) :
        runs'[d][m] = IF d = c /\ m = n THEN Append(runs[c][n], x) ELSE runs[d][m]

LEMMA RunsAt ==
    ASSUME RpcInv, NEW r \in requests, Runs(r), NEW c, NEW n, NEW x, Executes(r, c, n, x)
    PROVE  \E V : Appends(V, c, n, x)
  <1>1. PICK A : Values(A)
    BY DEF RpcInv
  <1>2. PICK V : V = A \union {x}
    OBVIOUS
  <1>3. Values(V) /\ x \in V
    BY <1>1, <1>2, MoreValues
  <1>4. /\ c \in Clients /\ n \in 1..Len(asked[c]) /\ n \in 1..Len(runs[c])
        /\ UNCHANGED <<service, state, asked, sent, log>>
        /\ requests' = requests \ {r}
        /\ runs' = [runs EXCEPT ![c][n] = Append(runs[c][n], x)]
        /\ replies' \subseteq replies \union {[to |-> c, call |-> n, res |-> x]}
    BY DEF RpcInv, CallsInv, DatagramsInv, Runs, Executes
  <1>5. /\ runs[c] \in Seq(Seq(V)) /\ runs[c][n] \in Seq(V) /\ Len(runs[c]) \in Nat
        /\ \A d \in Clients : runs[d] \in Seq(Seq(V))
    BY <1>3, <1>4 DEF Values
  <1>6. /\ Append(runs[c][n], x) \in Seq(V)
        /\ Len(Append(runs[c][n], x)) = Len(runs[c][n]) + 1 /\ Len(runs[c][n]) \in Nat
        /\ \A m \in 1..Len(runs[c][n]) : Append(runs[c][n], x)[m] = runs[c][n][m]
        /\ Append(runs[c][n], x)[Len(runs[c][n]) + 1] = x
    BY <1>3, <1>5, AppendFacts
  <1>7. /\ runs' \in [Clients -> Seq(Seq(V))]
        /\ \A d \in Clients : Len(runs'[d]) = Len(runs[d])
        /\ \A d \in Clients : \A m \in 1..Len(runs[d]) :
            runs'[d][m] = IF d = c /\ m = n THEN Append(runs[c][n], x) ELSE runs[d][m]
    <2>1. PICK q : q = [runs[c] EXCEPT ![n] = Append(runs[c][n], x)]
      OBVIOUS
    <2>2. /\ q \in Seq(Seq(V)) /\ Len(q) = Len(runs[c])
          /\ \A m \in 1..Len(runs[c]) : q[m] = IF m = n THEN Append(runs[c][n], x) ELSE runs[c][m]
      BY <1>4, <1>5, <1>6, <2>1
    <2>3. runs' = [runs EXCEPT ![c] = q]
      BY <1>4, <2>1
    <2>4. runs \in [Clients -> Seq(Seq(V))]
      BY <1>3 DEF Values
    <2> QED
      BY <1>4, <2>2, <2>3, <2>4
  <1> QED
    BY <1>3, <1>4, <1>5, <1>6, <1>7 DEF Appends

LEMMA RunsInv ==
    ASSUME RpcInv, NEW r \in requests, Runs(r)
    PROVE  RpcInv'
  <1>0. PICK c, n, x : Executes(r, c, n, x)
    BY DEF Executes
  <1>1. PICK V : Appends(V, c, n, x)
    BY <1>0, RunsAt
  <1>4. /\ c \in Clients /\ n \in 1..Len(asked[c])
        /\ UNCHANGED <<service, state, asked, sent, log>>
        /\ requests' = requests \ {r}
        /\ replies' \subseteq replies \union {[to |-> c, call |-> n, res |-> x]}
    BY <1>0, <1>1 DEF Appends, Executes, Runs
  <1>8. Values(V)'
    BY <1>1, <1>4 DEF Appends, Values
  <1>9. CallsInv'
    BY <1>4, <1>1 DEF Appends, RpcInv, CallsInv
  <1>10. DatagramsInv'
    <2>1. \A y \in requests' :
            /\ y.from \in Clients /\ y.call \in 1..Len(asked'[y.from])
            /\ y.line = asked'[y.from][y.call]
      BY <1>4 DEF RpcInv, DatagramsInv
    <2>2. ASSUME NEW y \in replies'
          PROVE  /\ y.to \in Clients /\ y.call \in 1..Len(asked'[y.to])
                 /\ \E m \in 1..Len(runs'[y.to][y.call]) : y.res = runs'[y.to][y.call][m]
      <3>1. CASE y \in replies
        <4>1. /\ y.to \in Clients /\ y.call \in 1..Len(asked[y.to])
              /\ y.call \in 1..Len(runs[y.to])
          BY <3>1 DEF RpcInv, DatagramsInv, CallsInv
        <4>2. PICK m \in 1..Len(runs[y.to][y.call]) : y.res = runs[y.to][y.call][m]
          BY <3>1 DEF RpcInv, DatagramsInv
        <4>3. CASE y.to = c /\ y.call = n
          <5>1. runs'[y.to][y.call] = Append(runs[c][n], x)
            BY <1>1, <4>1, <4>3 DEF Appends
          <5>2. m \in 1..Len(runs[c][n]) /\ y.res = runs[c][n][m]
            BY <4>2, <4>3
          <5>3. m \in 1..Len(Append(runs[c][n], x)) /\ Append(runs[c][n], x)[m] = runs[c][n][m]
            BY <1>1, <5>2 DEF Appends
          <5> QED
            BY <1>4, <4>1, <5>1, <5>2, <5>3
        <4>4. CASE ~(y.to = c /\ y.call = n)
          <5>1. runs'[y.to][y.call] = runs[y.to][y.call]
            BY <1>1, <4>1, <4>4 DEF Appends
          <5> QED
            BY <1>4, <4>1, <4>2, <5>1
        <4> QED
          BY <4>3, <4>4
      <3>2. CASE y = [to |-> c, call |-> n, res |-> x]
        <4>1. y.to = c /\ y.call = n /\ y.res = x
          BY <3>2
        <4>2. runs'[c][n] = Append(runs[c][n], x)
          BY <1>4, <1>1 DEF Appends
        <4>3. Len(runs[c][n]) + 1 \in 1..Len(runs'[c][n])
          BY <1>1, <4>2 DEF Appends
        <4>4. /\ c \in Clients /\ n \in 1..Len(asked'[c])
              /\ runs'[c][n][Len(runs[c][n]) + 1] = x
          BY <1>4, <1>1, <4>2 DEF Appends
        <4> QED
          BY <4>1, <4>3, <4>4
      <3> QED
        BY <1>4, <3>1, <3>2
    <2> QED
      BY <2>1, <2>2 DEF DatagramsInv
  <1>11. CountInv'
    <2> SUFFICES ASSUME NEW d \in Clients, NEW m \in 1..Len(asked[d])
                 PROVE  /\ IsFiniteSet(Pending(d, m)')
                        /\ Len(runs'[d][m]) + Cardinality(Pending(d, m)') <= sent[d][m]
      BY <1>4 DEF CountInv
    <2>1. /\ IsFiniteSet(Pending(d, m)) /\ Cardinality(Pending(d, m)) \in Nat
          /\ Len(runs[d][m]) + Cardinality(Pending(d, m)) <= sent[d][m]
      BY FS_CardinalityType DEF RpcInv, CountInv
    <2>2. Pending(d, m)' = Pending(d, m) \ {r}
      BY <1>4 DEF Pending
    <2>3. m \in 1..Len(runs[d])
      BY DEF RpcInv, CallsInv
    <2>4. CASE d = c /\ m = n
      <3>1. r \in Pending(d, m)
        BY <1>0, <2>4 DEF Pending, Executes
      <3>2. /\ IsFiniteSet(Pending(d, m) \ {r})
            /\ Cardinality(Pending(d, m) \ {r}) = Cardinality(Pending(d, m)) - 1
        BY <2>1, <3>1, FS_RemoveElement
      <3>3. Len(runs'[d][m]) = Len(runs[d][m]) + 1 /\ Len(runs[d][m]) \in Nat
        BY <1>1, <2>3, <2>4 DEF Appends
      <3>4. sent[d][m] \in Nat
        <4>1. sent[d] \in Seq(Nat) /\ m \in 1..Len(sent[d])
          BY <1>1 DEF Appends, Values, RpcInv, CallsInv
        <4> QED
          BY <4>1, LenFacts
      <3> QED
        BY <2>1, <2>2, <3>2, <3>3, <3>4
    <2>5. CASE ~(d = c /\ m = n)
      <3>1. r \notin Pending(d, m)
        BY <1>0, <2>5 DEF Pending, Executes
      <3>2. Pending(d, m)' = Pending(d, m)
        BY <2>2, <3>1
      <3>3. runs'[d][m] = runs[d][m]
        BY <1>1, <2>3, <2>5 DEF Appends
      <3> QED
        BY <2>1, <3>2, <3>3
    <2> QED
      BY <2>4, <2>5
  <1> QED
    BY <1>8, <1>9, <1>10, <1>11 DEF RpcInv

\* What a call does to the calls.
Extends(V, k, q, c, l) ==
    /\ Values(V) /\ k \in Nat /\ k = Len(asked[c])
    /\ state[c] = "ready" /\ state' = [state EXCEPT ![c] = "calling"]
    /\ requests' = requests \union {q} /\ log' = log /\ replies' = replies
    /\ q.from = c /\ q.call = k + 1 /\ q.line = l /\ service' = service
    /\ Len(asked[c]) = k /\ Len(sent[c]) = k /\ Len(runs[c]) = k /\ Len(log[c]) = k
    /\ asked' \in [Clients -> Seq(Legal(service))] /\ sent' \in [Clients -> Seq(Nat)]
    /\ runs' \in [Clients -> Seq(Seq(V))]
    /\ \A d \in Clients : d # c =>
        asked'[d] = asked[d] /\ sent'[d] = sent[d] /\ runs'[d] = runs[d]
    /\ asked'[c] \in Seq(Legal(service)) /\ Len(asked'[c]) = k + 1 /\ asked'[c][k + 1] = l
    /\ sent'[c] \in Seq(Nat) /\ Len(sent'[c]) = k + 1 /\ sent'[c][k + 1] = 1
    /\ runs'[c] \in Seq(Seq(V)) /\ Len(runs'[c]) = k + 1 /\ runs'[c][k + 1] = <<>>
    /\ \A d \in Clients : \A m \in 1..Len(asked[d]) :
        /\ m \in 1..Len(asked'[d]) /\ asked'[d][m] = asked[d][m]
        /\ runs'[d][m] = runs[d][m] /\ sent'[d][m] = sent[d][m]

LEMMA CallsAt ==
    ASSUME RpcInv, NEW c \in Clients, NEW l \in Legal(service), Calls(c, l)
    PROVE  \E V, k, q : Extends(V, k, q, c, l)
  <1>1. PICK V : Values(V)
    BY DEF RpcInv
  <1>2. PICK k \in Nat : k = Len(asked[c])
    BY <1>1, LenFacts DEF Values
  <1>0. PICK q : Sends(c, l, k + 1, q) /\ requests' = requests \union {q}
    BY <1>2 DEF Calls
  <1>3. /\ state[c] = "ready" /\ state' = [state EXCEPT ![c] = "calling"]
        /\ asked' = [asked EXCEPT ![c] = Append(asked[c], l)]
        /\ sent' = [sent EXCEPT ![c] = Append(sent[c], 1)]
        /\ runs' = [runs EXCEPT ![c] = Append(runs[c], <<>>)]
        /\ requests' = requests \union {q} /\ log' = log /\ replies' = replies
        /\ q.from = c /\ q.call = k + 1 /\ q.line = l /\ service' = service
    BY <1>0, <1>2 DEF Calls, Sends
  <1>4. /\ asked[c] \in Seq(Legal(service)) /\ sent[c] \in Seq(Nat) /\ runs[c] \in Seq(Seq(V))
        /\ <<>> \in Seq(V) /\ 1 \in Nat
        /\ Len(asked[c]) = k /\ Len(sent[c]) = k /\ Len(runs[c]) = k /\ Len(log[c]) = k
    BY <1>1, <1>2, <1>3 DEF Values, RpcInv, CallsInv
  <1>5. /\ asked'[c] = Append(asked[c], l) /\ sent'[c] = Append(sent[c], 1)
        /\ runs'[c] = Append(runs[c], <<>>)
        /\ \A d \in Clients : d # c =>
            asked'[d] = asked[d] /\ sent'[d] = sent[d] /\ runs'[d] = runs[d]
    <2>1. /\ asked \in [Clients -> Seq(Legal(service))] /\ sent \in [Clients -> Seq(Nat)]
          /\ runs \in [Clients -> Seq(Seq(V))]
      BY <1>1 DEF Values
    <2> QED
      BY <1>3, <2>1
  <1>6. /\ asked'[c] \in Seq(Legal(service)) /\ Len(asked'[c]) = k + 1
        /\ \A m \in 1..k : asked'[c][m] = asked[c][m]
        /\ asked'[c][k + 1] = l
    <2>1. asked[c] \in Seq(Legal(service)) /\ Len(asked[c]) = k /\ asked'[c] = Append(asked[c], l)
      BY <1>4, <1>5
    <2> QED
      BY <2>1, AppendFacts
  <1>7. /\ sent'[c] \in Seq(Nat) /\ Len(sent'[c]) = k + 1
        /\ \A m \in 1..k : sent'[c][m] = sent[c][m]
        /\ sent'[c][k + 1] = 1
    <2>1. sent[c] \in Seq(Nat) /\ Len(sent[c]) = k /\ sent'[c] = Append(sent[c], 1) /\ 1 \in Nat
      BY <1>4, <1>5
    <2> QED
      BY <2>1, AppendFacts
  <1>8. /\ runs'[c] \in Seq(Seq(V)) /\ Len(runs'[c]) = k + 1
        /\ \A m \in 1..k : runs'[c][m] = runs[c][m]
        /\ runs'[c][k + 1] = <<>>
    <2>1. /\ runs[c] \in Seq(Seq(V)) /\ Len(runs[c]) = k /\ <<>> \in Seq(V)
          /\ runs'[c] = Append(runs[c], <<>>)
      BY <1>4, <1>5
    <2> QED
      BY <2>1, AppendFacts
  \* the old calls are as they were
  <1>11. \A d \in Clients : \A m \in 1..Len(asked[d]) :
            /\ m \in 1..Len(asked'[d]) /\ asked'[d][m] = asked[d][m]
            /\ runs'[d][m] = runs[d][m] /\ sent'[d][m] = sent[d][m]
    <2> SUFFICES ASSUME NEW d \in Clients, NEW m \in 1..Len(asked[d])
                 PROVE  /\ m \in 1..Len(asked'[d]) /\ asked'[d][m] = asked[d][m]
                        /\ runs'[d][m] = runs[d][m] /\ sent'[d][m] = sent[d][m]
      OBVIOUS
    <2>1. CASE d # c
      BY <1>5, <2>1
    <2>2. CASE d = c
      <3>1. m \in 1..k /\ m \in 1..(k + 1)
        BY <1>2, <2>2
      <3> QED
        BY <1>6, <1>7, <1>8, <2>2, <3>1
    <2> QED
      BY <2>1, <2>2
  <1>12. /\ asked' \in [Clients -> Seq(Legal(service))] /\ sent' \in [Clients -> Seq(Nat)]
         /\ runs' \in [Clients -> Seq(Seq(V))]
    BY <1>1, <1>3, <1>5, <1>6, <1>7, <1>8 DEF Values
  <1> QED
    BY <1>1, <1>2, <1>3, <1>4, <1>5, <1>6, <1>7, <1>8, <1>11, <1>12 DEF Extends

LEMMA CallsStep ==
    ASSUME RpcInv, NEW c \in Clients, NEW l \in Legal(service), Calls(c, l)
    PROVE  RpcInv'
  <1>1. PICK V, k, q : Extends(V, k, q, c, l)
    BY CallsAt
  <1>9. Values(V)'
    BY <1>1 DEF Extends, Values
  <1>10. CallsInv'
    <2> SUFFICES ASSUME NEW d \in Clients
                 PROVE  /\ Len(sent'[d]) = Len(asked'[d])
                        /\ Len(runs'[d]) = Len(asked'[d])
                        /\ IF state'[d] = "calling" THEN Len(asked'[d]) = Len(log[d]) + 1
                                                    ELSE Len(asked'[d]) = Len(log[d])
      BY <1>1 DEF Extends, CallsInv
    <2>1. CASE d = c
      BY <1>1, <2>1 DEF Extends, Values
    <2>2. CASE d # c
      BY <1>1, <2>2 DEF Extends, Values, RpcInv, CallsInv
    <2> QED
      BY <2>1, <2>2
  <1>12. DatagramsInv'
    <2>1. ASSUME NEW y \in requests'
          PROVE  /\ y.from \in Clients /\ y.call \in 1..Len(asked'[y.from])
                 /\ y.line = asked'[y.from][y.call]
      <3>1. CASE y \in requests
        BY <1>1, <3>1 DEF Extends, RpcInv, DatagramsInv
      <3>2. CASE y = q
        <4>1. /\ q.from = c /\ q.call = k + 1 /\ q.line = l /\ k \in Nat
              /\ Len(asked'[c]) = k + 1 /\ asked'[c][k + 1] = l
          BY <1>1 DEF Extends
        <4> QED
          BY <3>2, <4>1
      <3> QED
        BY <1>1, <3>1, <3>2 DEF Extends
    <2>2. ASSUME NEW y \in replies'
          PROVE  /\ y.to \in Clients /\ y.call \in 1..Len(asked'[y.to])
                 /\ \E m \in 1..Len(runs'[y.to][y.call]) : y.res = runs'[y.to][y.call][m]
      <3>1. /\ y.to \in Clients /\ y.call \in 1..Len(asked[y.to])
            /\ \E m \in 1..Len(runs[y.to][y.call]) : y.res = runs[y.to][y.call][m]
        BY <1>1, <2>2 DEF Extends, RpcInv, DatagramsInv
      <3> QED
        BY <1>1, <3>1 DEF Extends
    <2> QED
      BY <2>1, <2>2 DEF DatagramsInv
  <1>13. CountInv'
    <2> SUFFICES ASSUME NEW d \in Clients, NEW m \in 1..Len(asked'[d])
                 PROVE  /\ IsFiniteSet(Pending(d, m)')
                        /\ Len(runs'[d][m]) + Cardinality(Pending(d, m)') <= sent'[d][m]
      BY DEF CountInv
    <2>1. CASE m \in 1..Len(asked[d])
      <3>1. Pending(d, m)' = Pending(d, m)
        <4>1. /\ requests' = requests \union {q} /\ q.from = c /\ q.call = k + 1
              /\ k \in Nat /\ Len(asked[c]) = k
          BY <1>1 DEF Extends
        <4> QED
          BY <2>1, <4>1 DEF Pending
      <3>2. runs'[d][m] = runs[d][m] /\ sent'[d][m] = sent[d][m]
        BY <1>1, <2>1 DEF Extends
      <3> QED
        BY <2>1, <3>1, <3>2 DEF RpcInv, CountInv
    <2>2. CASE d = c /\ m = k + 1
      <3>1. \A y \in requests : ~(y.from = c /\ y.call = k + 1)
        <4>1. k \in Nat /\ Len(asked[c]) = k
          BY <1>1 DEF Extends
        <4> QED
          BY <4>1 DEF RpcInv, DatagramsInv
      <3>2. Pending(d, m)' = {q}
        <4>1. requests' = requests \union {q} /\ q.from = c /\ q.call = k + 1
          BY <1>1 DEF Extends
        <4> QED
          BY <2>2, <3>1, <4>1 DEF Pending
      <3>3. IsFiniteSet({q}) /\ Cardinality({q}) = 1
        BY FS_Singleton
      <3>4. Len(runs'[d][m]) = 0 /\ sent'[d][m] = 1
        BY <1>1, <2>2 DEF Extends
      <3> QED
        BY <3>2, <3>3, <3>4
    <2> QED
      BY <1>1, <2>1, <2>2 DEF Extends
  <1> QED
    BY <1>9, <1>10, <1>12, <1>13 DEF RpcInv

\* What a retransmission does to the counts.
Again(c, k) ==
    /\ k = Len(asked[c]) /\ k \in 1..Len(asked[c]) /\ k \in 1..Len(sent[c])
    /\ sent[c][k] \in Nat
    /\ sent' \in [Clients -> Seq(Nat)]
    /\ \A d \in Clients : Len(sent'[d]) = Len(sent[d])
    /\ \A d \in Clients : \A m \in 1..Len(sent[d]) :
        sent'[d][m] = IF d = c /\ m = k THEN sent[c][k] + 1 ELSE sent[d][m]

LEMMA ResendsAt ==
    ASSUME RpcInv, NEW c \in Clients, Resends(c)
    PROVE  \E k : Again(c, k)
  <1>1. PICK V : Values(V)
    BY DEF RpcInv
  <1>2. PICK k : k = Len(asked[c])
    OBVIOUS
  <1>3. /\ state[c] = "calling" /\ UNCHANGED asked
        /\ sent' = [sent EXCEPT ![c][k] = sent[c][k] + 1]
    BY <1>2 DEF Resends
  <1>5. /\ k \in 1..Len(asked[c]) /\ k \in 1..Len(sent[c]) /\ sent[c] \in Seq(Nat)
        /\ sent[c][k] \in Nat
    <2>1. k \in Nat /\ Len(log[c]) \in Nat /\ sent[c] \in Seq(Nat)
      BY <1>1, <1>2, LenFacts DEF Values
    <2>2. k = Len(log[c]) + 1 /\ k = Len(sent[c])
      BY <1>2, <1>3 DEF RpcInv, CallsInv
    <2> QED
      BY <1>2, <2>1, <2>2
  <1>6. /\ sent' \in [Clients -> Seq(Nat)]
        /\ \A d \in Clients : Len(sent'[d]) = Len(sent[d])
        /\ \A d \in Clients : \A m \in 1..Len(sent[d]) :
            sent'[d][m] = IF d = c /\ m = k THEN sent[c][k] + 1 ELSE sent[d][m]
    <2>1. PICK s : s = [sent[c] EXCEPT ![k] = sent[c][k] + 1]
      OBVIOUS
    <2>2. /\ s \in Seq(Nat) /\ Len(s) = Len(sent[c])
          /\ \A m \in 1..Len(sent[c]) : s[m] = IF m = k THEN sent[c][k] + 1 ELSE sent[c][m]
      BY <1>5, <2>1
    <2>3. sent' = [sent EXCEPT ![c] = s]
      BY <1>3, <2>1
    <2>4. sent \in [Clients -> Seq(Nat)]
      BY <1>1 DEF Values
    <2> QED
      BY <2>2, <2>3, <2>4
  <1>7. Again(c, k)
    BY <1>2, <1>5, <1>6 DEF Again
  <1> QED
    BY <1>7

LEMMA ResendsInv ==
    ASSUME RpcInv, NEW c \in Clients, Resends(c)
    PROVE  RpcInv'
  <1>1. PICK V : Values(V)
    BY DEF RpcInv
  <1>2. PICK k : Again(c, k)
    BY ResendsAt
  <1>3. PICK q : Sends(c, asked[c][k], k, q) /\ requests' = requests \union {q}
    BY <1>2 DEF Resends, Again
  <1>4. /\ state[c] = "calling" /\ UNCHANGED <<service, state, asked, log, replies, runs>>
        /\ requests' = requests \union {q}
        /\ sent' = [sent EXCEPT ![c][k] = sent[c][k] + 1]
        /\ q.from = c /\ q.call = k /\ q.line = asked[c][k]
    BY <1>2, <1>3 DEF Resends, Sends, Again
  <1>5. /\ k \in 1..Len(asked[c]) /\ k \in 1..Len(sent[c]) /\ sent[c][k] \in Nat
    BY <1>2 DEF Again
  <1>6. /\ sent' \in [Clients -> Seq(Nat)]
        /\ \A d \in Clients : Len(sent'[d]) = Len(sent[d])
        /\ \A d \in Clients : \A m \in 1..Len(sent[d]) :
            sent'[d][m] = IF d = c /\ m = k THEN sent[c][k] + 1 ELSE sent[d][m]
    BY <1>2 DEF Again
  <1>7. Values(V)'
    BY <1>1, <1>4, <1>6 DEF Values
  <1>8. CallsInv'
    BY <1>4, <1>6 DEF RpcInv, CallsInv
  <1>9. DatagramsInv'
    BY <1>4, <1>5 DEF RpcInv, DatagramsInv
  <1>10. CountInv'
    <2> SUFFICES ASSUME NEW d \in Clients, NEW m \in 1..Len(asked[d])
                 PROVE  /\ IsFiniteSet(Pending(d, m)')
                        /\ Len(runs[d][m]) + Cardinality(Pending(d, m)') <= sent'[d][m]
      BY <1>4 DEF CountInv
    <2>1. /\ IsFiniteSet(Pending(d, m)) /\ Cardinality(Pending(d, m)) \in Nat
          /\ Len(runs[d][m]) + Cardinality(Pending(d, m)) <= sent[d][m]
      BY FS_CardinalityType DEF RpcInv, CountInv
    <2>2. m \in 1..Len(sent[d])
      BY DEF RpcInv, CallsInv
    <2>3. CASE d = c /\ m = k
      <3>1. Pending(d, m)' = Pending(d, m) \union {q}
        BY <1>4, <2>3 DEF Pending
      <3>2. /\ IsFiniteSet(Pending(d, m) \union {q})
            /\ Cardinality(Pending(d, m) \union {q}) \in Nat
            /\ Cardinality(Pending(d, m) \union {q}) <= Cardinality(Pending(d, m)) + 1
        <4>1. /\ IsFiniteSet(Pending(d, m) \union {q})
              /\ Cardinality(Pending(d, m) \union {q}) =
                    IF q \in Pending(d, m) THEN Cardinality(Pending(d, m))
                                          ELSE Cardinality(Pending(d, m)) + 1
          BY <2>1, FS_AddElement
        <4> QED
          BY <2>1, <4>1
      <3>3. Len(runs[d][m]) \in Nat
        <4>1. runs[d] \in Seq(Seq(V)) /\ m \in 1..Len(runs[d])
          BY <1>1 DEF Values, RpcInv, CallsInv
        <4> QED
          BY <4>1, LenFacts
      <3>4. sent'[d][m] = sent[d][m] + 1 /\ sent[d][m] \in Nat
        BY <1>5, <1>6, <2>2, <2>3
      <3>5. PICK P : P = Pending(d, m) \union {q}
        OBVIOUS
      <3>6. /\ IsFiniteSet(P) /\ Cardinality(P) \in Nat
            /\ Cardinality(P) <= Cardinality(Pending(d, m)) + 1
        BY <3>2, <3>5
      <3>7. Len(runs[d][m]) + Cardinality(P) <= sent[d][m] + 1
        <4>1. \A a, b, e, x \in Nat : a + e <= x /\ b <= e + 1 => a + b <= x + 1
          OBVIOUS
        <4> QED
          BY <2>1, <3>3, <3>4, <3>6, <4>1
      <3>8. Pending(d, m)' = P
        BY <3>1, <3>5
      <3> QED
        BY <3>4, <3>6, <3>7, <3>8
    <2>4. CASE ~(d = c /\ m = k)
      <3>1. Pending(d, m)' = Pending(d, m)
        BY <1>4, <2>4 DEF Pending
      <3>2. sent'[d][m] = sent[d][m]
        BY <1>6, <2>2, <2>4
      <3> QED
        BY <2>1, <3>1, <3>2
    <2> QED
      BY <2>3, <2>4
  <1> QED
    BY <1>7, <1>8, <1>9, <1>10 DEF RpcInv

\* What a return does to the results.
Logged(V, c, x) ==
    /\ Values(V) /\ x \in V
    /\ log' \in [Clients -> Seq(V)] /\ Len(log[c]) \in Nat /\ Len(log'[c]) = Len(log[c]) + 1
    /\ \A m \in 1..Len(log[c]) : log'[c][m] = log[c][m]
    /\ log'[c][Len(log[c]) + 1] = x
    /\ \A d \in Clients : d # c => log'[d] = log[d]

LEMMA ReturnsAt ==
    ASSUME RpcInv, NEW c \in Clients, NEW x, Returns(c, x)
    PROVE  \E V : Logged(V, c, x)
  <1>1. PICK A : Values(A)
    BY DEF RpcInv
  <1>2. PICK V : V = A \union {x}
    OBVIOUS
  <1>3. Values(V) /\ x \in V
    BY <1>1, <1>2, MoreValues
  <1>4. log' = [log EXCEPT ![c] = Append(log[c], x)] /\ log \in [Clients -> Seq(V)]
    BY <1>3 DEF Returns, Values
  <1>5. PICK q : q = log[c]
    OBVIOUS
  <1>6. /\ q \in Seq(V) /\ Append(q, x) \in Seq(V) /\ Len(Append(q, x)) = Len(q) + 1
        /\ Len(q) \in Nat /\ \A m \in 1..Len(q) : Append(q, x)[m] = q[m]
        /\ Append(q, x)[Len(q) + 1] = x
    <2>1. q \in Seq(V)
      BY <1>4, <1>5
    <2> QED
      BY <1>3, <2>1, AppendFacts
  <1>7. log'[c] = Append(q, x) /\ \A d \in Clients : d # c => log'[d] = log[d]
    BY <1>4, <1>5
  <1>8. log' \in [Clients -> Seq(V)]
    BY <1>4, <1>5, <1>6
  <1> QED
    BY <1>3, <1>5, <1>6, <1>7, <1>8 DEF Logged

LEMMA ReturnsInv ==
    ASSUME RpcInv, NEW c \in Clients, NEW x, Returns(c, x)
    PROVE  RpcInv'
  <1>3. PICK V : Logged(V, c, x)
    BY ReturnsAt
  <1>4. PICK w \in States \ {"calling"} : state' = [state EXCEPT ![c] = w]
    BY DEF Returns
  <1>5. /\ UNCHANGED <<service, asked, sent, requests, runs>> /\ replies' \subseteq replies
        /\ state[c] = "calling"
    BY DEF Returns
  <1>7. Values(V)'
    BY <1>3, <1>4, <1>5 DEF Logged, Values, States
  <1>8. CallsInv'
    <2>1. /\ \A d \in Clients : d # c => log'[d] = log[d] /\ state'[d] = state[d]
          /\ Len(log'[c]) = Len(log[c]) + 1 /\ state'[c] # "calling"
      BY <1>3, <1>4, <1>5 DEF Logged, Values, States
    <2> QED
      BY <1>5, <2>1 DEF RpcInv, CallsInv
  <1>9. DatagramsInv' /\ CountInv'
    BY <1>5 DEF RpcInv, DatagramsInv, CountInv, Pending
  <1> QED
    BY <1>7, <1>8, <1>9 DEF RpcInv

LEMMA StepInv ==
    ASSUME RpcInv, RpcStep
    PROVE  RpcInv'
  BY RestsInv, RunsInv, CallsStep, ResendsInv, ReturnsInv DEF RpcStep


-----------------------------------------------------------------------------
(***************************************************************************)
(* The data of the servers                                                 *)
(***************************************************************************)

\* A process of the file server: a tree of nodes, a current directory whose path is a
\* directory of the tree, and no more descriptors than its table has.
IsNode(n) ==
    /\ n.kind \in {"dir", "file"}
    /\ n = [kind |-> n.kind, data |-> n.data, mode |-> n.mode]
IsFs(fs) ==
    /\ fs = [p \in DOMAIN fs |-> fs[p]] /\ IsTree(fs)
    /\ \A p \in DOMAIN fs : p \in Seq(STRING) /\ IsNode(fs[p])
IsServer(s) ==
    /\ s = [fs |-> s.fs, cwd |-> s.cwd, fds |-> s.fds, rbuf |-> s.rbuf]
    /\ s.cwd = [path |-> s.cwd.path, gone |-> s.cwd.gone]
    /\ IsFs(s.fs) /\ s.cwd.path \in DOMAIN s.fs /\ s.fs[s.cwd.path].kind = "dir"
    /\ s.fds \in 0 .. MaxFds

DataInv ==
    /\ service \in {"nfs", "sums", "ftp"} /\ gen \in Nat
    /\ service = "nfs" => IsServer(server)
    /\ service # "nfs" => DOMAIN server = {"arraysum", "add", "square"}

LEMMA FrontFacts ==
    ASSUME NEW A, NEW q \in Seq(A), NEW x \in A
    PROVE  /\ Append(q, x) \in Seq(A) /\ Append(q, x) # <<>> /\ Front(Append(q, x)) = q
           /\ Append(q, x) # q
  <1>1. /\ Append(q, x) \in Seq(A) /\ Append(q, x) # <<>> /\ Len(Append(q, x)) = Len(q) + 1
        /\ Len(q) \in Nat /\ \A i \in 1..Len(q) : Append(q, x)[i] = q[i]
    BY AppendProperties, LenFacts
  <1>2. PICK b : b = Append(q, x)
    OBVIOUS
  <1>3. Front(b) = SubSeq(b, 1, Len(q))
    BY <1>1, <1>2 DEF Front
  <1>4. SubSeq(b, 1, Len(q)) = q
    BY <1>1, <1>2
  <1>5. Append(q, x) # q
    BY <1>1
  <1> QED
    BY <1>1, <1>2, <1>3, <1>4, <1>5

(***************************************************************************)
(* Where a name leads                                                      *)
(***************************************************************************)
IsName(name) ==
    /\ name.abs \in BOOLEAN /\ name.parts \in Seq(STRING)
    /\ name.abs \/ name.parts # <<>>

\* a path of the tree; only from a removed current directory, a removed one is reached
IsPlace(s, at) ==
    /\ at = [path |-> at.path, gone |-> at.gone] /\ at.path \in DOMAIN s.fs
    /\ at.gone # <<>> => s.fs[at.path].kind = "dir" /\ s.cwd.gone # <<>>

LEMMA EnterFacts ==
    ASSUME NEW s, IsServer(s), NEW at, IsPlace(s, at), NEW part, NEW to \in Enter(s, at, part)
    PROVE  IsPlace(s, to) /\ Searchable(s, at)
  <1>1. /\ to = Below(at, part) /\ Searchable(s, at)
        /\ part \in {".", ".."} \/ (at.gone = <<>> /\ to.path \in DOMAIN s.fs)
    BY DEF Enter
  <1>2. CASE part = "."
    BY <1>1, <1>2 DEF Below
  <1>3. CASE part = ".."
    <2>1. to = Up(at)
      BY <1>1, <1>3 DEF Below
    <2>2. CASE at.gone # <<>>
      <3>1. PICK g : to = [path |-> at.path, gone |-> g]
        BY <2>1, <2>2 DEF Up
      <3>2. at.path \in DOMAIN s.fs /\ s.fs[at.path].kind = "dir" /\ s.cwd.gone # <<>>
        BY <2>2 DEF IsPlace
      <3> QED
        BY <1>1, <3>1, <3>2 DEF IsPlace
    <2>3. CASE at.gone = <<>>
      <3>1. PICK p : p = (IF at.path = <<>> THEN <<>> ELSE Front(at.path))
        OBVIOUS
      <3>2. to = [path |-> p, gone |-> <<>>]
        BY <2>1, <2>3, <3>1 DEF Up, At
      <3>3. p \in DOMAIN s.fs
        BY <3>1 DEF IsPlace, IsServer, IsFs, IsTree
      <3>4. to = [path |-> to.path, gone |-> to.gone] /\ to.path = p /\ to.gone = <<>>
        BY <3>2
      <3> QED
        BY <1>1, <3>3, <3>4 DEF IsPlace
    <2> QED
      BY <1>1, <2>2, <2>3
  <1>4. CASE part \notin {".", ".."}
    <2>1. to = [path |-> Append(at.path, part), gone |-> <<>>]
      BY <1>1, <1>4 DEF Below, At
    <2> QED
      BY <1>1, <1>4, <2>1 DEF IsPlace
  <1> QED
    BY <1>1, <1>2, <1>3, <1>4

\* f follows the first m parts of a name
Trails(s, name, m, f) ==
    f = [n \in 0 .. m |->
            IF n = 0 THEN {IF name.abs THEN At(<<>>) ELSE s.cwd}
            ELSE UNION {Enter(s, at, name.parts[n]) : at \in f[n - 1]}]

LEMMA Smallest ==
    ASSUME NEW K, K \subseteq Nat, K # {}
    PROVE  \E n \in K : \A m \in K : n <= m
  <1>1. PICK L : L = OpToRel(<, Nat)
    OBVIOUS
  <1>2. IsWellFoundedOn(L, Nat)
    BY <1>1, NatLessThanWellFounded
  <1>3. PICK n \in K : \A m \in K : ~(<<m, n>> \in L)
    BY <1>2, WFMin
  <1>4. \A m, k \in Nat : m < k => <<m, k>> \in L
    BY <1>1 DEF OpToRel
  <1>5. \A m \in K : ~(m < n)
    BY <1>3, <1>4, Zenon
  <1> QED
    BY <1>3, <1>5

\* A set that holds 0 and, with a number, the next one holds them all.
LEMMA Induction ==
    ASSUME NEW K, 0 \in K, \A n \in Nat : n \in K => n + 1 \in K
    PROVE  \A n \in Nat : n \in K
  <1> SUFFICES ASSUME NEW n \in Nat, n \notin K
               PROVE  FALSE
    OBVIOUS
  <1>1. PICK L : L = {m \in Nat : m \notin K}
    OBVIOUS
  <1>2. PICK k \in L : \A m \in L : k <= m
    BY <1>1, Smallest
  <1>3. k \in Nat /\ k # 0 /\ k - 1 \in Nat /\ k - 1 \notin L
    BY <1>1, <1>2
  <1> QED
    BY <1>1, <1>2, <1>3

LEMMA TrailExists ==
    ASSUME NEW s, NEW name
    PROVE  \A m \in Nat : \E f : Trails(s, name, m, f)
  <1>0. PICK z : z = {IF name.abs THEN At(<<>>) ELSE s.cwd}
    OBVIOUS
  <1>1. PICK K : K = {m \in Nat : \E f : Trails(s, name, m, f)}
    OBVIOUS
  <1>2. 0 \in K
    <2>1. PICK f : f = [n \in 0..0 |-> z]
      OBVIOUS
    <2>2. Trails(s, name, 0, f)
      BY <1>0, <2>1 DEF Trails
    <2> QED
      BY <1>1, <2>2
  <1>3. ASSUME NEW m \in Nat, m \in K PROVE m + 1 \in K
    <2>1. PICK f : Trails(s, name, m, f)
      BY <1>1, <1>3
    <2>2. PICK last : last = UNION {Enter(s, at, name.parts[m + 1]) : at \in f[m]}
      OBVIOUS
    <2>3. PICK g : g = [n \in 0..(m + 1) |-> IF n = m + 1 THEN last ELSE f[n]]
      OBVIOUS
    <2>4. ASSUME NEW n \in 0..(m + 1)
          PROVE  g[n] = IF n = 0 THEN z
                        ELSE UNION {Enter(s, at, name.parts[n]) : at \in g[n - 1]}
      <3>1. CASE n = m + 1
        <4>1. g[n] = last /\ n # 0 /\ n - 1 = m /\ g[m] = f[m]
          BY <2>3, <3>1
        <4> QED
          BY <2>2, <3>1, <4>1
      <3>2. CASE n \in 0..m
        <4>1. g[n] = f[n] /\ (n # 0 => g[n - 1] = f[n - 1])
          BY <2>3, <3>2
        <4>2. f[n] = IF n = 0 THEN z
                     ELSE UNION {Enter(s, at, name.parts[n]) : at \in f[n - 1]}
          BY <1>0, <2>1, <3>2 DEF Trails
        <4> QED
          BY <4>1, <4>2
      <3> QED
        BY <3>1, <3>2
    <2>5. g = [n \in 0..(m + 1) |->
                  IF n = 0 THEN z ELSE UNION {Enter(s, at, name.parts[n]) : at \in g[n - 1]}]
      BY <2>3, <2>4
    <2>6. Trails(s, name, m + 1, g)
      BY <1>0, <2>5 DEF Trails
    <2> QED
      BY <1>1, <2>6
  <1>4. \A m \in Nat : m \in K
    BY <1>2, <1>3, Induction
  <1> QED
    BY <1>1, <1>4

LEMMA TrailFacts ==
    ASSUME NEW s, NEW name, Len(name.parts) \in Nat
    PROVE  /\ Trail(s, name)[0] = {IF name.abs THEN At(<<>>) ELSE s.cwd}
           /\ \A n \in 1..Len(name.parts) :
                  Trail(s, name)[n] =
                      UNION {Enter(s, at, name.parts[n]) : at \in Trail(s, name)[n - 1]}
  <1>1. PICK m : m = Len(name.parts) /\ m \in Nat
    OBVIOUS
  <1>2. PICK f : f = CHOOSE g : Trails(s, name, m, g)
    OBVIOUS
  <1>3. Trails(s, name, m, f)
    BY <1>1, <1>2, TrailExists
  <1>4. Trail(s, name) = f
    BY <1>1, <1>2 DEF Trail, Trails
  <1>5. f[0] = {IF name.abs THEN At(<<>>) ELSE s.cwd}
    BY <1>1, <1>3 DEF Trails
  <1>6. ASSUME NEW n \in 1..m
        PROVE  f[n] = UNION {Enter(s, at, name.parts[n]) : at \in f[n - 1]}
    <2>1. n \in 0..m /\ n # 0
      OBVIOUS
    <2> QED
      BY <1>3, <2>1 DEF Trails
  <1> QED
    BY <1>1, <1>4, <1>5, <1>6

LEMMA PlaceFacts ==
    ASSUME NEW s, IsServer(s), NEW name, IsName(name), NEW n \in 0..Len(name.parts),
           Led(s, name, n)
    PROVE  IsPlace(s, Place(s, name, n))
  <1>1. PICK m : m = Len(name.parts) /\ m \in Nat
    BY LenFacts DEF IsName
  <1>2. PICK K : K = {k \in Nat : k <= m => \A at \in Trail(s, name)[k] : IsPlace(s, at)}
    OBVIOUS
  <1>3. 0 \in K
    <2>1. <<>> \in DOMAIN s.fs
      BY DEF IsServer, IsFs, IsTree
    <2>2. IsPlace(s, At(<<>>)) /\ IsPlace(s, s.cwd)
      BY <2>1 DEF IsPlace, At, IsServer
    <2>3. \A at \in Trail(s, name)[0] : IsPlace(s, at)
      BY <1>1, <2>2, TrailFacts
    <2> QED
      BY <1>2, <2>3
  <1>4. ASSUME NEW k \in Nat, k \in K PROVE k + 1 \in K
    <2>1. ASSUME k + 1 <= m, NEW to \in Trail(s, name)[k + 1] PROVE IsPlace(s, to)
      <3>1. k + 1 \in 1..m /\ (k + 1) - 1 = k /\ k <= m
        BY <1>1, <2>1
      <3>2. Trail(s, name)[k + 1] = UNION {Enter(s, at, name.parts[k + 1]) : at \in Trail(s, name)[k]}
        BY <1>1, <3>1, TrailFacts
      <3>3. PICK at \in Trail(s, name)[k] : to \in Enter(s, at, name.parts[k + 1])
        BY <2>1, <3>2
      <3>4. IsPlace(s, at)
        BY <1>2, <1>4, <3>1, <3>3
      <3> QED
        BY <3>3, <3>4, EnterFacts
    <2> QED
      BY <1>2, <2>1
  <1>5. n \in K
    BY <1>1, <1>3, <1>4, Induction
  <1>6. \A at \in Trail(s, name)[n] : IsPlace(s, at)
    BY <1>1, <1>2, <1>5
  <1> QED
    BY <1>6 DEF Led, Place

\* Without the permission to search the current directory, only names from / lead anywhere.
Free(s, name) == Searchable(s, s.cwd) \/ name.abs

LEMMA FreeFacts ==
    ASSUME NEW s, IsServer(s), NEW name, IsName(name), Present(s, name) \/ MayChange(s, name)
    PROVE  Free(s, name)
  <1> SUFFICES ASSUME ~Free(s, name)
               PROVE  FALSE
    OBVIOUS
  <1>1. PICK m : m = Len(name.parts) /\ m \in Nat /\ m # 0 /\ ~name.abs /\ ~Searchable(s, s.cwd)
    BY LenFacts, EmptySeq DEF IsName, Free
  <1>2. Trail(s, name)[0] = {s.cwd}
    BY <1>1, TrailFacts
  <1>3. PICK K : K = {k \in Nat : k + 1 <= m => Trail(s, name)[k + 1] = {}}
    OBVIOUS
  <1>4. 0 \in K
    <2>1. Trail(s, name)[1] = UNION {Enter(s, at, name.parts[1]) : at \in Trail(s, name)[0]}
      <3>1. 1 \in 1..m /\ 1 - 1 = 0
        BY <1>1
      <3> QED
        BY <1>1, <3>1, TrailFacts
    <2>2. Enter(s, s.cwd, name.parts[1]) = {}
      BY <1>1 DEF Enter
    <2>3. Trail(s, name)[1] = {}
      BY <1>2, <2>1, <2>2
    <2> QED
      BY <1>3, <2>3
  <1>5. ASSUME NEW k \in Nat, k \in K PROVE k + 1 \in K
    <2>1. ASSUME k + 1 + 1 <= m PROVE Trail(s, name)[k + 1 + 1] = {}
      <3>1. k + 1 + 1 \in 1..m /\ (k + 1 + 1) - 1 = k + 1 /\ k + 1 <= m
        BY <1>1, <2>1
      <3>2. Trail(s, name)[k + 1] = {}
        BY <1>3, <1>5, <3>1
      <3>3. Trail(s, name)[k + 1 + 1] =
                UNION {Enter(s, at, name.parts[k + 1 + 1]) : at \in Trail(s, name)[k + 1]}
        BY <1>1, <3>1, TrailFacts
      <3> QED
        BY <3>2, <3>3
    <2> QED
      BY <1>3, <2>1
  <1>6. ASSUME NEW k \in 1..m PROVE Trail(s, name)[k] = {}
    <2>1. k - 1 \in Nat /\ (k - 1) + 1 = k /\ k <= m
      BY <1>1
    <2>2. k - 1 \in K
      BY <1>4, <1>5, <2>1, Induction
    <2> QED
      BY <1>3, <2>1, <2>2
  <1>7. ~Present(s, name)
    BY <1>1, <1>6 DEF Present, Led
  <1>8. ~MayChange(s, name)
    <2>1. CASE m - 1 \in 1..m
      BY <1>1, <1>6, <2>1 DEF MayChange, Led
    <2>2. CASE m - 1 = 0
      <3>1. Parent(s, name) = s.cwd
        BY <1>1, <1>2, <2>2 DEF Parent, Place
      <3> QED
        BY <1>1, <3>1 DEF MayChange
    <2>3. m - 1 \in 1..m \/ m - 1 = 0
      <3>1. \A x \in Nat : x # 0 => x - 1 \in 1..x \/ x - 1 = 0
        OBVIOUS
      <3> QED
        BY <1>1, <3>1
    <2> QED
      BY <2>1, <2>2, <2>3
  <1> QED
    BY <1>7, <1>8

\* A place that is there, and one where an entry is made or removed.
LEMMA PathFacts ==
    ASSUME NEW s, IsServer(s), NEW name, IsName(name), Present(s, name)
    PROVE  IsPlace(s, Path(s, name)) /\ Free(s, name)
  <1>1. Len(name.parts) \in 0..Len(name.parts)
    BY LenFacts DEF IsName
  <1> QED
    BY <1>1, PlaceFacts, FreeFacts DEF Present, Path

LEMMA EntryFacts ==
    ASSUME NEW s, IsServer(s), NEW name, IsName(name), MayChange(s, name),
           NEW p, p = Entry(s, name)
    PROVE  /\ p \in Seq(STRING) /\ p # <<>> /\ Front(p) # p /\ Free(s, name)
           /\ Front(p) \in DOMAIN s.fs /\ s.fs[Front(p)].kind = "dir"
  <1>1. PICK at, x : at = Parent(s, name) /\ x = Last(name.parts)
    OBVIOUS
  <1>2. Len(name.parts) \in Nat \ {0} /\ x \in STRING
    BY <1>1, LenFacts, EmptySeq DEF IsName, MayChange, Last
  <1>3. IsPlace(s, at)
    <2>1. Len(name.parts) - 1 \in 0..Len(name.parts)
      BY <1>2
    <2> QED
      BY <1>1, <2>1, PlaceFacts DEF MayChange, Parent
  <1>4. at.path \in DOMAIN s.fs /\ s.fs[at.path].kind = "dir"
    BY <1>1, <1>3 DEF IsPlace, MayChange, Searchable, NodeAt
  <1>5. at.path \in Seq(STRING)
    BY <1>4 DEF IsServer, IsFs
  <1>6. p = Append(at.path, x)
    BY <1>1 DEF Entry
  <1>7. p \in Seq(STRING) /\ p # <<>> /\ Front(p) = at.path /\ p # at.path
    BY <1>2, <1>5, <1>6, FrontFacts
  <1> QED
    BY <1>4, <1>7, FreeFacts

(***************************************************************************)
(* What the procedures do to the tree                                      *)
(***************************************************************************)
\* A node put where there was one of its kind, or below a directory.
LEMMA PutFacts ==
    ASSUME NEW s, IsServer(s), NEW p \in Seq(STRING), NEW n, IsNode(n),
           IF p \in DOMAIN s.fs THEN n.kind = s.fs[p].kind
           ELSE p # <<>> /\ Front(p) \in DOMAIN s.fs /\ s.fs[Front(p)].kind = "dir"
    PROVE  /\ IsServer(Put(s, p, n))
           /\ Put(s, p, n).fds = s.fds /\ Put(s, p, n).cwd = s.cwd
  <1>1. PICK f : f = [q \in DOMAIN s.fs \cup {p} |-> IF q = p THEN n ELSE s.fs[q]]
    OBVIOUS
  <1>2. Put(s, p, n) = [fs |-> f, cwd |-> s.cwd, fds |-> s.fds, rbuf |-> s.rbuf]
    BY <1>1 DEF Put, IsServer
  <1>3. DOMAIN f = DOMAIN s.fs \cup {p} /\ f = [q \in DOMAIN f |-> f[q]]
    BY <1>1
  <1>4. \A q \in DOMAIN f : q \in Seq(STRING) /\ IsNode(f[q])
    BY <1>1, <1>3 DEF IsServer, IsFs
  <1>5. \A q \in DOMAIN s.fs : f[q].kind = s.fs[q].kind
    BY <1>1
  <1>6. <<>> \in DOMAIN f /\ f[<<>>].kind = "dir"
    BY <1>3, <1>5 DEF IsServer, IsFs, IsTree
  <1>7. ASSUME NEW q \in DOMAIN f \ {<<>>}
        PROVE  Front(q) \in DOMAIN f /\ f[Front(q)].kind = "dir"
    <2>1. CASE q \in DOMAIN s.fs
      <3>1. Front(q) \in DOMAIN s.fs /\ s.fs[Front(q)].kind = "dir"
        BY <1>7, <2>1 DEF IsServer, IsFs, IsTree
      <3> QED
        BY <1>3, <1>5, <3>1
    <2>2. CASE q = p /\ p \notin DOMAIN s.fs
      BY <1>3, <1>5, <2>2
    <2> QED
      BY <1>3, <2>1, <2>2
  <1>8. IsFs(f)
    BY <1>3, <1>4, <1>6, <1>7 DEF IsFs, IsTree
  <1>9. /\ s.cwd = [path |-> s.cwd.path, gone |-> s.cwd.gone]
        /\ s.cwd.path \in DOMAIN f /\ f[s.cwd.path].kind = "dir" /\ s.fds \in 0 .. MaxFds
    BY <1>3, <1>5 DEF IsServer
  <1> QED
    BY <1>2, <1>8, <1>9 DEF IsServer

\* the node of a place, of the tree or removed, is changed
LEMMA ChangeFacts ==
    ASSUME NEW s, IsServer(s), NEW at, IsPlace(s, at), NEW n,
           at.gone = <<>> => IsNode(n) /\ n.kind = s.fs[at.path].kind,
           NEW u, u = Change(s, at, n)
    PROVE  IsServer(u) /\ u.fds = s.fds /\ (u.cwd.gone # <<>> => s.cwd.gone # <<>>)
  <1>1. CASE at.gone = <<>>
    <2>1. u = Put(s, at.path, n) /\ at.path \in DOMAIN s.fs /\ at.path \in Seq(STRING)
      BY <1>1 DEF Change, IsPlace, IsServer, IsFs
    <2>2. IsServer(u) /\ u.fds = s.fds /\ u.cwd = s.cwd
      BY <1>1, <2>1, PutFacts
    <2> QED
      BY <2>2
  <1>2. CASE at.gone # <<>>
    <2>1. PICK g : u = [s EXCEPT !.cwd = [path |-> s.cwd.path, gone |-> g]]
      BY <1>2 DEF Change
    <2>2. u = [fs |-> s.fs, cwd |-> [path |-> s.cwd.path, gone |-> g], fds |-> s.fds,
               rbuf |-> s.rbuf]
      BY <2>1 DEF IsServer
    <2>3. /\ IsFs(s.fs) /\ s.cwd.path \in DOMAIN s.fs /\ s.fs[s.cwd.path].kind = "dir"
          /\ s.fds \in 0 .. MaxFds
      BY DEF IsServer
    <2>4. IsServer(u) /\ u.fds = s.fds
      BY <2>2, <2>3 DEF IsServer
    <2> QED
      BY <1>2, <2>4 DEF IsPlace
  <1> QED
    BY <1>1, <1>2

\* a directory that is removed from under the process stays its current directory
LEMMA DroppedFacts ==
    ASSUME NEW s, IsServer(s), NEW p, p # <<>>, Front(p) # p, Entries(s, p) = {},
           Front(p) \in DOMAIN s.fs, s.fs[Front(p)].kind = "dir"
    PROVE  IsServer(Dropped(s, p)) /\ Dropped(s, p).fds = s.fds
  <1>1. PICK f : f = [q \in DOMAIN s.fs \ {p} |-> s.fs[q]]
    OBVIOUS
  <1>2. PICK cwd : cwd = IF s.cwd.path = p
                         THEN [path |-> Front(p), gone |-> Append(s.cwd.gone, s.fs[p])]
                         ELSE s.cwd
    OBVIOUS
  <1>9. Dropped(s, p) = [fs |-> f, cwd |-> cwd, fds |-> s.fds, rbuf |-> s.rbuf]
    <2>1. s = [fs |-> s.fs, cwd |-> s.cwd, fds |-> s.fds, rbuf |-> s.rbuf]
      BY DEF IsServer
    <2>2. Dropped(s, p) = [s EXCEPT !.fs = f, !.cwd = cwd]
      BY <1>1, <1>2 DEF Dropped
    <2> QED
      BY <2>1, <2>2
  <1>3. /\ DOMAIN f = DOMAIN s.fs \ {p} /\ f = [q \in DOMAIN f |-> f[q]]
        /\ \A q \in DOMAIN f : f[q] = s.fs[q]
    BY <1>1
  <1>4. \A q \in DOMAIN f : q \in Seq(STRING) /\ IsNode(f[q])
    BY <1>3 DEF IsServer, IsFs
  <1>5. <<>> \in DOMAIN f /\ f[<<>>].kind = "dir"
    BY <1>3 DEF IsServer, IsFs, IsTree
  <1>6. ASSUME NEW q \in DOMAIN f \ {<<>>}
        PROVE  Front(q) \in DOMAIN f /\ f[Front(q)].kind = "dir"
    <2>1. Front(q) \in DOMAIN s.fs /\ s.fs[Front(q)].kind = "dir"
      BY <1>3, <1>6 DEF IsServer, IsFs, IsTree
    <2>2. Front(q) # p
      BY <1>3, <1>6 DEF Entries
    <2> QED
      BY <1>3, <2>1, <2>2
  <1>7. IsFs(f)
    BY <1>3, <1>4, <1>5, <1>6 DEF IsFs, IsTree
  <1>8. /\ cwd = [path |-> cwd.path, gone |-> cwd.gone]
        /\ cwd.path \in DOMAIN f /\ f[cwd.path].kind = "dir" /\ s.fds \in 0 .. MaxFds
    <2>1. CASE s.cwd.path = p
      <3>1. cwd = [path |-> Front(p), gone |-> Append(s.cwd.gone, s.fs[p])]
        BY <1>2, <2>1
      <3> QED
        BY <1>3, <3>1 DEF IsServer
    <2>2. CASE s.cwd.path # p
      BY <1>2, <1>3, <2>2 DEF IsServer
    <2> QED
      BY <2>1, <2>2
  <1> QED
    BY <1>9, <1>7, <1>8 DEF IsServer

LEMMA RebootFacts ==
    ASSUME NEW s, IsServer(s)
    PROVE  /\ IsServer(NewProcess(s)) /\ NewProcess(s).fds = 0 /\ NewProcess(s).fs = s.fs
           /\ NewProcess(s).cwd.gone = <<>>
  <1>1. PICK b : b = [i \in 1 .. BufSize |-> Blank]
    OBVIOUS
  <1>2. NewProcess(s) = [fs |-> s.fs, cwd |-> [path |-> <<>>, gone |-> <<>>], fds |-> 0,
                         rbuf |-> b]
    <2>1. NewProcess(s) = [s EXCEPT !.cwd = [path |-> <<>>, gone |-> <<>>], !.fds = 0, !.rbuf = b]
      BY <1>1 DEF NewProcess, At
    <2>2. s = [fs |-> s.fs, cwd |-> s.cwd, fds |-> s.fds, rbuf |-> s.rbuf]
      BY DEF IsServer
    <2> QED
      BY <2>1, <2>2
  <1>3. IsFs(s.fs) /\ <<>> \in DOMAIN s.fs /\ s.fs[<<>>].kind = "dir"
    BY DEF IsServer, IsFs, IsTree
  <1>4. 0 \in 0 .. MaxFds
    BY FdsAssumption
  <1> QED
    BY <1>2, <1>3, <1>4 DEF IsServer


-----------------------------------------------------------------------------
(***************************************************************************)
(* The procedures                                                          *)
(***************************************************************************)

\* What a procedure may do: only ls and touch keep a descriptor, only without one it
\* crashes, only remove makes the current directory one without a name, and by a name that
\* begins in a directory that may not be searched nothing is changed.
Fine(s, word, name, t) ==
    /\ IsServer(t.server) /\ t.up \in BOOLEAN
    /\ t.server.fds # s.fds => word \in {"ls", "touch"}
    /\ ~t.up => t.server.fds = MaxFds
    /\ t.server.cwd.gone # <<>> => s.cwd.gone # <<>> \/ word = "remove"
    /\ ~Free(s, name) => t.server.fs = s.fs /\ t.server.cwd = s.cwd

LEMMA FailedFine ==
    ASSUME NEW s, IsServer(s), NEW word, NEW name
    PROVE  Fine(s, word, name, Failed(s, word))
  <1>1. PICK t : t = Failed(s, word)
    OBVIOUS
  <1>2. t.server = s /\ t.up = TRUE
    BY <1>1 DEF Failed, Answer
  <1>3. Fine(s, word, name, t)
    BY <1>2 DEF Fine
  <1> QED
    BY <1>1, <1>3

LEMMA CrashedFine ==
    ASSUME NEW s, IsServer(s), s.fds = MaxFds, NEW word, NEW name
    PROVE  Fine(s, word, name, Crashed(s))
  <1>1. PICK t : t = Crashed(s)
    OBVIOUS
  <1>2. t.server = s /\ t.up = FALSE
    BY <1>1 DEF Crashed
  <1>3. Fine(s, word, name, t)
    BY <1>2 DEF Fine
  <1> QED
    BY <1>1, <1>3

\* an answer that leaves the state, or changes what it may
LEMMA DoneFine ==
    ASSUME NEW s, IsServer(s), NEW word, NEW name, NEW v, NEW u, IsServer(u),
           u.fds # s.fds => word \in {"ls", "touch"},
           u.cwd.gone # <<>> => s.cwd.gone # <<>> \/ word = "remove",
           Free(s, name) \/ (u.fs = s.fs /\ u.cwd = s.cwd)
    PROVE  Fine(s, word, name, Done(u, word, v))
  <1>1. PICK t : t = Done(u, word, v)
    OBVIOUS
  <1>2. t.server = u /\ t.up = TRUE
    BY <1>1 DEF Done, Answer
  <1>3. Fine(s, word, name, t)
    BY <1>2 DEF Fine
  <1> QED
    BY <1>1, <1>3

\* another data, mode, descriptor, buffer or directory
LEMMA NodeFacts ==
    ASSUME NEW n, IsNode(n), NEW v, NEW k,
           k = [n EXCEPT !.data = v] \/ k = [n EXCEPT !.mode = v]
    PROVE  IsNode(k) /\ k.kind = n.kind
  <1>1. \/ k = [kind |-> n.kind, data |-> v, mode |-> n.mode]
        \/ k = [kind |-> n.kind, data |-> n.data, mode |-> v]
    BY DEF IsNode
  <1> QED
    BY <1>1 DEF IsNode

\* the node found is one of the tree, or removed
LEMMA FoundFacts ==
    ASSUME NEW s, IsServer(s), NEW name, IsPlace(s, Path(s, name))
    PROVE  Path(s, name).gone = <<>> =>
               IsNode(Node(s, name)) /\ Node(s, name).kind = s.fs[Path(s, name).path].kind
  BY DEF Node, NodeAt, IsPlace, IsServer, IsFs

LEMMA OpenedFacts ==
    ASSUME NEW s, IsServer(s), FdsLeft(s), NEW u, u = [s EXCEPT !.fds = @ + 1]
    PROVE  IsServer(u) /\ u.fs = s.fs /\ u.cwd = s.cwd
  <1>1. u = [fs |-> s.fs, cwd |-> s.cwd, fds |-> s.fds + 1, rbuf |-> s.rbuf]
    BY DEF IsServer
  <1>2. s.fds + 1 \in 0 .. MaxFds
    BY FdsAssumption DEF FdsLeft, IsServer
  <1>3. /\ IsFs(s.fs) /\ s.cwd.path \in DOMAIN s.fs /\ s.fs[s.cwd.path].kind = "dir"
        /\ s.cwd = [path |-> s.cwd.path, gone |-> s.cwd.gone]
    BY DEF IsServer
  <1> QED
    BY <1>1, <1>2, <1>3 DEF IsServer

LEMMA BufferFacts ==
    ASSUME NEW s, IsServer(s), NEW b, NEW u, u = [s EXCEPT !.rbuf = b]
    PROVE  IsServer(u) /\ u.fs = s.fs /\ u.cwd = s.cwd /\ u.fds = s.fds
  <1>1. u = [fs |-> s.fs, cwd |-> s.cwd, fds |-> s.fds, rbuf |-> b]
    BY DEF IsServer
  <1>2. /\ IsFs(s.fs) /\ s.cwd.path \in DOMAIN s.fs /\ s.fs[s.cwd.path].kind = "dir"
        /\ s.cwd = [path |-> s.cwd.path, gone |-> s.cwd.gone] /\ s.fds \in 0 .. MaxFds
    BY DEF IsServer
  <1> QED
    BY <1>1, <1>2 DEF IsServer

LEMMA MovedFacts ==
    ASSUME NEW s, IsServer(s), NEW at, IsPlace(s, at), NodeAt(s, at).kind = "dir",
           NEW u, u = [s EXCEPT !.cwd = at]
    PROVE  IsServer(u) /\ u.fds = s.fds /\ (u.cwd.gone # <<>> => s.cwd.gone # <<>>)
  <1>1. u = [fs |-> s.fs, cwd |-> at, fds |-> s.fds, rbuf |-> s.rbuf]
    BY DEF IsServer
  <1>2. IsFs(s.fs) /\ s.fds \in 0 .. MaxFds
    BY DEF IsServer
  <1>3. /\ at = [path |-> at.path, gone |-> at.gone] /\ at.path \in DOMAIN s.fs
        /\ s.fs[at.path].kind = "dir" /\ (at.gone # <<>> => s.cwd.gone # <<>>)
    BY DEF IsPlace, NodeAt
  <1> QED
    BY <1>1, <1>2, <1>3 DEF IsServer

\* a node is made where there is none
LEMMA MadeFacts ==
    ASSUME NEW s, IsServer(s), NEW p, p \in Seq(STRING), p # <<>>, p \notin DOMAIN s.fs,
           Front(p) \in DOMAIN s.fs, s.fs[Front(p)].kind = "dir",
           NEW k \in {"dir", "file"}, NEW m, NEW u,
           u = Put(s, p, [kind |-> k, data |-> <<>>, mode |-> m])
    PROVE  IsServer(u) /\ u.fds = s.fds /\ u.cwd = s.cwd
  <1>1. PICK n : n = [kind |-> k, data |-> <<>>, mode |-> m]
    OBVIOUS
  <1>2. IsNode(n)
    BY <1>1 DEF IsNode
  <1>3. u = Put(s, p, n)
    BY <1>1
  <1> QED
    BY <1>2, <1>3, PutFacts


LEMMA ReadingFine ==
    ASSUME NEW s, IsServer(s), NEW args, IsName(args[1])
    PROVE  /\ Fine(s, "ls", args[1], nfs_ls(s, args))
           /\ Fine(s, "read", args[1], nfs_read(s, args))
           /\ Fine(s, "getattr", args[1], getattr(s, args))
  <1>1. Fine(s, "ls", args[1], nfs_ls(s, args))
    <2>1. CASE ~access(s, args[1], R) \/ Node(s, args[1]).kind # "dir"
      BY <2>1, FailedFine DEF nfs_ls
    <2>2. CASE access(s, args[1], R) /\ Node(s, args[1]).kind = "dir" /\ ~FdsLeft(s)
      <3>1. nfs_ls(s, args) = Crashed(s)
        BY <2>2 DEF nfs_ls
      <3>2. s.fds = MaxFds
        BY <2>2, FdsAssumption DEF FdsLeft, IsServer
      <3> QED
        BY <3>1, <3>2, CrashedFine
    <2>3. CASE access(s, args[1], R) /\ Node(s, args[1]).kind = "dir" /\ FdsLeft(s)
      <3>1. PICK u : u = [s EXCEPT !.fds = @ + 1]
        OBVIOUS
      <3>2. PICK v : nfs_ls(s, args) = Done(u, "ls", v)
        BY <2>3, <3>1 DEF nfs_ls
      <3>3. IsServer(u) /\ u.fs = s.fs /\ u.cwd = s.cwd
        BY <2>3, <3>1, OpenedFacts
      <3> QED
        BY <3>2, <3>3, DoneFine
    <2> QED
      BY <2>1, <2>2, <2>3
  <1>2. Fine(s, "read", args[1], nfs_read(s, args))
    <2>1. CASE ~access(s, args[1], R) \/ Node(s, args[1]).kind # "file" \/ ~FdsLeft(s)
      BY <2>1, DoneFine DEF nfs_read
    <2>2. CASE ~(~access(s, args[1], R) \/ Node(s, args[1]).kind # "file" \/ ~FdsLeft(s))
      <3>1. PICK b, v, u : /\ u = [s EXCEPT !.rbuf = b]
                           /\ nfs_read(s, args) = Done(u, "read", v)
        BY <2>2 DEF nfs_read
      <3>2. IsServer(u) /\ u.fs = s.fs /\ u.cwd = s.cwd /\ u.fds = s.fds
        BY <3>1, BufferFacts
      <3> QED
        BY <3>1, <3>2, DoneFine
    <2> QED
      BY <2>1, <2>2
  <1>3. Fine(s, "getattr", args[1], getattr(s, args))
    <2>1. CASE ~Present(s, args[1])
      BY <2>1, FailedFine DEF getattr
    <2>2. CASE Present(s, args[1])
      BY <2>2, DoneFine DEF getattr
    <2> QED
      BY <2>1, <2>2
  <1> QED
    BY <1>1, <1>2, <1>3

LEMMA ChangingFine ==
    ASSUME NEW s, IsServer(s), NEW args, IsName(args[1])
    PROVE  /\ Fine(s, "write", args[1], nfs_write(s, args))
           /\ Fine(s, "cd", args[1], nfs_cd(s, args))
           /\ Fine(s, "setattr", args[1], setattr(s, args))
  <1>0. PICK name, at, node : /\ name = args[1] /\ IsName(name)
                              /\ at = Path(s, name) /\ node = Node(s, name)
    OBVIOUS
  <1>4. ASSUME Present(s, name)
        PROVE  /\ IsPlace(s, at) /\ Free(s, name)
               /\ at.gone = <<>> => IsNode(node) /\ node.kind = s.fs[at.path].kind
    BY <1>0, <1>4, PathFacts, FoundFacts
  <1>1. Fine(s, "write", name, nfs_write(s, args))
    <2>1. CASE ~access(s, name, W) \/ Node(s, name).kind # "file" \/ ~FdsLeft(s)
      BY <1>0, <2>1, FailedFine DEF nfs_write
    <2>2. CASE ~(~access(s, name, W) \/ Node(s, name).kind # "file" \/ ~FdsLeft(s))
      <3>1. PICK n, v, u : /\ n = [node EXCEPT !.data = v]
                           /\ u = Change(s, at, n)
                           /\ nfs_write(s, args) = Done(u, "write", args[4])
        BY <1>0, <2>2 DEF nfs_write
      <3>2. Present(s, name)
        BY <2>2 DEF access
      <3>3. at.gone = <<>> => IsNode(n) /\ n.kind = s.fs[at.path].kind
        BY <1>4, <3>1, <3>2, NodeFacts
      <3>4. IsServer(u) /\ u.fds = s.fds /\ (u.cwd.gone # <<>> => s.cwd.gone # <<>>)
        <4>1. IsPlace(s, at) /\ u = Change(s, at, n)
          BY <1>4, <3>1, <3>2
        <4> QED
          BY <3>3, <4>1, ChangeFacts
      <3> QED
        BY <1>4, <3>1, <3>2, <3>4, DoneFine
    <2> QED
      BY <2>1, <2>2
  <1>2. Fine(s, "cd", name, nfs_cd(s, args))
    <2>1. CASE access(s, name, X) /\ Node(s, name).kind = "dir"
      <3>1. PICK u : u = [s EXCEPT !.cwd = at] /\ nfs_cd(s, args) = Done(u, "cd", 0)
        BY <1>0, <2>1 DEF nfs_cd
      <3>2. Present(s, name) /\ NodeAt(s, at).kind = "dir"
        BY <1>0, <2>1 DEF access, Node
      <3>3. IsServer(u) /\ u.fds = s.fds /\ (u.cwd.gone # <<>> => s.cwd.gone # <<>>)
        BY <1>4, <3>1, <3>2, MovedFacts
      <3> QED
        BY <1>4, <3>1, <3>2, <3>3, DoneFine
    <2>2. CASE ~(access(s, name, X) /\ Node(s, name).kind = "dir")
      BY <1>0, <2>2, FailedFine DEF nfs_cd
    <2> QED
      BY <2>1, <2>2
  <1>3. Fine(s, "setattr", name, setattr(s, args))
    <2>1. CASE ~Present(s, name)
      BY <1>0, <2>1, FailedFine DEF setattr
    <2>2. CASE Present(s, name)
      <3>1. PICK n, m, u : /\ n = [node EXCEPT !.mode = m]
                           /\ u = Change(s, at, n)
                           /\ setattr(s, args) = Done(u, "setattr", 0)
        BY <1>0, <2>2 DEF setattr
      <3>2. at.gone = <<>> => IsNode(n) /\ n.kind = s.fs[at.path].kind
        BY <1>4, <2>2, <3>1, NodeFacts
      <3>3. IsServer(u) /\ u.fds = s.fds /\ (u.cwd.gone # <<>> => s.cwd.gone # <<>>)
        <4>1. IsPlace(s, at) /\ u = Change(s, at, n)
          BY <1>4, <2>2, <3>1
        <4> QED
          BY <3>2, <4>1, ChangeFacts
      <3> QED
        BY <1>4, <2>2, <3>1, <3>3, DoneFine
    <2> QED
      BY <2>1, <2>2
  <1> QED
    BY <1>0, <1>1, <1>2, <1>3

LEMMA MakingFine ==
    ASSUME NEW s, IsServer(s), NEW args, IsName(args[1])
    PROVE  /\ Fine(s, "remove", args[1], nfs_remove(s, args))
           /\ Fine(s, "mkdir", args[1], nfs_mkdir(s, args))
           /\ Fine(s, "touch", args[1], nfs_touch(s, args))
  <1>0. PICK name, p : name = args[1] /\ IsName(name) /\ p = Entry(s, name)
    OBVIOUS
  <1>4. ASSUME MayChange(s, name)
        PROVE  /\ p \in Seq(STRING) /\ p # <<>> /\ Front(p) # p /\ Free(s, name)
               /\ Front(p) \in DOMAIN s.fs /\ s.fs[Front(p)].kind = "dir"
    BY <1>0, <1>4, EntryFacts
  <1>1. Fine(s, "remove", name, nfs_remove(s, args))
    <2>1. CASE ~MayChange(s, name) \/ p \notin DOMAIN s.fs \/ Entries(s, p) # {}
      BY <1>0, <2>1, FailedFine DEF nfs_remove
    <2>2. CASE ~(~MayChange(s, name) \/ p \notin DOMAIN s.fs \/ Entries(s, p) # {})
      <3>1. PICK u : u = Dropped(s, p) /\ nfs_remove(s, args) = Done(u, "remove", 0)
        BY <1>0, <2>2 DEF nfs_remove
      <3>2. IsServer(u) /\ u.fds = s.fds
        BY <1>4, <2>2, <3>1, DroppedFacts
      <3> QED
        BY <1>4, <2>2, <3>1, <3>2, DoneFine
    <2> QED
      BY <2>1, <2>2
  <1>2. Fine(s, "mkdir", name, nfs_mkdir(s, args))
    <2>1. CASE ~MayChange(s, name) \/ p \in DOMAIN s.fs
      BY <1>0, <2>1, FailedFine DEF nfs_mkdir
    <2>2. CASE MayChange(s, name) /\ p \notin DOMAIN s.fs
      <3>1. PICK m, u : /\ u = Put(s, p, [kind |-> "dir", data |-> <<>>, mode |-> m])
                        /\ nfs_mkdir(s, args) = Done(u, "mkdir", 0)
        BY <1>0, <2>2 DEF nfs_mkdir
      <3>2. IsServer(u) /\ u.fds = s.fds /\ u.cwd = s.cwd
        BY <1>4, <2>2, <3>1, MadeFacts
      <3> QED
        BY <1>4, <2>2, <3>1, <3>2, DoneFine
    <2> QED
      BY <2>1, <2>2
  <1>3. Fine(s, "touch", name, nfs_touch(s, args))
    <2>0. PICK o : o = [s EXCEPT !.fds = @ + 1]
      OBVIOUS
    <2>4. ASSUME FdsLeft(s) PROVE IsServer(o) /\ o.fs = s.fs /\ o.cwd = s.cwd
      BY <2>0, <2>4, OpenedFacts
    <2>1. CASE FdsLeft(s) /\ MayChange(s, name) /\ p \notin DOMAIN s.fs
      <3>1. PICK m, u : /\ u = Put(o, p, [kind |-> "file", data |-> <<>>, mode |-> m])
                        /\ nfs_touch(s, args) = Done(u, "touch", 0)
        BY <1>0, <2>0, <2>1 DEF nfs_touch
      <3>2. IsServer(u) /\ u.cwd = s.cwd
        BY <1>4, <2>1, <2>4, <3>1, MadeFacts
      <3> QED
        BY <1>4, <2>1, <3>1, <3>2, DoneFine
    <2>2. CASE /\ ~(FdsLeft(s) /\ MayChange(s, name) /\ p \notin DOMAIN s.fs)
               /\ FdsLeft(s) /\ access(s, name, W) /\ Node(s, name).kind = "file"
      <3>0. PICK at, node : at = Path(s, name) /\ node = Node(s, name)
        OBVIOUS
      <3>1. PICK n, u : /\ n = [node EXCEPT !.data = <<>>]
                        /\ u = Change(o, at, n)
                        /\ nfs_touch(s, args) = Done(u, "touch", 0)
        BY <1>0, <2>0, <2>2, <3>0 DEF nfs_touch
      <3>2. /\ IsPlace(s, at) /\ Free(s, name)
            /\ at.gone = <<>> => IsNode(node) /\ node.kind = s.fs[at.path].kind
        BY <1>0, <2>2, <3>0, PathFacts, FoundFacts DEF access
      <3>3. at.gone = <<>> => IsNode(n) /\ n.kind = o.fs[at.path].kind
        BY <2>2, <2>4, <3>1, <3>2, NodeFacts
      <3>4. IsPlace(o, at)
        BY <2>2, <2>4, <3>2 DEF IsPlace
      <3>5. IsServer(u) /\ (u.cwd.gone # <<>> => s.cwd.gone # <<>>)
        <4>1. IsServer(o) /\ o.cwd = s.cwd /\ u = Change(o, at, n)
          BY <2>2, <2>4, <3>1
        <4> QED
          BY <3>3, <3>4, <4>1, ChangeFacts
      <3> QED
        BY <3>1, <3>2, <3>5, DoneFine
    <2>3. CASE /\ ~(FdsLeft(s) /\ MayChange(s, name) /\ p \notin DOMAIN s.fs)
               /\ ~(FdsLeft(s) /\ access(s, name, W) /\ Node(s, name).kind = "file")
      BY <1>0, <2>3, FailedFine DEF nfs_touch
    <2> QED
      BY <2>1, <2>2, <2>3
  <1> QED
    BY <1>0, <1>1, <1>2, <1>3

LEMMA ProcedureFine ==
    ASSUME NEW s, IsServer(s), NEW l \in Legal("nfs")
    PROVE  /\ Fine(s, l.word, l.args[1], nfs_remote_1(s, l))
           /\ ServeAny(s, l) = nfs_remote_1(s, l)
  <1>1. /\ l \in NfsLines /\ IsName(l.args[1])
        /\ l.word \in {"ls", "read", "write", "cd", "getattr", "setattr", "remove",
                       "mkdir", "touch"}
    BY LinesAssumption DEF Legal, LineKind, getCommandType, IsName
  <1>2. ServeAny(s, l) = nfs_remote_1(s, l)
    BY <1>1, LinesAssumption DEF ServeAny
  <1>3. /\ l.word = "ls" => nfs_remote_1(s, l) = nfs_ls(s, l.args)
        /\ l.word = "read" => nfs_remote_1(s, l) = nfs_read(s, l.args)
        /\ l.word = "write" => nfs_remote_1(s, l) = nfs_write(s, l.args)
        /\ l.word = "cd" => nfs_remote_1(s, l) = nfs_cd(s, l.args)
        /\ l.word = "getattr" => nfs_remote_1(s, l) = getattr(s, l.args)
        /\ l.word = "setattr" => nfs_remote_1(s, l) = setattr(s, l.args)
        /\ l.word = "remove" => nfs_remote_1(s, l) = nfs_remove(s, l.args)
        /\ l.word = "mkdir" => nfs_remote_1(s, l) = nfs_mkdir(s, l.args)
        /\ l.word = "touch" => nfs_remote_1(s, l) = nfs_touch(s, l.args)
    BY <1>1 DEF nfs_remote_1
  <1> QED
    BY <1>1, <1>2, <1>3, ReadingFine, ChangingFine, MakingFine


-----------------------------------------------------------------------------
(***************************************************************************)
(* Ftp and the inductive invariant                                         *)
(***************************************************************************)

\* The data connection is tried once, and without it nothing is sent.
FtpInv ==
    /\ ft_server = "connect" => mode = "active"
    /\ ft_client \in {"connect", "unconnected"} => mode = "passive"
    /\ linked =>
        /\ mode = "active" => ft_server \notin {"off", "accept", "connect", "unconnected"}
        /\ mode = "passive" =>
            ft_client \notin {"off", "connected", "connect", "unconnected", "ended"}
    /\ ft_server = "send" \/ ft_client = "read" => linked
    /\ got # <<>> => ft_client \in {"read", "unconnected", "left"}
    /\ ~linked => data = <<>> /\ got \in Seq({Blank})

Inv == RpcInv /\ DataInv /\ OnlyListAndTouchLeak /\ TreeKept /\ FtpInv

LEMMA InitInv == Init => Inv
  <1> SUFFICES ASSUME Init PROVE Inv
    OBVIOUS
  <1>1. RpcInv
    BY InitCalls
  <1>2. IsServer(Files) /\ Files.fds = 0 /\ Files.cwd.gone = <<>>
    <2>1. PICK b : b = [i \in 1 .. BufSize |-> Blank]
      OBVIOUS
    <2>2. Files = [fs |-> Tree, cwd |-> [path |-> <<>>, gone |-> <<>>], fds |-> 0, rbuf |-> b]
      <3>1. PICK f : f = [fs |-> Tree, cwd |-> [path |-> <<>>, gone |-> <<>>], fds |-> 0,
                          rbuf |-> <<>>]
        OBVIOUS
      <3>2. Files = [f EXCEPT !.cwd = [path |-> <<>>, gone |-> <<>>], !.fds = 0, !.rbuf = b]
        BY <2>1, <3>1 DEF Files, NewProcess, At
      <3> QED
        BY <3>1, <3>2
    <2>3. IsFs(Tree) /\ <<>> \in DOMAIN Tree /\ Tree[<<>>].kind = "dir"
      BY TreeAssumption DEF IsFs, IsTree, IsNode
    <2> QED
      BY <2>2, <2>3, FdsAssumption DEF IsServer
  <1>3. ASSUME service = "nfs", N!Init PROVE DataInv
    BY <1>2, <1>3 DEF N!Init, DataInv
  <1>4. ASSUME service \in {"sums", "ftp"}, S!Init PROVE DataInv
    BY <1>4 DEF S!Init, NoResult, DataInv
  <1>5. DataInv
    BY <1>3, <1>4 DEF Init
  <1>6. OnlyListAndTouchLeak /\ TreeKept
    <2>1. service = "nfs" => server = Files /\ gen = 0
      BY DEF Init, N!Init
    <2>2. /\ IsTree(Files.fs) /\ Files.cwd.path \in DOMAIN Files.fs
          /\ Files.fs[Files.cwd.path].kind = "dir" /\ Files.fds = 0 /\ Files.cwd.gone = <<>>
      BY <1>2 DEF IsServer, IsFs
    <2> QED
      BY <2>1, <2>2 DEF OnlyListAndTouchLeak, TreeKept
  <1>7. FtpInv
    <2>1. <<>> \in Seq({Blank})
      OBVIOUS
    <2> QED
      BY <2>1 DEF Init, IdleFtp, T!Init, FtpInv
  <1> QED
    BY <1>1, <1>5, <1>6, <1>7 DEF Inv

\* What is asked of a server is what its clients can ask.
LEMMA LegalRequests ==
    ASSUME RpcInv, NEW r \in requests
    PROVE  r.line \in Legal(service)
  <1>1. PICK V : Values(V)
    BY DEF RpcInv
  <1>2. /\ r.from \in Clients /\ r.call \in 1..Len(asked[r.from])
        /\ r.line = asked[r.from][r.call]
    BY DEF RpcInv, DatagramsInv
  <1>3. asked[r.from] \in Seq(Legal(service))
    BY <1>1, <1>2 DEF Values
  <1> QED
    BY <1>2, <1>3, LenFacts

\* The programs' steps are steps as above.
LEMMA NfsStep ==
    ASSUME RpcInv, DataInv, Nfs
    PROVE  RpcStep
  <1>1. service = "nfs" /\ service' = service /\ N!Next /\ state \in [Clients -> States]
    BY DEF Nfs, InNfs, RpcInv, Values, States
  <1>2. CASE N!Register
    <2>1. BootAny(server) = NewProcess(server)
      BY <1>1 DEF DataInv, IsServer, BootAny
    <2> QED
      BY <1>1, <1>2, <2>1 DEF N!Register, Rests, RpcStep
  <1>3. ASSUME NEW r \in requests, N!Dispatch(r) PROVE RpcStep
    <2>1. r.line \in Legal("nfs") /\ IsServer(server)
      BY <1>1, LegalRequests DEF DataInv
    <2>2. ServeAny(server, r.line) = nfs_remote_1(server, r.line)
      BY <2>1, ProcedureFine
    <2> QED
      BY <1>1, <1>3, <2>2 DEF N!Dispatch, Runs, RpcStep
  <1>4. ASSUME NEW c \in Clients, N!clnt_create(c) \/ \E l \in NfsLines : N!Exit(c, l)
        PROVE  RpcStep
    <2>1. /\ UNCHANGED <<server, gen, up, asked, sent, log, requests, replies, runs>>
          /\ state[c] = "ready"
          /\ state' = state \/ state' = [state EXCEPT ![c] = "ended"]
          /\ bound' = bound \/ (gen # 0 /\ bound' = [bound EXCEPT ![c] = gen])
      BY <1>4 DEF N!clnt_create, N!Exit, N!conn
    <2> QED
      BY <1>1, <2>1 DEF Rests, States, RpcStep
  <1>5. ASSUME NEW c \in Clients, NEW l \in NfsLines, N!Call(c, l) PROVE RpcStep
    <2>1. l \in Legal(service)
      BY <1>1, <1>5 DEF N!Call, Legal
    <2>2. PICK q : q = N!Request(c, l, Len(asked[c]) + 1, 1)
      OBVIOUS
    <2>3. Sends(c, l, Len(asked[c]) + 1, q)
      BY <2>2 DEF N!Request, Sends
    <2>4. Calls(c, l)
      BY <1>1, <1>5, <2>2, <2>3 DEF N!Call, N!conn, Calls
    <2> QED
      BY <2>1, <2>4 DEF RpcStep
  <1>6. ASSUME NEW c \in Clients, N!Retransmit(c) PROVE RpcStep
    <2>1. PICK n : n = Len(asked[c])
      OBVIOUS
    <2>2. PICK q : q = N!Request(c, asked[c][n], n, sent[c][n] + 1)
      OBVIOUS
    <2>3. Sends(c, asked[c][n], n, q)
      BY <2>2 DEF N!Request, Sends
    <2>4. Resends(c)
      BY <1>1, <1>6, <2>1, <2>2, <2>3 DEF N!Retransmit, N!LastCall, N!conn, Resends
    <2> QED
      BY <2>4 DEF RpcStep
  <1>7. ASSUME NEW c \in Clients, N!Answered(c) \/ N!CallFails(c) PROVE RpcStep
    <2>1. PICK x : state[c] = "calling" /\ N!Return(c, x) /\ OwnAnswer(c, x) /\ replies' \subseteq replies
      BY <1>7 DEF N!Answered, N!CallFails, N!Matches, N!LastCall, OwnAnswer
    <2>2. Returns(c, x)
      BY <1>1, <2>1 DEF N!Return, N!conn, Returns, States
    <2> QED
      BY <2>1, <2>2 DEF RpcStep
  <1> QED
    BY <1>1, <1>2, <1>3, <1>4, <1>5, <1>6, <1>7 DEF N!Next, N!ClientStep, N!Poll


LEMMA SumsServe ==
    ASSUME NEW s, NEW l \in SumLines
    PROVE  /\ ServeAny(s, l) = sums_1(s, l)
           /\ DOMAIN sums_1(s, l).server = DOMAIN s
  <1>1. ServeAny(s, l) = sums_1(s, l)
    BY DEF ServeAny
  <1>2. PICK word, v : sums_1(s, l) = Result(word, v, s)
    BY LinesAssumption DEF sums_1, arraysum, add, square
  <1>3. Result(word, v, s).server = [s EXCEPT ![word] = v]
    BY DEF Result
  <1>4. DOMAIN [s EXCEPT ![word] = v] = DOMAIN s
    OBVIOUS
  <1> QED
    BY <1>1, <1>2, <1>3, <1>4

LEMMA SumsStep ==
    ASSUME RpcInv, DataInv, Sums
    PROVE  RpcStep
  <1>1. service = "sums" /\ service' = service /\ S!Next /\ state \in [Clients -> States]
    BY DEF Sums, InSums, RpcInv, Values, States
  <1>2. CASE S!Register
    <2>1. BootAny(server) = NoResults(server)
      BY <1>1 DEF DataInv, BootAny, NoResults
    <2> QED
      BY <1>1, <1>2, <2>1 DEF S!Register, Rests, RpcStep
  <1>3. ASSUME NEW r \in requests, S!Dispatch(r) PROVE RpcStep
    <2>1. r.line \in SumLines
      BY <1>1, LegalRequests DEF Legal
    <2>2. ServeAny(server, r.line) = sums_1(server, r.line)
      BY <2>1, SumsServe
    <2> QED
      BY <1>1, <1>3, <2>2 DEF S!Dispatch, Runs, RpcStep
  <1>4. ASSUME NEW c \in Clients, S!clnt_create(c) \/ \E l \in SumLines : S!Exit(c, l)
        PROVE  RpcStep
    <2>1. /\ UNCHANGED <<server, gen, up, asked, sent, log, requests, replies, runs>>
          /\ state[c] = "ready"
          /\ state' = state \/ state' = [state EXCEPT ![c] = "ended"]
          /\ bound' = bound \/ (gen # 0 /\ bound' = [bound EXCEPT ![c] = gen])
      BY <1>4 DEF S!clnt_create, S!Exit, S!conn
    <2> QED
      BY <1>1, <2>1 DEF Rests, States, RpcStep
  <1>5. ASSUME NEW c \in Clients, NEW l \in SumLines, S!Call(c, l) PROVE RpcStep
    <2>1. l \in Legal(service)
      BY <1>1 DEF Legal
    <2>2. PICK q : q = S!Request(c, l, Len(asked[c]) + 1, 1)
      OBVIOUS
    <2>3. Sends(c, l, Len(asked[c]) + 1, q)
      BY <2>2 DEF S!Request, Sends
    <2>4. Calls(c, l)
      BY <1>1, <1>5, <2>2, <2>3 DEF S!Call, S!conn, Calls
    <2> QED
      BY <2>1, <2>4 DEF RpcStep
  <1>6. ASSUME NEW c \in Clients, S!Retransmit(c) PROVE RpcStep
    <2>1. PICK n : n = Len(asked[c])
      OBVIOUS
    <2>2. PICK q : q = S!Request(c, asked[c][n], n, sent[c][n] + 1)
      OBVIOUS
    <2>3. Sends(c, asked[c][n], n, q)
      BY <2>2 DEF S!Request, Sends
    <2>4. Resends(c)
      BY <1>1, <1>6, <2>1, <2>2, <2>3 DEF S!Retransmit, S!LastCall, S!conn, Resends
    <2> QED
      BY <2>4 DEF RpcStep
  <1>7. ASSUME NEW c \in Clients, S!Answered(c) \/ S!CallFails(c) PROVE RpcStep
    <2>1. PICK x : state[c] = "calling" /\ S!Return(c, x) /\ OwnAnswer(c, x) /\ replies' \subseteq replies
      BY <1>7 DEF S!Answered, S!CallFails, S!Matches, S!LastCall, OwnAnswer
    <2>2. Returns(c, x)
      <3>1. PICK w : w \in States \ {"calling"} /\ state' = [state EXCEPT ![c] = w]
        <4>1. (IF x = Null THEN "crashed" ELSE "ended") \in States \ {"calling"}
          BY DEF States
        <4> QED
          BY <2>1, <4>1 DEF S!Return
      <3> QED
        BY <1>1, <2>1, <3>1 DEF S!Return, S!conn, Returns
    <2> QED
      BY <2>1, <2>2 DEF RpcStep
  <1> QED
    BY <1>1, <1>2, <1>3, <1>4, <1>5, <1>6, <1>7 DEF S!Next, S!ClientStep, S!Poll

\* What a step of the file server does to its data.
NfsData ==
    \/ UNCHANGED <<server, gen, up>>
    \/ server' = NewProcess(server) /\ up' = TRUE /\ gen' = gen + 1
    \/ \E r \in requests :
        /\ Runs(r) /\ r.line \in Legal("nfs") /\ gen' = gen
        /\ server' = nfs_remote_1(server, r.line).server
        /\ up' = nfs_remote_1(server, r.line).up

LEMMA NfsDataStep ==
    ASSUME RpcInv, DataInv, Nfs
    PROVE  NfsData
  <1>1. service = "nfs" /\ service' = service /\ N!Next
    BY DEF Nfs, InNfs
  <1>2. CASE N!Register
    BY <1>2 DEF N!Register, NfsData
  <1>3. ASSUME NEW r \in requests, N!Dispatch(r) PROVE NfsData
    <2>1. r.line \in Legal("nfs") /\ IsServer(server)
      BY <1>1, LegalRequests DEF DataInv
    <2>2. ServeAny(server, r.line) = nfs_remote_1(server, r.line)
      BY <2>1, ProcedureFine
    <2>3. Runs(r)
      BY <1>1, <1>3, <2>2 DEF N!Dispatch, Runs
    <2> QED
      BY <1>3, <2>1, <2>3 DEF N!Dispatch, NfsData
  <1>4. ASSUME NEW c \in Clients, N!ClientStep(c) PROVE UNCHANGED <<server, gen, up>>
    BY <1>4 DEF N!ClientStep, N!clnt_create, N!Poll, N!Retransmit, N!Answered, N!CallFails,
                N!Return, N!Call, N!Exit, N!conn
  <1> QED
    BY <1>1, <1>2, <1>3, <1>4 DEF N!Next, NfsData


\* What was executed stays executed.
Executed(c, n) == n \in DOMAIN asked[c] /\ runs[c][n] # <<>>

LEMMA RunsFacts ==
    ASSUME RpcInv, NEW r \in requests, Runs(r)
    PROVE  /\ r.from \in Clients /\ Executed(r.from, r.call)'
           /\ asked'[r.from][r.call] = r.line
           /\ \A c \in Clients : \A n : Executed(c, n) => Executed(c, n)'
  <1>0. PICK d, m, x : d = r.from /\ m = r.call /\ x = ServeAny(server, r.line).res
    OBVIOUS
  <1>1. PICK A : Values(A)
    BY DEF RpcInv
  <1>2. PICK V : V = A \union {x}
    OBVIOUS
  <1>3. Values(V) /\ x \in V
    BY <1>1, <1>2, MoreValues
  <1>4. /\ d \in Clients /\ m \in 1..Len(asked[d]) /\ m \in 1..Len(runs[d])
        /\ r.line = asked[d][m] /\ asked' = asked
        /\ runs' = [runs EXCEPT ![d][m] = Append(runs[d][m], x)]
    BY <1>0 DEF RpcInv, CallsInv, DatagramsInv, Runs
  <1>5. asked[d] \in Seq(Legal(service)) /\ DOMAIN asked[d] = 1..Len(asked[d])
    BY <1>3, <1>4, LenFacts DEF Values
  <1>6. runs[d] \in Seq(Seq(V)) /\ runs[d][m] \in Seq(V) /\ DOMAIN runs[d] = 1..Len(runs[d])
    BY <1>3, <1>4, LenFacts DEF Values
  <1>7. PICK z : z = Append(runs[d][m], x) /\ z # <<>>
    <2>1. PICK b : b = runs[d][m]
      OBVIOUS
    <2>2. b \in Seq(V) /\ x \in V
      BY <1>3, <1>6, <2>1
    <2>3. Append(b, x) # <<>>
      BY <2>2, AppendProperties
    <2> QED
      BY <2>1, <2>3
  <1>8. runs'[d][m] = z /\ \A c \in Clients : \A n : c # d \/ n # m => runs'[c][n] = runs[c][n]
    <2>1. PICK q : q = [runs[d] EXCEPT ![m] = z]
      OBVIOUS
    <2>2. q[m] = z /\ \A n : n # m => q[n] = runs[d][n]
      <3>1. runs[d] = [n \in 1..Len(runs[d]) |-> runs[d][n]]
        BY <1>6
      <3> QED
        BY <1>4, <1>6, <2>1, <3>1
    <2>3. runs' = [runs EXCEPT ![d] = q]
      BY <1>4, <1>7, <2>1
    <2>4. runs \in [Clients -> Seq(Seq(V))]
      BY <1>3 DEF Values
    <2> QED
      BY <1>4, <2>2, <2>3, <2>4
  <1>9. ASSUME NEW c \in Clients, NEW n, Executed(c, n) PROVE Executed(c, n)'
    BY <1>4, <1>7, <1>8, <1>9 DEF Executed
  <1>10. Executed(d, m)'
    BY <1>4, <1>5, <1>7, <1>8 DEF Executed
  <1> QED
    BY <1>0, <1>4, <1>9, <1>10

LEMMA RanStays ==
    ASSUME RpcInv, RpcStep, NEW words, Ran(words)
    PROVE  Ran(words)'
  <1>0. PICK c \in Clients : \E n \in DOMAIN asked[c] :
            asked[c][n].word \in words /\ runs[c][n] # <<>>
    BY DEF Ran
  <1>1. PICK n \in DOMAIN asked[c] : asked[c][n].word \in words /\ runs[c][n] # <<>>
    BY <1>0
  <1>2. ASSUME UNCHANGED <<asked, runs>> PROVE Ran(words)'
    BY <1>2 DEF Ran
  <1>3. CASE Rests
    BY <1>2, <1>3 DEF Rests
  <1>4. ASSUME NEW r \in requests, Runs(r) PROVE Ran(words)'
    <2>1. Executed(c, n)' /\ asked' = asked
      BY <1>1, <1>4, RunsFacts DEF Executed, Runs
    <2> QED
      BY <1>1, <2>1 DEF Ran, Executed
  <1>5. ASSUME NEW d \in Clients, NEW l \in Legal(service), Calls(d, l) PROVE Ran(words)'
    <2>1. CASE c # d
      <3>1. PICK V : Values(V)
        BY DEF RpcInv
      <3>2. asked'[c] = asked[c] /\ runs'[c] = runs[c]
        BY <1>5, <2>1, <3>1 DEF Calls, Values
      <3> QED
        BY <1>1, <3>2 DEF Ran
    <2>2. CASE c = d
      <3>1. PICK V : Values(V)
        BY DEF RpcInv
      <3>2. PICK a, b : a = asked[c] /\ b = runs[c]
        OBVIOUS
      <3>3. /\ asked'[c] = Append(a, l) /\ runs'[c] = Append(b, <<>>)
            /\ a \in Seq(Legal(service)) /\ b \in Seq(Seq(V)) /\ Len(b) = Len(a)
            /\ <<>> \in Seq(V)
        BY <1>5, <2>2, <3>1, <3>2 DEF Calls, Values, RpcInv, CallsInv
      <3>4. /\ Append(a, l) \in Seq(Legal(service)) /\ Len(Append(a, l)) = Len(a) + 1
            /\ Len(a) \in Nat /\ \A i \in 1..Len(a) : Append(a, l)[i] = a[i]
        BY <3>3, AppendFacts
      <3>5. \A i \in 1..Len(b) : Append(b, <<>>)[i] = b[i]
        BY <3>3, AppendFacts
      <3>6. n \in 1..Len(a) /\ n \in 1..Len(Append(a, l))
        BY <1>1, <3>2, <3>3, <3>4, LenFacts
      <3>7. n \in DOMAIN asked'[c] /\ asked'[c][n] = asked[c][n] /\ runs'[c][n] = runs[c][n]
        BY <3>2, <3>3, <3>4, <3>5, <3>6
      <3> QED
        BY <1>1, <3>7 DEF Ran
    <2> QED
      BY <2>1, <2>2
  <1>6. ASSUME NEW d \in Clients, Resends(d) \/ \E x : Returns(d, x) PROVE Ran(words)'
    BY <1>2, <1>6 DEF Resends, Returns
  <1> QED
    BY <1>3, <1>4, <1>5, <1>6 DEF RpcStep

LEMMA NfsKeeps ==
    ASSUME Inv, Nfs
    PROVE  DataInv' /\ OnlyListAndTouchLeak' /\ TreeKept'
  <1>1. /\ RpcInv /\ DataInv /\ RpcStep /\ NfsData
        /\ service = "nfs" /\ service' = service /\ IsServer(server) /\ gen \in Nat
    BY NfsStep, NfsDataStep DEF Inv, Nfs, InNfs, DataInv
  <1>2. /\ server.fds > 0 => Ran({"ls", "touch"})
        /\ gen > 0 /\ ~up => server.fds = MaxFds
        /\ server.cwd.gone # <<>> => Ran({"remove"})
    BY <1>1 DEF Inv, OnlyListAndTouchLeak, TreeKept
  <1>6. ASSUME IsServer(server'), gen' \in Nat, server'.fds > 0 => Ran({"ls", "touch"})',
               gen' > 0 /\ ~up' => server'.fds = MaxFds,
               server'.cwd.gone # <<>> => Ran({"remove"})'
        PROVE  DataInv' /\ OnlyListAndTouchLeak' /\ TreeKept'
    BY <1>1, <1>6 DEF DataInv, OnlyListAndTouchLeak, TreeKept, IsServer, IsFs
  <1>3. CASE UNCHANGED <<server, gen, up>>
    <2>1. /\ server'.fds > 0 => Ran({"ls", "touch"})'
          /\ server'.cwd.gone # <<>> => Ran({"remove"})'
      BY <1>1, <1>2, <1>3, RanStays
    <2> QED
      BY <1>1, <1>2, <1>3, <1>6, <2>1
  <1>4. CASE server' = NewProcess(server) /\ up' = TRUE /\ gen' = gen + 1
    <2>1. IsServer(server') /\ server'.fds = 0 /\ server'.cwd.gone = <<>>
      BY <1>1, <1>4, RebootFacts
    <2> QED
      BY <1>1, <1>4, <1>6, <2>1
  <1>5. ASSUME NEW r \in requests, Runs(r), r.line \in Legal("nfs"), gen' = gen, NEW t,
               t = nfs_remote_1(server, r.line), server' = t.server, up' = t.up
        PROVE  DataInv' /\ OnlyListAndTouchLeak' /\ TreeKept'
    <2>1. Fine(server, r.line.word, r.line.args[1], t)
      BY <1>1, <1>5, ProcedureFine
    <2>2. /\ IsServer(server') /\ (~up' => server'.fds = MaxFds)
          /\ server'.fds # server.fds => r.line.word \in {"ls", "touch"}
          /\ server'.cwd.gone # <<>> => server.cwd.gone # <<>> \/ r.line.word = "remove"
      BY <1>5, <2>1 DEF Fine
    <2>3. ASSUME NEW words, r.line.word \in words PROVE Ran(words)'
      <3>1. /\ r.from \in Clients /\ Executed(r.from, r.call)'
            /\ asked'[r.from][r.call] = r.line
        BY <1>1, <1>5, RunsFacts
      <3> QED
        BY <2>3, <3>1 DEF Ran, Executed
    <2>4. server'.fds > 0 => Ran({"ls", "touch"})'
      BY <1>1, <1>2, <2>2, <2>3, RanStays
    <2>5. server'.cwd.gone # <<>> => Ran({"remove"})'
      BY <1>1, <1>2, <2>2, <2>3, RanStays
    <2> QED
      BY <1>1, <1>5, <1>6, <2>2, <2>4, <2>5
  <1> QED
    BY <1>1, <1>3, <1>4, <1>5 DEF NfsData

LEMMA SumsKeeps ==
    ASSUME Inv, Sums
    PROVE  DataInv' /\ OnlyListAndTouchLeak' /\ TreeKept'
  <1>1. /\ service = "sums" /\ service' = service /\ S!Next /\ RpcInv
        /\ gen \in Nat /\ DOMAIN server = {"arraysum", "add", "square"}
    BY DEF Inv, Sums, InSums, DataInv
  <1>2. CASE S!Register
    BY <1>1, <1>2 DEF S!Register, NoResults, NoResult, DataInv, OnlyListAndTouchLeak, TreeKept
  <1>3. ASSUME NEW r \in requests, S!Dispatch(r) PROVE DataInv' /\ OnlyListAndTouchLeak' /\ TreeKept'
    <2>1. r.line \in SumLines
      BY <1>1, LegalRequests DEF Legal
    <2>2. server' = sums_1(server, r.line).server /\ gen' = gen
      BY <1>3 DEF S!Dispatch
    <2>3. DOMAIN server' = DOMAIN server
      BY <2>1, <2>2, SumsServe
    <2> QED
      BY <1>1, <2>2, <2>3 DEF DataInv, OnlyListAndTouchLeak, TreeKept
  <1>4. ASSUME NEW c \in Clients, S!ClientStep(c) PROVE DataInv' /\ OnlyListAndTouchLeak' /\ TreeKept'
    <2>1. server' = server /\ gen' = gen
      BY <1>4 DEF S!ClientStep, S!clnt_create, S!Poll, S!Retransmit, S!Answered, S!CallFails,
                  S!Return, S!Call, S!Exit, S!conn
    <2> QED
      BY <1>1, <2>1 DEF DataInv, OnlyListAndTouchLeak, TreeKept
  <1> QED
    BY <1>1, <1>2, <1>3, <1>4 DEF S!Next

\* Without a connection there is nothing to print but what the buffer holds.
LEMMA BlankRepeats ==
    ASSUME got \in Seq({Blank}), T!ClientRepeats
    PROVE  got' \in Seq({Blank})
  <1>1. PICK l : l = IF got = <<>> THEN Blank ELSE got[Len(got)]
    OBVIOUS
  <1>2. l = Blank
    BY <1>1
  <1>3. got' = Append(got, l)
    BY <1>1 DEF T!ClientRepeats
  <1> QED
    BY <1>2, <1>3

LEMMA FtpKeeps ==
    ASSUME FtpInv, T!Next
    PROVE  FtpInv'
  <1> USE DEF FtpInv, T!fixed, T!reading
  <1>1. CASE T!ServerStart \/ T!ClientStart \/ T!ClientLeaves
    BY <1>1 DEF T!ServerStart, T!ClientStart, T!ClientLeaves
  <1>2. CASE T!ServerReadsBoth \/ T!ServerSendsPort \/ T!ServerReadsName \/ T!ServerReadsEnd
    BY <1>2 DEF T!ServerReadsBoth, T!ServerSendsPort, T!ServerReadsName, T!ServerReadsEnd
  <1>3. CASE T!ServerListens \/ T!ServerConnects \/ T!ServerAccepts \/ T!FileOpens
    BY <1>3 DEF T!ServerListens, T!ServerConnects, T!ServerAccepts, T!FileOpens
  <1>4. CASE T!Round
    BY <1>4 DEF T!Round
  <1>5. CASE T!ClientSendsBoth \/ T!ClientSendsName \/ T!ClientListens \/ T!ClientConnects
              \/ T!ClientAccepts \/ T!ClientReads
    BY <1>5 DEF T!ClientSendsBoth, T!ClientSendsName, T!ClientListens, T!ClientConnects,
                T!ClientAccepts, T!ClientReads
  <1>6. CASE T!ClientRepeats
    <2>1. UNCHANGED <<mode, ft_server, ft_client, linked, data>> /\ T!NothingComes /\ data = <<>>
      BY <1>6 DEF T!ClientRepeats
    <2>2. ~linked => got' \in Seq({Blank})
      BY <1>6, BlankRepeats
    <2> QED
      BY <2>1, <2>2 DEF T!NothingComes
  <1> QED
    BY <1>1, <1>2, <1>3, <1>4, <1>5, <1>6 DEF T!Next, T!ServerStep, T!ClientStep

LEMMA NextInv ==
    ASSUME Inv, [Next]_vars
    PROVE  Inv'
  <1>1. ASSUME UNCHANGED rpc, service' = service 
        PROVE  (RpcInv /\ DataInv /\ OnlyListAndTouchLeak /\ TreeKept)'
    <2>1. PICK V : Values(V)
      BY DEF Inv, RpcInv
    <2>2. Values(V)'
      BY <1>1, <2>1 DEF Values, rpc
    <2>3. CallsInv' /\ DatagramsInv' /\ CountInv'
      BY <1>1 DEF Inv, RpcInv, CallsInv, DatagramsInv, CountInv, Pending, rpc
    <2>4. DataInv' /\ OnlyListAndTouchLeak' /\ TreeKept'
      BY <1>1 DEF Inv, DataInv, OnlyListAndTouchLeak, TreeKept, Ran, rpc
    <2> QED
      BY <2>2, <2>3, <2>4 DEF RpcInv
  <1>2. ASSUME UNCHANGED ftp PROVE FtpInv'
    BY <1>2 DEF Inv, FtpInv, ftp
  <1>3. CASE Nfs
    BY <1>2, <1>3, NfsStep, StepInv, NfsKeeps DEF Inv, Nfs, InNfs
  <1>4. CASE Sums
    BY <1>2, <1>4, SumsStep, StepInv, SumsKeeps DEF Inv, Sums, InSums
  <1>5. CASE Transfer
    BY <1>1, <1>5, FtpKeeps DEF Inv, Transfer, InFtp
  <1>6. CASE UNCHANGED vars
    BY <1>1, <1>2, <1>6 DEF Inv, vars
  <1> QED
    BY <1>3, <1>4, <1>5, <1>6 DEF Next

\* The inductive invariant: a request or reply in flight belongs to a call that was made
\* and, for a reply, to one of this call's executions (nfs_clnt.c, nfs_svc.c); the file
\* server has a tree and a directory (nfs_server.c); ftp connects once.
THEOREM Invariance == Spec => []Inv
  <1>1. Inv /\ [Next]_vars => Inv'
    BY NextInv
  <1> QED
    BY InitInv, <1>1, PTL DEF Spec


-----------------------------------------------------------------------------
(***************************************************************************)
(* What the users of nfs and of the sums see                               *)
(***************************************************************************)

\* A handle is for a server that was registered, and only with one a client calls.
ConnInv ==
    /\ gen <= MaxStarts /\ up \in BOOLEAN
    /\ bound \in [Clients -> 0 .. gen]
    /\ \A c \in Clients : Len(asked[c]) > 0 => bound[c] > 0
    /\ \A c \in Clients : \A n \in 1..Len(sent[c]) : sent[c][n] \in 1 .. MaxTries
    /\ \A r \in requests : r.gen \in 0 .. gen
    /\ gen = 0 => server = FirstServer

\* The result of one execution of line l.
Right(l, x) ==
    /\ l.word = "add" => x = SumOf(l.args)
    /\ l.word = "square" => x = l.args[1] * l.args[1]

\* Every execution was right, and what a stub returned is one's result.
RunsRight(q, r) == \A n \in 1..Len(r) : \A m \in 1..Len(r[n]) : Right(q[n], r[n][m])
OwnResults(l, r) ==
    \A n \in 1..Len(l) : l[n] = Null \/ \E m \in 1..Len(r[n]) : l[n] = r[n][m]
ResultsInv ==
    \A c \in Clients : RunsRight(asked[c], runs[c]) /\ OwnResults(log[c], runs[c])

\* f[n]: server and results when the first n lines of q ran one after the other.
Steps(first, q, f) ==
    f = [n \in 0 .. Len(q) |->
            IF n = 0 THEN [server |-> first, log |-> <<>>]
            ELSE LET t == ServeAny(f[n - 1].server, q[n])
                 IN  [server |-> t.server, log |-> Append(f[n - 1].log, t.res)]]

\* Client c has the first server to itself, and was answered at once so far.
Quiet(c) ==
    /\ gen = 1 /\ \A d \in Clients \ {c} : asked[d] = <<>>
    /\ \A n \in 1..Len(sent[c]) : sent[c][n] = 1
    /\ \A n \in 1..Len(log[c]) : log[c][n] # Null

\* The first k calls of c ran once each, in this order, and no other call.
RanInTurn(c, k) ==
    /\ Len(log[c]) <= k
    /\ \A n \in 1..Len(asked[c]) : Len(runs[c][n]) = IF n <= k THEN 1 ELSE 0
    /\ \A f : Steps(FirstServer, asked[c], f) =>
        f[k].server = server /\ f[k].log = [n \in 1..k |-> runs[c][n][1]]

TurnsInv ==
    \A c \in Clients :
        /\ \E f : Steps(FirstServer, asked[c], f)
        /\ Quiet(c) => \E k \in 0..Len(asked[c]) : RanInTurn(c, k)

SeenInv == ConnInv /\ ResultsInv /\ TurnsInv

LEMMA ServeRight ==
    ASSUME Inv, NEW r \in requests
    PROVE  /\ Right(r.line, ServeAny(server, r.line).res)
           /\ ServeAny(server, r.line).up \in BOOLEAN
  <1>1. RpcInv /\ DataInv /\ r.line \in Legal(service)
    BY LegalRequests DEF Inv
  <1>2. CASE service = "nfs"
    <2>1. IsServer(server) /\ r.line \in Legal("nfs")
      BY <1>1, <1>2 DEF DataInv
    <2>2. PICK t : t = nfs_remote_1(server, r.line)
      OBVIOUS
    <2>3. ServeAny(server, r.line) = t /\ Fine(server, r.line.word, r.line.args[1], t)
      BY <2>1, <2>2, ProcedureFine
    <2>4. r.line.word \notin {"add", "square"}
      BY <2>1, LinesAssumption DEF Legal
    <2> QED
      BY <2>3, <2>4 DEF Fine, Right
  <1>3. CASE service # "nfs"
    <2>1. PICK l : l = r.line
      OBVIOUS
    <2>2. l \in SumLines
      BY <1>1, <1>3, <2>1 DEF Legal
    <2>3. ServeAny(server, l) = sums_1(server, l)
      BY <2>2, SumsServe
    <2>4. PICK word, v : sums_1(server, l) = Result(word, v, server) /\ Right(l, v)
      <3>1. CASE l.word = "arraysum"
        BY <3>1 DEF sums_1, arraysum, Right
      <3>2. CASE l.word = "add"
        BY <3>2 DEF sums_1, add, Right
      <3>3. CASE l.word = "square"
        BY <3>3 DEF sums_1, square, Right
      <3> QED
        BY <2>2, <3>1, <3>2, <3>3, LinesAssumption
    <2>5. Result(word, v, server).res = v /\ Result(word, v, server).up = TRUE
      BY DEF Result
    <2> QED
      BY <2>1, <2>3, <2>4, <2>5
  <1> QED
    BY <1>2, <1>3

LEMMA ConnStep ==
    ASSUME Inv, ConnInv, RpcStep
    PROVE  ConnInv'
  <1>0. RpcInv /\ gen \in Nat /\ \A c \in Clients : bound[c] \in Nat
    BY DEF Inv, DataInv, ConnInv
  <1>1. CASE Rests
    <2>1. UNCHANGED <<service, asked, sent, requests>>
      BY <1>1 DEF Rests
    <2>2. CASE UNCHANGED <<server, gen, up, bound>>
      BY <2>1, <2>2 DEF ConnInv, FirstServer
    <2>3. ASSUME gen # 0, NEW c \in Clients, bound' = [bound EXCEPT ![c] = gen],
                 UNCHANGED <<server, gen, up>>
          PROVE  ConnInv'
      BY <1>0, <2>1, <2>3 DEF ConnInv, FirstServer
    <2>4. CASE up' = TRUE /\ UNCHANGED bound /\ gen < MaxStarts /\ gen' = gen + 1
      <3>1. gen + 1 <= MaxStarts /\ gen + 1 # 0
        BY <1>0, <2>4, BoundsAssumption
      <3>2. \A i \in 0 .. gen : i \in 0 .. gen + 1
        BY <1>0
      <3>3. bound' \in [Clients -> 0 .. gen + 1]
        BY <2>4, <3>2 DEF ConnInv
      <3>4. \A r \in requests' : r.gen \in 0 .. gen + 1
        BY <2>1, <3>2 DEF ConnInv
      <3> QED
        BY <2>1, <2>4, <3>1, <3>3, <3>4 DEF ConnInv
    <2> QED
      BY <1>1, <2>2, <2>3, <2>4 DEF Rests
  <1>2. ASSUME NEW r \in requests, Runs(r) PROVE ConnInv'
    <2>1. /\ UNCHANGED <<service, gen, bound, asked, sent>> /\ requests' \subseteq requests
          /\ up' \in BOOLEAN
      BY <1>2, ServeRight DEF Runs
    <2>2. gen # 0
      <3>1. PICK V : Values(V)
        BY <1>0 DEF RpcInv
      <3>2. r.from \in Clients /\ r.call \in 1..Len(asked[r.from])
        BY <1>0 DEF RpcInv, DatagramsInv
      <3>3. Len(asked[r.from]) \in Nat
        BY <3>1, <3>2, LenFacts DEF Values
      <3>4. bound[r.from] > 0 /\ bound[r.from] \in 0 .. gen
        BY <3>2, <3>3 DEF ConnInv
      <3> QED
        BY <1>0, <3>4
    <2> QED
      BY <2>1, <2>2 DEF ConnInv
  <1>3. ASSUME NEW c \in Clients, NEW l \in Legal(service), Calls(c, l) PROVE ConnInv'
    <2>1. PICK V, k, q : Extends(V, k, q, c, l)
      BY <1>0, <1>3, CallsAt
    <2>2. PICK p : Sends(c, l, Len(asked[c]) + 1, p) /\ requests' = requests \union {p}
      BY <1>3 DEF Calls
    <2>3. UNCHANGED <<service, server, gen, up, bound>> /\ bound[c] > 0 /\ p.gen = bound[c]
      BY <1>3, <2>2 DEF Calls, Sends
    <2>4. \A d \in Clients : Len(asked'[d]) > 0 => bound[d] > 0
      <3>1. \A d \in Clients : d # c => asked'[d] = asked[d]
        BY <2>1 DEF Extends
      <3> QED
        BY <2>3, <3>1 DEF ConnInv
    <2>5. \A d \in Clients : \A n \in 1..Len(sent'[d]) : sent'[d][n] \in 1 .. MaxTries
      <3>1. /\ \A d \in Clients : d # c => sent'[d] = sent[d]
            /\ k \in Nat /\ Len(sent'[c]) = k + 1 /\ Len(sent[c]) = k /\ sent'[c][k + 1] = 1
            /\ \A m \in 1..k : sent'[c][m] = sent[c][m]
        BY <2>1 DEF Extends
      <3>2. 1 \in 1 .. MaxTries
        BY BoundsAssumption
      <3>3. \A n \in 1..k : sent[c][n] \in 1 .. MaxTries
        BY <3>1 DEF ConnInv
      <3>4. ASSUME NEW n \in 1..(k + 1) PROVE sent'[c][n] \in 1 .. MaxTries
        <4>1. n \in 1..k \/ n = k + 1
          BY <3>1
        <4> QED
          BY <3>1, <3>2, <3>3, <4>1
      <3> QED
        BY <3>1, <3>4 DEF ConnInv
    <2>6. \A r \in requests' : r.gen \in 0 .. gen
      <3>1. bound[c] \in 0 .. gen
        BY DEF ConnInv
      <3> QED
        BY <1>0, <2>2, <2>3, <3>1 DEF ConnInv
    <2> QED
      BY <2>3, <2>4, <2>5, <2>6 DEF ConnInv, FirstServer
  <1>4. ASSUME NEW c \in Clients, Resends(c) PROVE ConnInv'
    <2>1. PICK k : Again(c, k)
      BY <1>0, <1>4, ResendsAt
    <2>2. PICK p : p.gen = bound[c] /\ requests' = requests \union {p}
      BY <1>4 DEF Resends, Sends
    <2>3. UNCHANGED <<service, server, gen, up, bound, asked>> /\ sent[c][k] < MaxTries
      BY <1>4, <2>1 DEF Resends, Again
    <2>4. \A d \in Clients : \A n \in 1..Len(sent'[d]) : sent'[d][n] \in 1 .. MaxTries
      <3>1. sent[c][k] \in 1 .. MaxTries
        BY <2>1 DEF Again, ConnInv
      <3>2. sent[c][k] + 1 \in 1 .. MaxTries
        BY <2>3, <3>1, BoundsAssumption
      <3> QED
        BY <2>1, <3>2 DEF Again, ConnInv
    <2>5. \A r \in requests' : r.gen \in 0 .. gen
      <3>1. bound[c] \in 0 .. gen
        BY DEF ConnInv
      <3> QED
        BY <1>0, <2>2, <3>1 DEF ConnInv
    <2> QED
      BY <2>3, <2>4, <2>5 DEF ConnInv, FirstServer
  <1>5. ASSUME NEW c \in Clients, NEW x, Returns(c, x) PROVE ConnInv'
    BY <1>5 DEF Returns, ConnInv, FirstServer
  <1> QED
    BY <1>1, <1>2, <1>3, <1>4, <1>5 DEF RpcStep

LEMMA ResultsStep ==
    ASSUME Inv, ResultsInv, RpcStep
    PROVE  ResultsInv'
  <1>0. RpcInv
    BY DEF Inv
  <1>1. CASE UNCHANGED <<asked, log, runs>>
    BY <1>1 DEF ResultsInv
  <1>2. ASSUME NEW r \in requests, Runs(r) PROVE ResultsInv'
    <2>0. PICK c, n, x : Executes(r, c, n, x)
      BY DEF Executes
    <2>1. PICK V : Appends(V, c, n, x)
      BY <1>0, <1>2, <2>0, RunsAt
    <2>2. UNCHANGED <<asked, log>> /\ Right(asked[c][n], x)
      <3>1. r.line = asked[c][n]
        BY <1>0, <2>0 DEF RpcInv, DatagramsInv, Executes
      <3> QED
        BY <1>2, <2>0, <3>1, ServeRight DEF Runs, Executes
    <2>3. ASSUME NEW d \in Clients, NEW i \in 1..Len(runs[d])
          PROVE  /\ \A m \in 1..Len(runs'[d][i]) : Right(asked[d][i], runs'[d][i][m])
                 /\ \A m \in 1..Len(runs[d][i]) :
                        m \in 1..Len(runs'[d][i]) /\ runs'[d][i][m] = runs[d][i][m]
      <3>1. CASE d = c /\ i = n
        <4>1. runs'[d][i] = Append(runs[c][n], x)
          BY <2>1, <3>1 DEF Appends
        <4>2. PICK b, k : b = Append(runs[c][n], x) /\ k = Len(runs[c][n])
          OBVIOUS
        <4>3. /\ k \in Nat /\ Len(b) = k + 1 /\ b[k + 1] = x
              /\ \A m \in 1..k : b[m] = runs[c][n][m]
          BY <2>1, <4>2 DEF Appends
        <4>4. \A m \in 1..k : Right(asked[c][n], runs[c][n][m])
          BY <2>1, <4>2 DEF ResultsInv, RunsRight, OwnResults, Appends
        <4> QED
          BY <2>2, <3>1, <4>1, <4>2, <4>3, <4>4
      <3>2. CASE ~(d = c /\ i = n)
        <4>1. runs'[d][i] = runs[d][i]
          BY <2>1, <3>2 DEF Appends
        <4> QED
          BY <4>1 DEF ResultsInv, RunsRight, OwnResults
      <3> QED
        BY <3>1, <3>2
    <2>4. \A d \in Clients : \A i \in 1..Len(log[d]) : i \in 1..Len(runs[d])
      <3> SUFFICES ASSUME NEW d \in Clients, NEW i \in 1..Len(log[d]) PROVE i \in 1..Len(runs[d])
        OBVIOUS
      <3>1. Len(log[d]) \in Nat
        BY <2>1, LenFacts DEF Appends, Values
      <3> QED
        BY <1>0, <3>1 DEF RpcInv, CallsInv
    <2>5. \A d \in Clients : Len(runs'[d]) = Len(runs[d])
      BY <2>1 DEF Appends
    <2>6. ASSUME NEW d \in Clients, NEW i \in 1..Len(log[d])
          PROVE  log[d][i] = Null \/ \E m \in 1..Len(runs'[d][i]) : log[d][i] = runs'[d][i][m]
      <3>1. CASE log[d][i] # Null
        <4>1. PICK m \in 1..Len(runs[d][i]) : log[d][i] = runs[d][i][m]
          BY <3>1 DEF ResultsInv, RunsRight, OwnResults
        <4> QED
          BY <2>3, <2>4, <4>1
      <3> QED
        BY <3>1
    <2>7. ASSUME NEW d \in Clients, NEW i \in 1..Len(runs'[d]), NEW m \in 1..Len(runs'[d][i])
          PROVE  Right(asked[d][i], runs'[d][i][m])
      BY <2>3, <2>5
    <2> QED
      BY <2>2, <2>6, <2>7 DEF ResultsInv, RunsRight, OwnResults
  <1>3. ASSUME NEW c \in Clients, NEW l \in Legal(service), Calls(c, l) PROVE ResultsInv'
    <2>1. PICK V, k, q : Extends(V, k, q, c, l)
      BY <1>0, <1>3, CallsAt
    <2>2. /\ log' = log /\ k \in Nat /\ Len(log[c]) = k /\ Len(runs'[c]) = k + 1
          /\ Len(asked[c]) = k /\ runs'[c][k + 1] = <<>>
          /\ \A d \in Clients : d # c => asked'[d] = asked[d] /\ runs'[d] = runs[d]
          /\ \A m \in 1..k : asked'[c][m] = asked[c][m] /\ runs'[c][m] = runs[c][m]
      BY <2>1 DEF Extends
    <2>3. RunsRight(asked'[c], runs'[c]) /\ OwnResults(log[c], runs'[c])
      <3>1. /\ \A n \in 1..k : \A m \in 1..Len(runs[c][n]) : Right(asked[c][n], runs[c][n][m])
            /\ \A n \in 1..k :
                log[c][n] = Null \/ \E m \in 1..Len(runs[c][n]) : log[c][n] = runs[c][n][m]
        <4>1. Len(runs[c]) = k /\ Len(log[c]) = k
          BY <1>0, <2>2 DEF RpcInv, CallsInv
        <4>2. RunsRight(asked[c], runs[c]) /\ OwnResults(log[c], runs[c])
          BY DEF ResultsInv
        <4> QED
          BY <4>1, <4>2 DEF RunsRight, OwnResults
      <3>2. \A m : m \notin 1..Len(runs'[c][k + 1])
        BY <2>2
      <3>3. ASSUME NEW n \in 1..(k + 1), NEW m \in 1..Len(runs'[c][n])
            PROVE  Right(asked'[c][n], runs'[c][n][m])
        <4>1. n \in 1..k
          BY <2>2, <3>2, <3>3
        <4> QED
          BY <2>2, <3>1, <4>1
      <3>4. ASSUME NEW n \in 1..k
            PROVE  log[c][n] = Null \/ \E m \in 1..Len(runs'[c][n]) : log[c][n] = runs'[c][n][m]
        BY <2>2, <3>1
      <3> QED
        BY <2>2, <3>3, <3>4 DEF RunsRight, OwnResults
    <2>4. ASSUME NEW d \in Clients, d # c
          PROVE  RunsRight(asked'[d], runs'[d]) /\ OwnResults(log[d], runs'[d])
      BY <2>2, <2>4 DEF ResultsInv
    <2> QED
      BY <2>2, <2>3, <2>4 DEF ResultsInv
  <1>4. ASSUME NEW c \in Clients, NEW x, Returns(c, x), OwnAnswer(c, x) PROVE ResultsInv'
    <2>1. PICK V : Logged(V, c, x)
      BY <1>0, <1>4, ReturnsAt
    <2>2. /\ UNCHANGED <<asked, runs>> /\ Len(asked[c]) = Len(log[c]) + 1
      BY <1>0, <1>4 DEF Returns, RpcInv, CallsInv
    <2>3. x = Null \/ \E m \in 1..Len(runs[c][Len(log[c]) + 1]) : x = runs[c][Len(log[c]) + 1][m]
      BY <1>0, <1>4, <2>2 DEF OwnAnswer, RpcInv, DatagramsInv
    <2>4. PICK k : k = Len(log[c])
      OBVIOUS
    <2>5. /\ k \in Nat /\ Len(log'[c]) = k + 1 /\ log'[c][k + 1] = x
          /\ \A m \in 1..k : log'[c][m] = log[c][m]
          /\ \A d \in Clients : d # c => log'[d] = log[d]
      BY <2>1, <2>4 DEF Logged
    <2>6. \A n \in 1..(k + 1) :
            log'[c][n] = Null \/ \E m \in 1..Len(runs[c][n]) : log'[c][n] = runs[c][n][m]
      <3>1. ASSUME NEW n \in 1..k
            PROVE  log'[c][n] = Null \/ \E m \in 1..Len(runs[c][n]) : log'[c][n] = runs[c][n][m]
        BY <2>4, <2>5 DEF ResultsInv, RunsRight, OwnResults
      <3>2. \A n \in 1..(k + 1) : n \in 1..k \/ n = k + 1
        BY <2>5
      <3> QED
        BY <2>3, <2>4, <2>5, <3>1, <3>2
    <2>7. ASSUME NEW d \in Clients
          PROVE  \A n \in 1..Len(log'[d]) :
                    log'[d][n] = Null \/ \E m \in 1..Len(runs[d][n]) : log'[d][n] = runs[d][n][m]
      <3>1. CASE d = c
        BY <2>5, <2>6, <3>1
      <3>2. CASE d # c
        BY <2>5, <3>2 DEF ResultsInv, RunsRight, OwnResults
      <3> QED
        BY <3>1, <3>2
    <2> QED
      BY <2>2, <2>7 DEF ResultsInv, RunsRight, OwnResults
  <1> QED
    BY <1>1, <1>2, <1>3, <1>4 DEF RpcStep, Rests, Resends

\* There are turns of a longer list, and they begin like those of the list.
LEMMA MoreSteps ==
    ASSUME NEW A, NEW q \in Seq(A), NEW p \in Seq(A), Len(p) = Len(q) + 1,
           \A m \in 1..Len(q) : p[m] = q[m], NEW first, NEW h, Steps(first, q, h)
    PROVE  \E g : Steps(first, p, g)
  <1>1. PICK k : k = Len(q) /\ k \in Nat /\ Len(p) = k + 1 /\ \A m \in 1..k : p[m] = q[m]
    BY LenFacts
  <1>2. ASSUME NEW f, Steps(first, q, f) PROVE \E g : Steps(first, p, g)
    <2>1. PICK t : t = ServeAny(f[k].server, p[k + 1])
      OBVIOUS
    <2>2. PICK g : g = [n \in 0..(k + 1) |->
                          IF n = k + 1 THEN [server |-> t.server, log |-> Append(f[k].log, t.res)]
                          ELSE f[n]]
      OBVIOUS
    <2>3. \A n \in 0..k : g[n] = f[n]
      BY <1>1, <2>2
    <2>4. ASSUME NEW n \in 0..(k + 1)
          PROVE  g[n] = IF n = 0 THEN [server |-> first, log |-> <<>>]
                        ELSE LET u == ServeAny(g[n - 1].server, p[n])
                             IN  [server |-> u.server, log |-> Append(g[n - 1].log, u.res)]
      <3>1. CASE n = k + 1
        <4>1. n # 0 /\ n - 1 = k /\ k \in 0..k
          BY <1>1, <3>1
        <4>2. g[n] = [server |-> t.server, log |-> Append(f[k].log, t.res)]
          BY <2>2, <3>1
        <4>3. g[n - 1] = f[k]
          BY <2>3, <4>1
        <4> QED
          BY <2>1, <3>1, <4>1, <4>2, <4>3
      <3>2. CASE n = 0
        <4>1. g[0] = f[0] /\ 0 \in 0..k
          BY <1>1, <2>3
        <4>2. f[0] = [server |-> first, log |-> <<>>]
          BY <1>1, <1>2, <4>1 DEF Steps
        <4> QED
          BY <3>2, <4>1, <4>2
      <3>3. CASE n \in 1..k
        <4>1. n \in 0..k /\ n - 1 \in 0..k /\ n # 0
          BY <1>1, <3>3
        <4>2. f[n] = [server |-> ServeAny(f[n - 1].server, q[n]).server,
                      log |-> Append(f[n - 1].log, ServeAny(f[n - 1].server, q[n]).res)]
          BY <1>1, <1>2, <4>1 DEF Steps
        <4>3. g[n] = f[n] /\ g[n - 1] = f[n - 1] /\ p[n] = q[n]
          BY <1>1, <2>3, <3>3, <4>1
        <4> QED
          BY <4>1, <4>2, <4>3
      <3> QED
        BY <1>1, <3>1, <3>2, <3>3
    <2>5. Steps(first, p, g)
      <3>1. g = [n \in 0..(k + 1) |->
                    IF n = 0 THEN [server |-> first, log |-> <<>>]
                    ELSE LET u == ServeAny(g[n - 1].server, p[n])
                         IN  [server |-> u.server, log |-> Append(g[n - 1].log, u.res)]]
        BY <2>2, <2>4
      <3> QED
        BY <1>1, <3>1 DEF Steps
    <2> QED
      BY <2>5
  <1> QED
    BY <1>2

LEMMA FewerSteps ==
    ASSUME NEW A, NEW q \in Seq(A), NEW p \in Seq(A), Len(p) = Len(q) + 1,
           \A m \in 1..Len(q) : p[m] = q[m], NEW first, NEW h, Steps(first, p, h)
    PROVE  \E f : Steps(first, q, f) /\ \A n \in 0..Len(q) : f[n] = h[n]
  <1>1. PICK k : k = Len(q) /\ k \in Nat /\ Len(p) = k + 1 /\ \A m \in 1..k : p[m] = q[m]
    BY LenFacts
  <1>3. ASSUME NEW g, Steps(first, p, g)
        PROVE  \E f : Steps(first, q, f) /\ \A n \in 0..Len(q) : f[n] = g[n]
    <2>1. PICK f : f = [n \in 0..k |-> g[n]]
      OBVIOUS
    <2>2. ASSUME NEW n \in 0..k
          PROVE  f[n] = IF n = 0 THEN [server |-> first, log |-> <<>>]
                        ELSE LET u == ServeAny(f[n - 1].server, q[n])
                             IN  [server |-> u.server, log |-> Append(f[n - 1].log, u.res)]
      <3>1. n \in 0..(k + 1) /\ f[n] = g[n]
        BY <1>1, <2>1
      <3>2. CASE n = 0
        <4>1. g[0] = [server |-> first, log |-> <<>>]
          BY <1>1, <1>3, <3>1, <3>2 DEF Steps
        <4> QED
          BY <3>1, <3>2, <4>1
      <3>3. CASE n # 0
        <4>1. g[n] = [server |-> ServeAny(g[n - 1].server, p[n]).server,
                      log |-> Append(g[n - 1].log, ServeAny(g[n - 1].server, p[n]).res)]
          BY <1>1, <1>3, <3>1, <3>3 DEF Steps
        <4>2. n - 1 \in 0..k /\ n \in 1..k
          BY <1>1, <3>3
        <4>3. f[n - 1] = g[n - 1] /\ p[n] = q[n]
          BY <1>1, <2>1, <4>2
        <4> QED
          BY <3>1, <3>3, <4>1, <4>3
      <3> QED
        BY <3>2, <3>3
    <2>3. Steps(first, q, f)
      <3>1. f = [n \in 0..k |->
                    IF n = 0 THEN [server |-> first, log |-> <<>>]
                    ELSE LET u == ServeAny(f[n - 1].server, q[n])
                         IN  [server |-> u.server, log |-> Append(f[n - 1].log, u.res)]]
        BY <2>1, <2>2
      <3> QED
        BY <1>1, <3>1 DEF Steps
    <2> QED
      BY <1>1, <2>1, <2>3
  <1> QED
    BY <1>3

LEMMA NoSteps ==
    ASSUME NEW first, NEW q, q = <<>>
    PROVE  /\ \E f : Steps(first, q, f)
           /\ \A f : Steps(first, q, f) => f[0] = [server |-> first, log |-> <<>>]
  <1>1. Len(q) = 0
    OBVIOUS
  <1>2. PICK f : f = [n \in 0..0 |-> [server |-> first, log |-> <<>>]]
    OBVIOUS
  <1>3. Steps(first, q, f)
    BY <1>1, <1>2 DEF Steps
  <1>4. ASSUME NEW g, Steps(first, q, g) PROVE g[0] = [server |-> first, log |-> <<>>]
    BY <1>1, <1>4 DEF Steps
  <1> QED
    BY <1>3, <1>4

\* Where nothing was asked, the turns are the first server.
LEMMA NoTurns ==
    ASSUME NEW c \in Clients, asked[c] = <<>>, log[c] = <<>>, server = FirstServer
    PROVE  (\E f : Steps(FirstServer, asked[c], f)) /\ RanInTurn(c, 0)
  <1>1. PICK q, first : q = asked[c] /\ first = FirstServer /\ q = <<>>
    OBVIOUS
  <1>2. (\E f : Steps(first, q, f)) /\ Len(q) = 0 /\ Len(log[c]) = 0
    BY <1>1, NoSteps
  <1>3. ASSUME NEW f, Steps(first, q, f)
        PROVE  f[0].server = first /\ f[0].log = [n \in 1..0 |-> runs[c][n][1]]
    <2>1. f[0] = [server |-> first, log |-> <<>>]
      BY <1>1, <1>3, NoSteps
    <2>2. <<>> = [n \in 1..0 |-> runs[c][n][1]]
      OBVIOUS
    <2> QED
      BY <2>1, <2>2
  <1> QED
    BY <1>1, <1>2, <1>3 DEF RanInTurn

LEMMA BootFirst == BootAny(FirstServer) = FirstServer
  <1>1. CASE service = "nfs"
    <2>1. PICK a, b, f : /\ a = At(<<>>) /\ b = [i \in 1 .. BufSize |-> Blank]
                         /\ f = [fs |-> Tree, cwd |-> a, fds |-> 0, rbuf |-> <<>>]
      OBVIOUS
    <2>2. Files = [f EXCEPT !.cwd = a, !.fds = 0, !.rbuf = b]
      BY <2>1 DEF Files, NewProcess
    <2>3. Files = [fs |-> Tree, cwd |-> a, fds |-> 0, rbuf |-> b]
      BY <2>1, <2>2
    <2>4. BootAny(Files) = [Files EXCEPT !.cwd = a, !.fds = 0, !.rbuf = b]
      <3>1. "fs" \in DOMAIN Files
        BY <2>3
      <3> QED
        BY <2>1, <3>1 DEF BootAny, NewProcess
    <2>5. BootAny(Files) = Files
      BY <2>3, <2>4
    <2> QED
      BY <1>1, <2>5 DEF FirstServer
  <1>2. CASE service # "nfs"
    BY <1>2 DEF FirstServer, BootAny, NoResult
  <1> QED
    BY <1>1, <1>2

\* who has called something
LEMMA Caller ==
    ASSUME RpcInv, NEW c \in Clients, Len(asked[c]) > 0
    PROVE  asked[c] # <<>>
  BY DEF RpcInv, Values

\* A step after which c is quiet left the counts as they were before, or is the start.
LEMMA TurnsStep ==
    ASSUME Inv, ConnInv, ResultsInv, TurnsInv, RpcStep
    PROVE  TurnsInv'
  <1>0. RpcInv /\ gen \in Nat
    BY DEF Inv, DataInv
  <1>1. ASSUME UNCHANGED <<service, server, gen, asked, sent, log, runs>> PROVE TurnsInv'
    <2>1. FirstServer' = FirstServer
      BY <1>1 DEF FirstServer
    <2>2. \A c \in Clients : Quiet(c)' => Quiet(c)
      BY <1>1 DEF Quiet
    <2>3. ASSUME NEW c \in Clients, NEW k, RanInTurn(c, k) PROVE RanInTurn(c, k)'
      BY <1>1, <2>1, <2>3 DEF RanInTurn
    <2> QED
      BY <1>1, <2>1, <2>2, <2>3 DEF TurnsInv
  <1>2. ASSUME Rests PROVE TurnsInv'
    <2>1. UNCHANGED <<service, asked, sent, log, runs>>
      BY <1>2 DEF Rests
    <2>2. CASE UNCHANGED <<server, gen>>
      BY <1>1, <2>1, <2>2
    <2>3. CASE server' = BootAny(server) /\ gen' = gen + 1
      <3> SUFFICES ASSUME NEW c \in Clients, gen' = 1
                   PROVE  \E k \in 0..Len(asked[c]) : RanInTurn(c, k)'
        BY <2>1 DEF TurnsInv, Quiet, FirstServer
      <3>1. gen = 0 /\ server' = FirstServer /\ FirstServer' = FirstServer
        BY <1>0, <2>1, <2>3, BootFirst DEF ConnInv, FirstServer
      <3>2. Len(asked[c]) = 0 /\ Len(log[c]) = 0 /\ asked[c] = <<>> /\ log[c] = <<>>
        <4>1. PICK V : Values(V)
          BY <1>0 DEF RpcInv
        <4>2. Len(asked[c]) \in Nat /\ Len(log[c]) \in Nat
          BY <4>1, LenFacts DEF Values
        <4>3. ~(bound[c] > 0)
          BY <3>1 DEF ConnInv
        <4>4. Len(asked[c]) = 0
          BY <4>2, <4>3 DEF ConnInv
        <4>5. Len(log[c]) = 0
          BY <1>0, <4>2, <4>4 DEF RpcInv, CallsInv
        <4> QED
          BY <4>1, <4>4, <4>5 DEF Values
      <3>3. RanInTurn(c, 0)
        BY <3>1, <3>2, NoTurns DEF ConnInv
      <3>4. RanInTurn(c, 0)'
        BY <2>1, <3>1, <3>3 DEF RanInTurn, ConnInv
      <3> QED
        BY <3>2, <3>4
    <2> QED
      BY <1>2, <2>2, <2>3 DEF Rests
  <1>3. ASSUME NEW r \in requests, Runs(r) PROVE TurnsInv'
    <2>0. PICK c, n, x : Executes(r, c, n, x)
      BY DEF Executes
    <2>1. PICK V : Appends(V, c, n, x)
      BY <1>0, <1>3, <2>0, RunsAt
    <2>2. /\ UNCHANGED <<service, gen, asked, sent, log>> /\ c \in Clients
          /\ n \in 1..Len(asked[c]) /\ n \in 1..Len(runs[c])
          /\ server' = ServeAny(server, asked[c][n]).server
          /\ x = ServeAny(server, asked[c][n]).res
      <3>1. r.line = asked[c][n] /\ c \in Clients /\ n \in 1..Len(asked[c]) /\ n \in 1..Len(runs[c])
        BY <1>0, <2>0, <2>1 DEF RpcInv, DatagramsInv, Executes, Appends
      <3> QED
        BY <1>3, <2>0, <3>1 DEF Runs, Executes
    <2> SUFFICES ASSUME NEW d \in Clients, Quiet(d), NEW k \in 0..Len(asked[d]), RanInTurn(d, k)
                 PROVE  \E j \in 0..Len(asked[d]) : RanInTurn(d, j)'
      BY <2>2 DEF TurnsInv, Quiet, FirstServer
    <2>3. PICK m : m = Len(asked[c]) /\ m \in Nat
      BY <2>1, <2>2, LenFacts DEF Appends, Values
    <2>4. d = c
      <3>1. asked[c] # <<>>
        BY <1>0, <2>2, <2>3, Caller
      <3> QED
        BY <2>2, <3>1 DEF Quiet
    \* the only datagram of a call that was sent once
    <2>5. Len(runs[c][n]) = 0
      <3>1. Len(sent[c]) = m
        BY <1>0, <2>2, <2>3 DEF RpcInv, CallsInv
      <3>2. sent[c][n] = 1
        BY <2>2, <2>3, <2>4, <3>1 DEF Quiet
      <3>3. /\ IsFiniteSet(Pending(c, n)) /\ Len(runs[c][n]) + Cardinality(Pending(c, n)) <= 1
        BY <1>0, <2>2, <3>2 DEF RpcInv, CountInv
      <3>4. r \in Pending(c, n)
        BY <2>0 DEF Executes, Pending
      <3>5. Cardinality(Pending(c, n)) \in Nat /\ Cardinality(Pending(c, n)) # 0
        BY <3>3, <3>4, FS_CardinalityType, FS_EmptySet
      <3>6. Len(runs[c][n]) \in Nat
        BY <2>1 DEF Appends
      <3> QED
        BY <3>3, <3>5, <3>6
    <2>6. n = k + 1 /\ k \in Nat /\ n = m
      <3>1. k \in 0..m /\ Len(log[c]) <= k /\ ~(n <= k)
        BY <2>2, <2>3, <2>4, <2>5 DEF RanInTurn
      <3>2. Len(log[c]) \in Nat /\ m <= Len(log[c]) + 1
        <4>1. Len(log[c]) \in Nat
          BY <2>1, <2>2, LenFacts DEF Appends, Values
        <4>2. m = Len(log[c]) + 1 \/ m = Len(log[c])
          BY <1>0, <2>2, <2>3 DEF RpcInv, CallsInv
        <4> QED
          BY <4>1, <4>2
      <3> QED
        BY <2>2, <2>3, <3>1, <3>2
    <2>7. /\ Len(runs'[c][n]) = 1 /\ runs'[c][n][1] = x
          /\ \A i \in 1..m : i # n => runs'[c][i] = runs[c][i]
      <3>1. PICK b, p : b = runs[c][n] /\ p = Append(b, x)
        OBVIOUS
      <3>2. Len(b) = 0 /\ Len(p) = 1 /\ p[1] = x
        <4>1. Len(p) = Len(b) + 1 /\ p[Len(b) + 1] = x
          BY <2>1, <3>1 DEF Appends
        <4> QED
          BY <2>5, <3>1, <4>1
      <3>3. Len(runs[c]) = m
        BY <1>0, <2>2, <2>3 DEF RpcInv, CallsInv
      <3>4. runs'[c][n] = p /\ \A i \in 1..m : i # n => runs'[c][i] = runs[c][i]
        BY <2>1, <2>2, <3>1, <3>3 DEF Appends
      <3> QED
        BY <3>2, <3>4
    <2>8. ASSUME NEW f, Steps(FirstServer, asked[c], f)
          PROVE  f[n].server = server' /\ f[n].log = [i \in 1..n |-> runs'[c][i][1]]
      <3>1. /\ f[k].server = server /\ f[k].log = [i \in 1..k |-> runs[c][i][1]]
        BY <2>4, <2>8 DEF RanInTurn
      <3>2. n \in 0..Len(asked[c]) /\ n # 0 /\ n - 1 = k
        BY <2>3, <2>6
      <3>3. f[n] = [server |-> ServeAny(f[k].server, asked[c][n]).server,
                    log |-> Append(f[k].log, ServeAny(f[k].server, asked[c][n]).res)]
        BY <2>8, <3>2 DEF Steps
      <3>4. f[n].server = server' /\ f[n].log = Append(f[k].log, x)
        BY <2>2, <3>1, <3>3
      <3>5. PICK q : q = [i \in 1..k |-> runs[c][i][1]]
        OBVIOUS
      <3>6. q \in Seq(V) /\ Len(q) = k /\ x \in V
        <4>1. ASSUME NEW i \in 1..k PROVE runs[c][i][1] \in V
          <5>1. i \in 1..m /\ Len(runs[c]) = m /\ Len(runs[c][i]) = 1
            <6>1. i \in 1..m /\ i <= k
              BY <2>6
            <6>2. Len(runs[c]) = m
              BY <1>0, <2>2, <2>3 DEF RpcInv, CallsInv
            <6>3. Len(runs[c][i]) = 1
              BY <2>3, <2>4, <6>1 DEF RanInTurn
            <6> QED
              BY <6>1, <6>2, <6>3
          <5>2. runs[c] \in Seq(Seq(V))
            BY <2>1, <2>2 DEF Appends, Values
          <5>3. runs[c][i] \in Seq(V)
            BY <5>1, <5>2, LenFacts
          <5> QED
            BY <5>1, <5>3
        <4> QED
          <5>1. x \in V
            BY <2>1 DEF Appends
          <5>2. q \in Seq(V) /\ Len(q) = k
            BY <2>6, <3>5, <4>1
          <5> QED
            BY <5>1, <5>2
      <3>7. PICK p : p = Append(q, x)
        OBVIOUS
      <3>8. /\ p = [i \in 1..(k + 1) |-> p[i]] /\ p[k + 1] = x
            /\ \A i \in 1..k : p[i] = runs[c][i][1]
        <4>1. /\ p \in Seq(V) /\ Len(p) = k + 1 /\ p[k + 1] = x
              /\ \A i \in 1..k : p[i] = q[i]
          BY <3>6, <3>7, AppendFacts
        <4> QED
          BY <3>5, <4>1
      <3>9. ASSUME NEW i \in 1..(k + 1) PROVE p[i] = runs'[c][i][1]
        <4>1. CASE i = k + 1
          BY <2>6, <2>7, <3>8, <4>1
        <4>2. CASE i \in 1..k
          <5>1. i \in 1..m /\ i # n
            BY <2>6, <4>2
          <5>2. runs'[c][i] = runs[c][i]
            BY <2>7, <5>1
          <5> QED
            BY <3>8, <4>2, <5>2
        <4> QED
          BY <2>6, <4>1, <4>2
      <3>10. p = [i \in 1..n |-> runs'[c][i][1]]
        BY <2>6, <3>8, <3>9
      <3> QED
        BY <3>1, <3>4, <3>5, <3>7, <3>10
    <2>9. RanInTurn(c, n)'
      <3>1. Len(log[c]) <= n
        <4>1. Len(log[c]) \in Nat /\ Len(log[c]) <= k
          BY <2>1, <2>2, <2>4, LenFacts DEF Appends, Values, RanInTurn
        <4> QED
          BY <2>6, <4>1
      <3>2. ASSUME NEW i \in 1..Len(asked[c])
            PROVE  Len(runs'[c][i]) = IF i <= n THEN 1 ELSE 0
        <4>1. i \in 1..m /\ Len(runs[c][i]) = IF i <= k THEN 1 ELSE 0
          BY <2>3, <2>4 DEF RanInTurn
        <4>2. CASE i = n
          <5>1. n <= n
            BY <2>6
          <5> QED
            BY <2>7, <4>2, <5>1
        <4>3. CASE i # n
          <5>1. i <= k /\ i <= n
            BY <2>6, <4>1, <4>3
          <5>2. runs'[c][i] = runs[c][i]
            BY <2>7, <4>1, <4>3
          <5> QED
            BY <4>1, <5>1, <5>2
        <4> QED
          BY <4>2, <4>3
      <3> QED
        BY <2>2, <2>8, <3>1, <3>2 DEF RanInTurn, FirstServer
    <2> QED
      BY <2>2, <2>3, <2>4, <2>6, <2>9
  <1>4. ASSUME NEW c \in Clients, NEW l \in Legal(service), Calls(c, l) PROVE TurnsInv'
    <2>1. PICK V, m, q : Extends(V, m, q, c, l)
      BY <1>0, <1>4, CallsAt
    <2>2. /\ UNCHANGED <<service, server, gen>> /\ FirstServer' = FirstServer /\ log' = log
          /\ m \in Nat /\ Len(asked[c]) = m /\ Len(sent[c]) = m /\ Len(log[c]) = m
          /\ Len(asked'[c]) = m + 1 /\ Len(sent'[c]) = m + 1
          /\ runs'[c][m + 1] = <<>>
          /\ \A i \in 1..m : /\ asked'[c][i] = asked[c][i] /\ sent'[c][i] = sent[c][i]
                             /\ runs'[c][i] = runs[c][i]
          /\ \A d \in Clients : d # c => asked'[d] = asked[d]
          /\ asked[c] \in Seq(Legal(service)) /\ asked'[c] \in Seq(Legal(service))
      <3>1. UNCHANGED <<service, server, gen>> /\ FirstServer' = FirstServer
        BY <1>4 DEF Calls, FirstServer
      <3>2. asked[c] \in Seq(Legal(service))
        BY <2>1 DEF Extends, Values
      <3> QED
        BY <2>1, <3>1, <3>2 DEF Extends
    <2>3. PICK first : first = FirstServer
      OBVIOUS
    <2>4. /\ (\E f : Steps(first, asked[c], f)) => \E g : Steps(first, asked'[c], g)
          /\ \A g : Steps(first, asked'[c], g) =>
                \E f : Steps(first, asked[c], f) /\ \A i \in 0..m : f[i] = g[i]
      <3>1. PICK p, o, B : p = asked'[c] /\ o = asked[c] /\ B = Legal(service)
        OBVIOUS
      <3>2. /\ p \in Seq(B) /\ o \in Seq(B) /\ Len(p) = Len(o) + 1
            /\ \A i \in 1..Len(o) : p[i] = o[i]
        BY <2>2, <3>1
      <3>3. /\ (\E f : Steps(first, o, f)) => \E g : Steps(first, p, g)
            /\ \A g : Steps(first, p, g) =>
                \E f : Steps(first, o, f) /\ \A i \in 0..Len(o) : f[i] = g[i]
        <4>1. ASSUME NEW f, Steps(first, o, f) PROVE \E g : Steps(first, p, g)
          BY <3>2, <4>1, MoreSteps
        <4>2. ASSUME NEW g, Steps(first, p, g)
              PROVE  \E f : Steps(first, o, f) /\ \A i \in 0..Len(o) : f[i] = g[i]
          BY <3>2, <4>2, FewerSteps
        <4> QED
          BY <4>1, <4>2
      <3> QED
        BY <2>2, <3>1, <3>3
    <2>5. \A d \in Clients : \E f : Steps(first, asked'[d], f)
      BY <2>2, <2>3, <2>4 DEF TurnsInv
    <2>6. ASSUME NEW d \in Clients, Quiet(d)' PROVE \E k \in 0..Len(asked'[d]) : RanInTurn(d, k)'
      <3>1. d = c
        <4>1. asked'[c] # <<>>
          BY <2>2
        <4> QED
          BY <2>6, <4>1 DEF Quiet
      <3>2. Quiet(c)
        BY <2>2, <2>6, <3>1 DEF Quiet
      <3>3. PICK k \in 0..m : RanInTurn(c, k)
        BY <2>2, <3>2 DEF TurnsInv
      <3>4. k = m
        BY <2>2, <3>3 DEF RanInTurn
      <3>5. ASSUME NEW i \in 1..(m + 1) PROVE Len(runs'[c][i]) = IF i <= m THEN 1 ELSE 0
        <4>1. CASE i = m + 1
          BY <2>2, <4>1
        <4>2. CASE i \in 1..m
          BY <2>2, <3>3, <3>4, <4>2 DEF RanInTurn
        <4> QED
          BY <2>2, <4>1, <4>2
      <3>6. ASSUME NEW g, Steps(first, asked'[c], g)
            PROVE  g[m].server = server /\ g[m].log = [i \in 1..m |-> runs'[c][i][1]]
        <4>1. PICK f : Steps(first, asked[c], f) /\ \A i \in 0..m : f[i] = g[i]
          BY <2>4, <3>6
        <4>2. f[m].server = server /\ f[m].log = [i \in 1..m |-> runs[c][i][1]]
          BY <2>3, <3>3, <3>4, <4>1 DEF RanInTurn
        <4>3. [i \in 1..m |-> runs[c][i][1]] = [i \in 1..m |-> runs'[c][i][1]]
          BY <2>2
        <4>4. f[m] = g[m]
          BY <2>2, <4>1
        <4> QED
          BY <4>2, <4>3, <4>4
      <3>7. RanInTurn(c, m)'
        BY <2>2, <2>3, <3>5, <3>6 DEF RanInTurn
      <3>8. m \in 0..Len(asked'[d])
        BY <2>2, <3>1
      <3> QED
        BY <3>1, <3>7, <3>8
    <2> QED
      BY <2>2, <2>3, <2>5, <2>6 DEF TurnsInv
  <1>5. ASSUME NEW c \in Clients, Resends(c) PROVE TurnsInv'
    <2>1. PICK m : Again(c, m)
      BY <1>0, <1>5, ResendsAt
    <2>2. /\ UNCHANGED <<service, gen, asked, log>> /\ FirstServer' = FirstServer
          /\ m \in 1..Len(asked[c]) /\ m \in 1..Len(sent'[c])
          /\ sent'[c][m] # 1
      <3>1. sent[c][m] \in Nat /\ sent[c][m] >= 1 /\ m \in 1..Len(sent[c]) /\ m \in 1..Len(asked[c])
        BY <2>1 DEF Again, ConnInv
      <3>2. sent'[c][m] = sent[c][m] + 1 /\ Len(sent'[c]) = Len(sent[c])
        BY <2>1 DEF Again
      <3> QED
        BY <1>5, <3>1, <3>2 DEF Resends, FirstServer
    <2>3. asked[c] # <<>>
      BY <2>2
    <2>4. ASSUME NEW d \in Clients, Quiet(d)' PROVE FALSE
      BY <2>2, <2>3, <2>4 DEF Quiet
    <2> QED
      BY <2>2, <2>4 DEF TurnsInv
  <1>6. ASSUME NEW c \in Clients, NEW x, Returns(c, x), OwnAnswer(c, x) PROVE TurnsInv'
    <2>1. PICK V : Logged(V, c, x)
      BY <1>0, <1>6, ReturnsAt
    <2>2. /\ UNCHANGED <<service, server, gen, asked, sent, runs>> /\ FirstServer' = FirstServer
          /\ Len(asked[c]) = Len(log[c]) + 1
      BY <1>0, <1>6 DEF Returns, RpcInv, CallsInv, FirstServer
    <2>3. PICK m : m = Len(log[c])
      OBVIOUS
    <2>4. /\ m \in Nat /\ Len(asked[c]) = m + 1 /\ Len(log'[c]) = m + 1 /\ log'[c][m + 1] = x
          /\ \A i \in 1..m : log'[c][i] = log[c][i]
          /\ \A d \in Clients : d # c => log'[d] = log[d]
      BY <2>1, <2>2, <2>3 DEF Logged
    <2>5. ASSUME NEW d \in Clients, Quiet(d)' PROVE \E k \in 0..Len(asked[d]) : RanInTurn(d, k)'
      <3>1. d = c
        <4>1. asked[c] # <<>>
          BY <2>4
        <4> QED
          BY <2>2, <2>5, <4>1 DEF Quiet
      <3>2. Quiet(c)
        BY <2>2, <2>3, <2>4, <2>5, <3>1 DEF Quiet
      <3>3. PICK k \in 0..(m + 1) : RanInTurn(c, k)
        BY <2>4, <3>2 DEF TurnsInv
      <3>4. m + 1 <= k
        <4>1. x # Null
          BY <2>4, <2>5, <3>1 DEF Quiet
        <4>2. PICK i \in 1..Len(runs[c][m + 1]) : x = runs[c][m + 1][i]
          BY <1>0, <1>6, <2>4, <4>1 DEF OwnAnswer, RpcInv, DatagramsInv
        <4>3. Len(runs[c][m + 1]) # 0
          BY <4>2
        <4> QED
          BY <2>4, <3>3, <4>3 DEF RanInTurn
      <3>5. RanInTurn(c, k)'
        BY <2>2, <2>4, <3>3, <3>4 DEF RanInTurn
      <3> QED
        BY <2>4, <3>1, <3>3, <3>5
    <2> QED
      BY <2>2, <2>5 DEF TurnsInv
  <1> QED
    BY <1>2, <1>3, <1>4, <1>5, <1>6 DEF RpcStep

-----------------------------------------------------------------------------
(***************************************************************************)
(* What the user of ftp sees                                               *)
(***************************************************************************)
Words == Nat \cup {Blank}

\* Word j of what is sent and printed: after the last one of the file, that one again.
Word(j) ==
    IF file.words = <<>> THEN Blank
    ELSE file.words[IF j <= Len(file.words) THEN j ELSE Len(file.words)]

\* What is printed, on its way and not yet read is the file, in order.
WordsInv ==
    /\ rest \in Seq(Nat) /\ data \in Seq(Words) /\ got \in Seq(Words)
    /\ IF eof
       THEN Len(got) + Len(data) >= Len(file.words)
       ELSE /\ Len(got) + Len(data) + Len(rest) = Len(file.words)
            /\ buf = IF Len(got) + Len(data) = 0 THEN Blank
                     ELSE file.words[Len(got) + Len(data)]
    /\ \A j \in 1..Len(rest) : rest[j] = file.words[Len(file.words) - Len(rest) + j]
    /\ \A j \in 1..Len(got) : got[j] = Word(j)
    /\ \A j \in 1..Len(data) : data[j] = Word(Len(got) + j)

\* A server that has sent nothing more to send, or whose client has left, ends; without
\* a connection nothing of the file is read.
TransferInv ==
    /\ T!TypeOK /\ file \in FtpFiles \cup {Null}
    /\ file = Null => got \in Seq({Blank}) /\ data = <<>> /\ ft_server # "send"
    /\ file # Null /\ ~linked => rest = file.words /\ ~eof /\ buf = Blank
    /\ file # Null /\ linked =>
          /\ WordsInv
          /\ ft_server = "sent" => eof
          /\ ft_server = "ended" => ft_client = "left"

LEMMA HeadFacts ==
    ASSUME NEW A, NEW q \in Seq(A), q # <<>>
    PROVE  /\ Len(q) \in Nat \ {0} /\ Head(q) \in A /\ Head(q) = q[1]
           /\ Tail(q) \in Seq(A) /\ Len(Tail(q)) = Len(q) - 1
           /\ \A j \in 1..(Len(q) - 1) : Tail(q)[j] = q[j + 1]
  OBVIOUS

LEMMA FileFacts ==
    ASSUME file \in FtpFiles
    PROVE  /\ file.words \in Seq(Nat) /\ Len(file.words) \in Nat /\ file.newline \in BOOLEAN
           /\ file.words = <<>> <=> Len(file.words) = 0
           /\ \A j \in 1..Len(file.words) : file.words[j] \in Nat
  <1>1. file.words \in Seq(Nat) /\ file.newline \in BOOLEAN
    BY FtpAssumption
  <1>2. PICK w : w = file.words
    OBVIOUS
  <1>3. /\ w \in Seq(Nat) /\ Len(w) \in Nat /\ (w = <<>> <=> Len(w) = 0)
        /\ \A j \in 1..Len(w) : w[j] \in Nat
    BY <1>1, <1>2, LenFacts, EmptySeq
  <1> QED
    BY <1>1, <1>2, <1>3

\* The loop: the next word, or the last one again.
LEMMA RoundWords ==
    ASSUME file \in FtpFiles, file # Null, WordsInv, T!Round
    PROVE  WordsInv'
  <1>0. /\ file.words \in Seq(Nat) /\ Len(file.words) \in Nat /\ file.newline \in BOOLEAN
        /\ file.words = <<>> <=> Len(file.words) = 0
        /\ \A j \in 1..Len(file.words) : file.words[j] \in Nat
    BY FileFacts
  <1>1. /\ ~eof /\ data' = Append(data, buf') /\ got' = got /\ file' = file
        /\ T!fscanf
    BY DEF T!Round, T!fixed
  <1>2. PICK k, g, d : g = Len(got) /\ d = Len(data) /\ k = g + d
    OBVIOUS
  <1>3. /\ rest \in Seq(Nat) /\ data \in Seq(Words) /\ got \in Seq(Words)
        /\ g \in Nat /\ d \in Nat /\ k \in Nat /\ Len(rest) \in Nat
        /\ k + Len(rest) = Len(file.words)
        /\ buf = IF k = 0 THEN Blank ELSE file.words[k]
    BY <1>1, <1>2, LenFacts DEF WordsInv
  \* whatever was read is the word that comes next
  <1>4. ASSUME buf' \in Words, buf' = Word(k + 1)
        PROVE  /\ data' \in Seq(Words) /\ Len(got') + Len(data') = k + 1 /\ got' \in Seq(Words)
               /\ \A j \in 1..Len(got') : got'[j] = Word(j)
               /\ \A j \in 1..Len(data') : data'[j] = Word(Len(got') + j)
    <2>1. PICK b, q : b = buf' /\ q = data'
      OBVIOUS
    <2>2. /\ q \in Seq(Words) /\ Len(q) = d + 1 /\ q[d + 1] = b
          /\ \A j \in 1..d : q[j] = data[j]
      BY <1>1, <1>2, <1>3, <1>4, <2>1, AppendFacts
    <2>4. ASSUME NEW j \in 1..(d + 1) PROVE q[j] = Word(g + j)
      <3>1. CASE j = d + 1
        BY <1>2, <1>3, <1>4, <2>1, <2>2, <3>1
      <3>2. CASE j \in 1..d
        BY <1>2, <2>2, <3>2 DEF WordsInv
      <3> QED
        BY <1>3, <3>1, <3>2
    <2>5. \A j \in 1..g : got[j] = Word(j)
      BY <1>2 DEF WordsInv
    <2>6. /\ q \in Seq(Words) /\ g + Len(q) = k + 1 /\ got \in Seq(Words)
          /\ \A j \in 1..Len(q) : q[j] = Word(g + j)
      BY <1>2, <1>3, <2>2, <2>4
    <2>7. data' = q /\ got' = got /\ Len(got) = g
      BY <1>1, <1>2, <2>1
    <2> QED
      BY <2>5, <2>6, <2>7
  <1>7. \A j : Word(j)' = Word(j)
    BY <1>1 DEF Word
  <1>5. CASE rest = <<>>
    <2>1. eof' = TRUE /\ rest' = <<>> /\ buf' = buf
      BY <1>1, <1>5 DEF T!fscanf
    <2>2. k = Len(file.words)
      BY <1>3, <1>5
    <2>3. buf \in Words /\ buf = Word(k + 1) /\ k + 1 >= Len(file.words)
      BY <1>0, <1>3, <1>5, <2>2 DEF Word, Words
    <2>4. rest' \in Seq(Nat) /\ \A j : j \notin 1..Len(rest')
      BY <2>1
    <2> QED
      BY <1>1, <1>4, <1>7, <2>1, <2>3, <2>4 DEF WordsInv
  <1>6. CASE rest # <<>>
    <2>1. /\ buf' = Head(rest) /\ rest' = Tail(rest)
          /\ eof' = (Len(rest) = 1 /\ ~file.newline)
      BY <1>1, <1>6 DEF T!fscanf
    <2>2. PICK n, t : n = Len(rest) /\ t = Tail(rest)
      OBVIOUS
    <2>3. /\ n \in Nat \ {0} /\ Head(rest) \in Nat /\ Head(rest) = rest[1]
          /\ t \in Seq(Nat) /\ Len(t) = n - 1 /\ \A j \in 1..(n - 1) : t[j] = rest[j + 1]
      BY <1>3, <1>6, <2>2, HeadFacts
    <2>4. \A j \in 1..n : rest[j] = file.words[Len(file.words) - n + j]
      BY <2>2 DEF WordsInv
    <2>5. k + 1 \in 1..Len(file.words) /\ Len(file.words) = k + n
      BY <1>3, <2>2, <2>3
    <2>6. Head(rest) = file.words[k + 1]
      <3>1. Len(file.words) - n + 1 = k + 1 /\ 1 \in 1..n
        BY <1>3, <2>3, <2>5
      <3> QED
        BY <2>3, <2>4, <3>1
    <2>7. buf' \in Words /\ buf' = Word(k + 1)
      BY <1>0, <2>1, <2>3, <2>5, <2>6 DEF Word, Words
    <2>8. ASSUME NEW j \in 1..Len(rest')
          PROVE  rest'[j] = file'.words[Len(file'.words) - Len(rest') + j]
      <3>1. rest' = t /\ j \in 1..(n - 1) /\ j + 1 \in 1..n
        BY <2>1, <2>2, <2>3
      <3>2. rest[j + 1] = file.words[Len(file.words) - n + (j + 1)]
        BY <2>4, <3>1
      <3>3. Len(file.words) - n + (j + 1) = Len(file.words) - (n - 1) + j
        <4>1. \A x, y, z \in Nat : x - y + (z + 1) = x - (y - 1) + z
          OBVIOUS
        <4>2. Len(file.words) \in Nat
          BY <1>0
        <4>3. n \in Nat /\ j \in Nat
          BY <2>3, <3>1
        <4> QED
          BY <4>1, <4>2, <4>3
      <3> QED
        BY <1>1, <2>3, <3>1, <3>2, <3>3
    <2>9. CASE eof'
      <3>1. k + 1 >= Len(file.words)
        <4>1. n = 1
          BY <2>1, <2>2, <2>9
        <4> QED
          BY <2>5, <4>1
      <3>2. rest' \in Seq(Nat)
        BY <2>1, <2>2, <2>3
      <3> QED
        BY <1>1, <1>4, <1>7, <2>7, <2>8, <2>9, <3>1, <3>2 DEF WordsInv
    <2>10. CASE ~eof'
      <3>1. Len(rest') = n - 1 /\ rest' \in Seq(Nat)
        BY <2>1, <2>2, <2>3
      <3>2. Len(got') + Len(data') = k + 1
        BY <1>4, <2>7
      <3>3. Len(got') + Len(data') + Len(rest') = Len(file'.words)
        <4>1. k + 1 + (n - 1) = k + n
          BY <1>3, <2>3
        <4> QED
          BY <1>1, <2>5, <3>1, <3>2, <4>1
      <3>4. buf' = IF Len(got') + Len(data') = 0 THEN Blank
                   ELSE file'.words[Len(got') + Len(data')]
        BY <1>1, <1>3, <2>1, <2>6, <3>2
      <3> QED
        BY <1>4, <1>7, <2>7, <2>8, <2>10, <3>1, <3>3, <3>4 DEF WordsInv
    <2> QED
      BY <2>9, <2>10
  <1> QED
    BY <1>5, <1>6

LEMMA ReadsWords ==
    ASSUME WordsInv, T!ClientReads
    PROVE  WordsInv'
  <1>1. /\ data # <<>> /\ got' = Append(got, Head(data)) /\ data' = Tail(data)
        /\ UNCHANGED <<file, rest, eof, buf>>
    BY DEF T!ClientReads, T!fixed, T!reading
  <1>2. PICK g, d, h, p, t : /\ g = Len(got) /\ d = Len(data) /\ h = Head(data)
                             /\ p = Append(got, h) /\ t = Tail(data)
    OBVIOUS
  <1>3. data \in Seq(Words) /\ got \in Seq(Words)
    BY DEF WordsInv
  <1>4. /\ d \in Nat \ {0} /\ h \in Words /\ h = data[1]
        /\ t \in Seq(Words) /\ Len(t) = d - 1 /\ \A j \in 1..(d - 1) : t[j] = data[j + 1]
    BY <1>1, <1>2, <1>3, HeadFacts
  <1>5. /\ p \in Seq(Words) /\ Len(p) = g + 1 /\ g \in Nat /\ p[g + 1] = h
        /\ \A j \in 1..g : p[j] = got[j]
    BY <1>2, <1>3, <1>4, AppendFacts
  <1>6. \A j : Word(j)' = Word(j)
    BY <1>1 DEF Word
  <1>7. /\ \A j \in 1..g : got[j] = Word(j)
        /\ \A j \in 1..d : data[j] = Word(g + j)
    BY <1>2 DEF WordsInv
  <1>8. ASSUME NEW j \in 1..(g + 1) PROVE p[j] = Word(j)
    <2>1. CASE j = g + 1
      BY <1>4, <1>5, <1>7, <2>1
    <2>2. CASE j \in 1..g
      BY <1>5, <1>7, <2>2
    <2> QED
      BY <1>5, <2>1, <2>2
  <1>9. ASSUME NEW j \in 1..(d - 1) PROVE t[j] = Word(g + 1 + j)
    <2>1. j + 1 \in 1..d /\ g + (j + 1) = g + 1 + j
      BY <1>4, <1>5
    <2> QED
      BY <1>4, <1>7, <2>1
  <1>10. got' = p /\ data' = t /\ Len(got') + Len(data') = Len(got) + Len(data)
    BY <1>1, <1>2, <1>4, <1>5
  <1> QED
    BY <1>1, <1>4, <1>5, <1>6, <1>8, <1>9, <1>10 DEF WordsInv

\* Once nothing more can come the last word is printed again.
LEMMA RepeatsWords ==
    ASSUME file \in FtpFiles, WordsInv, eof, T!ClientRepeats
    PROVE  WordsInv'
  <1>1. PICK g, w, l : /\ g = Len(got) /\ w = file.words
                       /\ l = IF got = <<>> THEN Blank ELSE got[Len(got)]
    OBVIOUS
  <1>2. /\ data = <<>> /\ data' = data /\ got' = Append(got, l)
        /\ UNCHANGED <<file, rest, eof, buf>>
    BY <1>1 DEF T!ClientRepeats, T!fixed, T!reading
  <1>3. /\ got \in Seq(Words) /\ g \in Nat /\ g >= Len(w)
        /\ \A j \in 1..g : got[j] = Word(j)
    <2>1. /\ got \in Seq(Words) /\ g \in Nat /\ g + Len(data) >= Len(w)
          /\ \A j \in 1..g : got[j] = Word(j)
      BY <1>1, LenFacts DEF WordsInv
    <2>2. Len(data) = 0
      BY <1>2
    <2> QED
      BY <2>1, <2>2
  <1>4. Len(w) \in Nat /\ (w = <<>> <=> Len(w) = 0) /\ \A j \in 1..Len(w) : w[j] \in Nat
    BY <1>1, FileFacts
  <1>5. l \in Words /\ l = Word(g + 1)
    <2>1. CASE g = 0
      <3>1. w = <<>>
        BY <1>3, <1>4, <2>1
      <3>2. got = <<>>
        BY <1>1, <1>3, <2>1, EmptySeq
      <3> QED
        BY <1>1, <3>1, <3>2 DEF Word, Words
    <2>2. CASE g # 0
      <3>1. l = got[g] /\ g \in 1..g
        BY <1>1, <1>3, <2>2
      <3>2. l = Word(g)
        BY <1>3, <3>1
      <3>3. CASE w = <<>>
        BY <1>1, <3>2, <3>3 DEF Word, Words
      <3>4. CASE w # <<>>
        <4>1. (IF g <= Len(w) THEN g ELSE Len(w)) = Len(w) /\ ~(g + 1 <= Len(w))
          BY <1>3, <1>4
        <4>2. l = w[Len(w)] /\ Len(w) \in 1..Len(w)
          BY <1>1, <1>4, <3>2, <3>4, <4>1 DEF Word
        <4> QED
          BY <1>1, <1>4, <3>4, <4>1, <4>2 DEF Word, Words
      <3> QED
        BY <3>3, <3>4
    <2> QED
      BY <2>1, <2>2
  <1>6. PICK p : p = Append(got, l)
    OBVIOUS
  <1>7. /\ p \in Seq(Words) /\ Len(p) = g + 1 /\ p[g + 1] = l
        /\ \A j \in 1..g : p[j] = got[j]
    BY <1>1, <1>3, <1>5, <1>6, AppendFacts
  <1>8. ASSUME NEW j \in 1..(g + 1) PROVE p[j] = Word(j)
    <2>1. CASE j = g + 1
      BY <1>5, <1>7, <2>1
    <2>2. CASE j \in 1..g
      BY <1>3, <1>7, <2>2
    <2> QED
      BY <1>3, <2>1, <2>2
  <1>9. \A j : Word(j)' = Word(j)
    BY <1>2 DEF Word
  <1>10. /\ got' = p /\ Len(got') + Len(data') >= Len(file'.words)
         /\ data' \in Seq(Words) /\ \A j : j \notin 1..Len(data')
    BY <1>1, <1>2, <1>3, <1>4, <1>6, <1>7
  <1> QED
    BY <1>2, <1>7, <1>8, <1>9, <1>10 DEF WordsInv

\* Before anything was read.
LEMMA Nothing ==
    /\ <<>> \in Seq({Blank})
    /\ /\ file \in FtpFiles /\ rest = file.words /\ ~eof
       /\ buf = Blank /\ data = <<>> /\ got = <<>>
       => WordsInv
  <1>1. <<>> \in Seq({Blank})
    OBVIOUS
  <1>2. ASSUME file \in FtpFiles, rest = file.words, ~eof, buf = Blank, data = <<>>, got = <<>>
        PROVE  WordsInv
    <2>1. PICK w : w = file.words /\ w \in Seq(Nat) /\ Len(w) \in Nat
      BY <1>2, FileFacts
    <2>2. \A j \in 1..Len(w) : w[j] = w[Len(w) - Len(w) + j]
      BY <2>1
    <2> QED
      BY <1>2, <2>1, <2>2 DEF WordsInv
  <1> QED
    BY <1>1, <1>2

\* A connection is made before anything was read or printed.
LEMMA Connects ==
    ASSUME TransferInv, FtpInv, T!TypeOK', ~linked, linked',
           UNCHANGED <<file, rest, eof, buf, data, got>>,
           ft_client \in {"connect", "listening"}, ft_server' \in {"listening", "fopen"}
    PROVE  TransferInv'
  <1>1. data = <<>> /\ got = <<>>
    BY DEF FtpInv
  <1>2. file # Null => WordsInv
    BY <1>1, Nothing DEF TransferInv
  <1> QED
    BY <1>2 DEF TransferInv, WordsInv, Word

LEMMA TransferStep ==
    ASSUME TransferInv, FtpInv, T!Next
    PROVE  TransferInv'
  <1> USE DEF T!fixed, T!reading
  <1>1. T!TypeOK'
    <2> USE DEF TransferInv, T!TypeOK
    <2>1. CASE T!ServerStart \/ T!ClientStart \/ T!ClientLeaves
      BY <2>1 DEF T!ServerStart, T!ClientStart, T!ClientLeaves
    <2>2. CASE T!ServerReadsBoth \/ T!ServerSendsPort \/ T!ServerReadsName \/ T!ServerReadsEnd
      BY <2>2 DEF T!ServerReadsBoth, T!ServerSendsPort, T!ServerReadsName, T!ServerReadsEnd
    <2>3. CASE T!ServerListens \/ T!ServerConnects \/ T!ServerAccepts \/ T!FileOpens
      BY <2>3 DEF T!ServerListens, T!ServerConnects, T!ServerAccepts, T!FileOpens
    <2>4. CASE T!Round
      BY <2>4 DEF T!Round, T!fscanf
    <2>5. CASE T!ClientSendsBoth \/ T!ClientSendsName \/ T!ClientListens \/ T!ClientConnects
                \/ T!ClientAccepts \/ T!ClientReads \/ T!ClientRepeats
      BY <2>5 DEF T!ClientSendsBoth, T!ClientSendsName, T!ClientListens, T!ClientConnects,
                  T!ClientAccepts, T!ClientReads, T!ClientRepeats
    <2> QED
      BY <2>1, <2>2, <2>3, <2>4, <2>5 DEF T!Next, T!ServerStep, T!ClientStep
  <1>2. CASE T!Round
    <2>1. /\ ft_server = "send" /\ UNCHANGED <<file, linked, ft_client>>
          /\ IF eof' THEN ft_server' \in {"sent", "ended"} ELSE ft_server' \in {"send", "ended"}
          /\ ft_server' = "ended" => ft_client = "left"
      BY <1>2 DEF T!Round
    <2>2. linked /\ file \in FtpFiles /\ file # Null /\ WordsInv
      BY <2>1 DEF TransferInv, FtpInv
    <2>3. WordsInv'
      BY <1>2, <2>2, RoundWords
    <2> QED
      BY <1>1, <2>1, <2>2, <2>3 DEF TransferInv
  <1>3. CASE T!ClientReads
    <2>1. data # <<>> /\ UNCHANGED <<file, eof, linked, ft_server, ft_client>>
      BY <1>3 DEF T!ClientReads
    <2>2. file # Null /\ linked /\ WordsInv /\ file \in FtpFiles
      BY <2>1 DEF TransferInv, FtpInv
    <2>3. WordsInv'
      BY <1>3, <2>2, ReadsWords
    <2> QED
      BY <1>1, <2>1, <2>2, <2>3 DEF TransferInv
  <1>4. CASE T!ClientRepeats
    <2>1. /\ T!NothingComes
          /\ UNCHANGED <<file, rest, eof, buf, data, linked, ft_server, ft_client>>
      BY <1>4 DEF T!ClientRepeats
    <2>2. CASE file = Null \/ ~linked
      <3>1. file = Null => got' \in Seq({Blank})
        BY <1>4, BlankRepeats DEF TransferInv
      <3> QED
        BY <1>1, <2>1, <2>2, <3>1 DEF TransferInv
    <2>3. CASE file # Null /\ linked
      <3>1. eof /\ file \in FtpFiles /\ WordsInv
        BY <2>1, <2>3 DEF TransferInv, FtpInv, T!NothingComes, T!TypeOK
      <3>2. WordsInv'
        BY <1>4, <3>1, RepeatsWords
      <3> QED
        BY <1>1, <2>1, <2>3, <3>1, <3>2 DEF TransferInv
    <2> QED
      BY <2>2, <2>3
  <1>5. CASE T!FileOpens
    <2>1. /\ UNCHANGED <<file, rest, eof, buf, data, got, linked, ft_client>>
          /\ ft_server' = IF file # Null /\ linked THEN "send" ELSE "ended"
      BY <1>5 DEF T!FileOpens
    <2> QED
      BY <1>1, <2>1 DEF TransferInv, WordsInv, Word
  \* nothing of the file moves, and no server starts or stops sending it
  <1>6. ASSUME UNCHANGED <<file, rest, eof, buf, data, got, linked>>,
               \/ ft_server' = ft_server
               \/ ft_server' \in {"accept", "connect", "name", "open", "listening", "fopen"},
               ft_client = "left" => ft_client' = "left"
        PROVE  TransferInv'
    <2>1. WordsInv => WordsInv'
      BY <1>6 DEF WordsInv, Word
    <2> QED
      BY <1>1, <1>6, <2>1 DEF TransferInv
  <1>7. CASE T!ServerStart \/ T!ClientStart \/ T!ClientLeaves
    BY <1>6, <1>7 DEF T!ServerStart, T!ClientStart, T!ClientLeaves
  <1>8. CASE T!ServerReadsBoth \/ T!ServerSendsPort \/ T!ServerReadsName \/ T!ServerReadsEnd
    BY <1>6, <1>8 DEF T!ServerReadsBoth, T!ServerSendsPort, T!ServerReadsName, T!ServerReadsEnd
  <1>9. CASE T!ServerListens \/ T!ServerAccepts
    BY <1>6, <1>9 DEF T!ServerListens, T!ServerAccepts
  <1>10. CASE T!ClientSendsBoth \/ T!ClientSendsName \/ T!ClientListens \/ T!ClientAccepts
    BY <1>6, <1>10 DEF T!ClientSendsBoth, T!ClientSendsName, T!ClientListens, T!ClientAccepts
  <1>11. CASE T!ServerConnects
    <2>1. /\ ~linked /\ ft_server = "connect" /\ linked' = (ft_client = "listening")
          /\ ft_server' = IF linked' THEN "fopen" ELSE "unconnected"
          /\ UNCHANGED <<file, rest, eof, buf, data, got, ft_client>>
      BY <1>11 DEF T!ServerConnects, FtpInv
    <2>2. CASE linked'
      BY <1>1, <2>1, <2>2, Connects
    <2>3. CASE ~linked'
      BY <1>1, <2>1, <2>3 DEF TransferInv
    <2> QED
      BY <2>2, <2>3
  <1>12. CASE T!ClientConnects
    <2>1. /\ ~linked /\ ft_client = "connect" /\ linked' = (ft_server = "listening")
          /\ UNCHANGED <<file, rest, eof, buf, data, got, ft_server>>
      BY <1>12 DEF T!ClientConnects, FtpInv
    <2>2. CASE linked'
      BY <1>1, <2>1, <2>2, Connects
    <2>3. CASE ~linked'
      BY <1>1, <2>1, <2>3 DEF TransferInv
    <2> QED
      BY <2>2, <2>3
  <1> QED
    BY <1>2, <1>3, <1>4, <1>5, <1>7, <1>8, <1>9, <1>10, <1>11, <1>12
       DEF T!Next, T!ServerStep, T!ClientStep

-----------------------------------------------------------------------------
(***************************************************************************)
(* The theorems                                                            *)
(***************************************************************************)

\* The server executes a call at most once for each transmission of its request, for
\* any number of clients, calls, retransmissions and restarts, although svc_run keeps no
\* record of what it executed (src/rpc/nfs/nfs_svc.c).
THEOREM NoMoreRunsThanSent == Spec => []N!RunsWithinSent
  <1>1. ASSUME Inv PROVE N!RunsWithinSent
    <2> SUFFICES ASSUME NEW c \in Clients, NEW n \in DOMAIN runs[c]
                 PROVE  Len(runs[c][n]) <= sent[c][n]
      BY DEF N!RunsWithinSent
    <2>1. PICK V : Values(V)
      BY <1>1 DEF Inv, RpcInv
    <2>2. /\ n \in 1..Len(runs[c]) /\ n \in 1..Len(asked[c]) /\ n \in 1..Len(sent[c])
      BY <1>1, <2>1, LenFacts DEF Values, Inv, RpcInv, CallsInv
    <2>3. Len(runs[c][n]) \in Nat /\ sent[c][n] \in Nat
      BY <2>1, <2>2, LenFacts DEF Values
    <2>4. /\ Cardinality(Pending(c, n)) \in Nat
          /\ Len(runs[c][n]) + Cardinality(Pending(c, n)) <= sent[c][n]
      BY <1>1, <2>2, FS_CardinalityType DEF Inv, RpcInv, CountInv
    <2> QED
      BY <2>3, <2>4
  <1>2. Inv => N!RunsWithinSent
    BY <1>1
  <1> QED
    BY <1>2, Invariance, PTL

-----------------------------------------------------------------------------
(***************************************************************************)
(* What the users see is right                                             *)
(***************************************************************************)
SeenInit ==
    /\ gen = 0 /\ up = FALSE /\ bound = [c \in Clients |-> 0] /\ server = FirstServer
    /\ asked = [c \in Clients |-> <<>>] /\ sent = [c \in Clients |-> <<>>]
    /\ log = [c \in Clients |-> <<>>] /\ runs = [c \in Clients |-> <<>>] /\ requests = {}

LEMMA InitSeen == Init => SeenInv /\ TransferInv
  <1> SUFFICES ASSUME Init PROVE SeenInv /\ TransferInv
    OBVIOUS
  <1>1. SeenInit
    BY DEF Init, N!Init, S!Init, SeenInit, FirstServer
  <1>2. ConnInv /\ ResultsInv
    <2>1. \A c \in Clients : Len(asked[c]) = 0 /\ Len(sent[c]) = 0 /\ Len(runs[c]) = 0
                               /\ Len(log[c]) = 0
      BY <1>1 DEF SeenInit
    <2>2. 0 <= MaxStarts /\ bound \in [Clients -> 0 .. gen]
      BY <1>1, BoundsAssumption DEF SeenInit
    <2>3. ConnInv
      <3>1. gen <= MaxStarts /\ up \in BOOLEAN /\ server = FirstServer /\ requests = {}
        BY <1>1, <2>2 DEF SeenInit
      <3>2. \A c \in Clients : ~(Len(asked[c]) > 0) /\ 1..Len(sent[c]) = {}
        BY <2>1
      <3> QED
        BY <2>2, <3>1, <3>2 DEF ConnInv
    <2>4. ResultsInv
      BY <2>1 DEF ResultsInv, RunsRight, OwnResults
    <2> QED
      BY <2>3, <2>4
  <1>3. TurnsInv
    <2>1. ASSUME NEW c \in Clients PROVE \E f : Steps(FirstServer, asked[c], f)
      BY <1>1, NoTurns DEF SeenInit
    <2> QED
      BY <1>1, <2>1 DEF SeenInit, TurnsInv, Quiet
  <1>4. ASSUME IdleFtp PROVE TransferInv
    BY <1>4, Nothing DEF IdleFtp, TransferInv, T!TypeOK
  <1>5. ASSUME T!Init PROVE TransferInv
    <2>1. T!TypeOK /\ file \in FtpFiles \cup {Null} /\ ft_server # "send"
      BY <1>5 DEF T!Init, T!TypeOK
    <2> QED
      BY <1>5, <2>1, Nothing DEF T!Init, TransferInv
  <1> QED
    BY <1>2, <1>3, <1>4, <1>5 DEF Init, SeenInv

LEMMA NextSeen ==
    ASSUME Inv, SeenInv, TransferInv, [Next]_vars
    PROVE  SeenInv' /\ TransferInv'
  <1>1. ASSUME UNCHANGED rpc, service' = service PROVE SeenInv'
    <2>1. /\ UNCHANGED <<server, gen, up, bound, asked, sent, log, requests, runs>>
          /\ FirstServer' = FirstServer
      BY <1>1 DEF rpc, FirstServer
    <2>2. ConnInv' /\ ResultsInv'
      BY <2>1 DEF SeenInv, ConnInv, ResultsInv
    <2>3. \A c \in Clients : Quiet(c)' => Quiet(c)
      BY <2>1 DEF Quiet
    <2>4. ASSUME NEW c \in Clients, NEW k, RanInTurn(c, k) PROVE RanInTurn(c, k)'
      BY <2>1, <2>4 DEF RanInTurn
    <2>5. TurnsInv'
      BY <2>1, <2>3, <2>4 DEF SeenInv, TurnsInv
    <2> QED
      BY <2>2, <2>5 DEF SeenInv
  <1>2. ASSUME UNCHANGED ftp PROVE TransferInv'
    BY <1>2 DEF TransferInv, T!TypeOK, WordsInv, Word, ftp
  <1>3. ASSUME RpcStep PROVE SeenInv'
    BY <1>3, ConnStep, ResultsStep, TurnsStep DEF SeenInv
  <1>4. CASE Nfs
    BY <1>2, <1>3, <1>4, NfsStep DEF Inv, Nfs, InNfs
  <1>5. CASE Sums
    BY <1>2, <1>3, <1>5, SumsStep DEF Inv, Sums, InSums
  <1>6. CASE Transfer
    BY <1>1, <1>6, TransferStep DEF Inv, Transfer, InFtp
  <1>7. CASE UNCHANGED vars
    BY <1>1, <1>2, <1>7 DEF vars
  <1> QED
    BY <1>4, <1>5, <1>6, <1>7 DEF Next

LEMMA TypesHold ==
    ASSUME Inv, SeenInv
    PROVE  N!TypeOK
  <1>0. RpcInv /\ gen \in Nat /\ ConnInv
    BY DEF Inv, DataInv, SeenInv
  <1>1. PICK V : Values(V)
    BY <1>0 DEF RpcInv
  <1>2. gen \in 0 .. MaxStarts /\ up \in BOOLEAN
    BY <1>0, BoundsAssumption DEF ConnInv
  <1>3. bound \in [Clients -> 0 .. MaxStarts]
    <2>1. \A i \in 0 .. gen : i \in 0 .. MaxStarts
      BY <1>2, BoundsAssumption
    <2> QED
      BY <1>0, <2>1 DEF ConnInv
  <1>4. ASSUME NEW c \in Clients
        PROVE  /\ Len(sent[c]) = Len(asked[c]) /\ Len(runs[c]) = Len(asked[c])
               /\ Len(log[c]) = Len(asked[c]) - (IF state[c] = "calling" THEN 1 ELSE 0)
               /\ \A n \in DOMAIN sent[c] : sent[c][n] \in 1 .. MaxTries
    <2>1. DOMAIN sent[c] = 1..Len(sent[c]) /\ Len(log[c]) \in Nat
      BY <1>1, LenFacts DEF Values
    <2>2. \A n \in DOMAIN sent[c] : sent[c][n] \in 1 .. MaxTries
      BY <1>0, <2>1 DEF ConnInv
    <2>3. CASE state[c] = "calling"
      BY <1>0, <2>1, <2>2, <2>3 DEF RpcInv, CallsInv
    <2>4. CASE state[c] # "calling"
      BY <1>0, <2>1, <2>2, <2>4 DEF RpcInv, CallsInv
    <2> QED
      BY <2>3, <2>4
  <1>5. \A r \in requests : r.call \in DOMAIN asked[r.from] /\ r.gen <= gen
    BY <1>0, <1>1, LenFacts DEF ConnInv, RpcInv, DatagramsInv, Values
  <1>6. \A r \in replies : r.call \in DOMAIN asked[r.to]
    BY <1>0, <1>1, LenFacts DEF RpcInv, DatagramsInv, Values
  <1> QED
    BY <1>1, <1>2, <1>3, <1>4, <1>5, <1>6 DEF N!TypeOK, Values

LEMMA ExactHolds ==
    ASSUME Inv, SeenInv
    PROVE  Exact
  <1> SUFFICES ASSUME NEW c \in Clients, NEW n \in DOMAIN log[c], log[c][n] # Null
               PROVE  Right(asked[c][n], log[c][n])
    BY DEF Exact, Right
  <1>1. RpcInv /\ ResultsInv
    BY DEF Inv, SeenInv
  <1>2. PICK V : Values(V)
    BY <1>1 DEF RpcInv
  <1>3. n \in 1..Len(log[c]) /\ n \in 1..Len(runs[c])
    <2>1. DOMAIN log[c] = 1..Len(log[c]) /\ Len(log[c]) \in Nat
      BY <1>2, LenFacts DEF Values
    <2> QED
      BY <1>1, <2>1 DEF RpcInv, CallsInv
  <1>4. PICK m \in 1..Len(runs[c][n]) : log[c][n] = runs[c][n][m]
    BY <1>1, <1>3 DEF ResultsInv, RunsRight, OwnResults
  <1> QED
    BY <1>1, <1>3, <1>4 DEF ResultsInv, RunsRight, OwnResults

LEMMA TurnsHold ==
    ASSUME Inv, SeenInv
    PROVE  AloneInOrder
  <1> SUFFICES ASSUME NEW c \in Clients, N!Quick(c)
               PROVE  InTurn(c) = [server |-> server, log |-> log[c]]
    BY DEF AloneInOrder
  <1>1. RpcInv /\ ResultsInv /\ TurnsInv
    BY DEF Inv, SeenInv
  <1>2. PICK V : Values(V)
    BY <1>1 DEF RpcInv
  <1>3. PICK m : m = Len(asked[c]) /\ m \in Nat
    BY <1>2, LenFacts DEF Values
  <1>4. /\ Len(sent[c]) = m /\ Len(log[c]) = m /\ Len(runs[c]) = m
        /\ DOMAIN asked[c] = 1..m /\ log[c] \in Seq(V)
    BY <1>1, <1>2, <1>3, LenFacts DEF RpcInv, CallsInv, Values, N!Quick
  <1>5. Quiet(c)
    BY <1>4 DEF Quiet, N!Quick
  <1>6. PICK k \in 0..m : RanInTurn(c, k)
    BY <1>1, <1>3, <1>5 DEF TurnsInv
  <1>7. k = m
    BY <1>3, <1>4, <1>6 DEF RanInTurn
  <1>8. PICK f : Steps(FirstServer, asked[c], f) /\ f = CHOOSE g : Steps(FirstServer, asked[c], g)
    BY <1>1 DEF TurnsInv
  <1>9. InTurn(c) = f[m]
    BY <1>3, <1>8 DEF InTurn, Steps
  <1>10. f[m].server = server /\ f[m].log = [n \in 1..m |-> runs[c][n][1]]
    BY <1>6, <1>7, <1>8 DEF RanInTurn
  <1>11. log[c] = [n \in 1..m |-> runs[c][n][1]]
    <2>1. ASSUME NEW n \in 1..m PROVE log[c][n] = runs[c][n][1]
      <3>1. log[c][n] # Null
        BY <1>4, <1>5 DEF Quiet
      <3>2. PICK i \in 1..Len(runs[c][n]) : log[c][n] = runs[c][n][i]
        <4>1. n \in 1..Len(log[c])
          BY <1>4
        <4>2. log[c][n] = Null \/ \E i \in 1..Len(runs[c][n]) : log[c][n] = runs[c][n][i]
          BY <1>1, <4>1 DEF ResultsInv, RunsRight, OwnResults
        <4> QED
          BY <3>1, <4>2
      <3>3. Len(runs[c][n]) = 1
        <4>1. n <= k /\ n \in 1..Len(asked[c])
          BY <1>3, <1>7
        <4> QED
          BY <1>6, <4>1 DEF RanInTurn
      <3> QED
        BY <3>2, <3>3
    <2>2. log[c] = [n \in 1..m |-> log[c][n]]
      BY <1>4
    <2> QED
      BY <2>1, <2>2
  <1>12. \E s, l : f[m] = [server |-> s, log |-> l]
    <2>1. PICK first, q : first = FirstServer /\ q = asked[c]
      OBVIOUS
    <2>2. m \in 0..Len(q) /\ Steps(first, q, f)
      BY <1>3, <1>8, <2>1
    <2>3. f[m] = IF m = 0 THEN [server |-> first, log |-> <<>>]
                 ELSE LET t == ServeAny(f[m - 1].server, q[m])
                      IN  [server |-> t.server, log |-> Append(f[m - 1].log, t.res)]
      BY <2>2 DEF Steps
    <2> QED
      BY <2>3
  <1> QED
    BY <1>9, <1>10, <1>11, <1>12

LEMMA FileArrives ==
    ASSUME TransferInv, FtpInv
    PROVE  T!Exact
  <1>1. CASE file = Null \/ ~linked
    <2>1. got \in Seq({Blank}) /\ T!Words = <<>>
      BY <1>1 DEF TransferInv, FtpInv, T!Words
    <2>2. \A i \in DOMAIN got : got[i] = Blank
      BY <2>1
    <2> QED
      BY <2>1, <2>2 DEF T!Exact
  <1>2. CASE file # Null /\ linked
    <2>1. WordsInv /\ T!Words = file.words
      BY <1>2 DEF TransferInv, T!Words
    <2>2. DOMAIN got = 1..Len(got) /\ \A j \in 1..Len(got) : got[j] = Word(j)
      BY <2>1, LenFacts DEF WordsInv
    <2> QED
      BY <2>1, <2>2 DEF T!Exact, Word
  <1> QED
    BY <1>1, <1>2

\* Whatever the network does: add and square answer with the sum and the square of the
\* numbers asked for, a client that has a server to itself and is answered at once sees its
\* calls run one after the other, a call is executed no more often than it was sent, and
\* what a client of ftp prints is the file in order and without a gap and then nothing but
\* its last word again, or rubbish when no word comes (src/rpc/nfs/nfs_clnt.c:9-25, nfs_svc.c,
\* src/end/rpc/add_server.c, src/rpc/square/square_server.c, src/ftp/active, src/ftp/passive).
THEOREM ResultsAreRight == Spec => []RightResults
  <1>1. Inv /\ SeenInv /\ TransferInv /\ [Next]_vars => SeenInv' /\ TransferInv'
    BY NextSeen
  <1>2. Spec => [](SeenInv /\ TransferInv)
    BY <1>1, InitSeen, Invariance, PTL DEF Spec
  <1>3. Inv /\ SeenInv /\ TransferInv /\ N!RunsWithinSent => RightResults
    BY TypesHold, ExactHolds, TurnsHold, FileArrives DEF RightResults, TransferInv, Inv
  <1> QED
    BY <1>2, <1>3, Invariance, NoMoreRunsThanSent, PTL

\* However often calls are executed, late or again, and whatever names they carry: only ls
\* and touch keep descriptors, the server crashes only without one, the tree stays a tree,
\* and the current directory of all clients is in it unless a remove was executed, after
\* which the way up from it still ends in the tree (src/rpc/nfs/nfs_server.c).
THEOREM FileServerIsSound == Spec => []ServerSound
  <1>1. Inv => ServerSound
    BY DEF Inv, ServerSound
  <1> QED
    BY <1>1, Invariance, PTL

(***************************************************************************)
(* The refinement, step by step.                                            *)
(***************************************************************************)
LEMMA InitRefines == Init => Abstract!Init
  BY DEF Init, N!Init, S!Init, Abstract!Init

LEMMA StepRefines ==
    ASSUME Inv, [Next]_vars
    PROVE  [Abstract!Next]_(Abstract!vars)
  <1> USE DEF Abstract!vars
  <1>0. PICK V : Values(V)
    BY DEF Inv, RpcInv
  <1>1. CASE Rests
    BY <1>1 DEF Rests, Abstract!Next, Abstract!Restart
  <1>2. ASSUME NEW r \in requests, Runs(r) PROVE Abstract!Next
    <2>1. /\ r.from \in Clients /\ r.call \in DOMAIN asked[r.from]
          /\ r.line = asked[r.from][r.call]
      BY <1>0, LenFacts DEF Inv, RpcInv, DatagramsInv, Values
    <2>2. Abstract!Execute(r.from)
      BY <1>2, <2>1 DEF Abstract!Execute, Runs
    <2> QED
      BY <2>1, <2>2 DEF Abstract!Next
  <1>3. ASSUME NEW c \in Clients, Resends(c) PROVE UNCHANGED Abstract!vars
    BY <1>3 DEF Resends
  <1>4. ASSUME NEW c \in Clients, NEW l \in Legal(service), Calls(c, l) PROVE Abstract!Next
    <2>1. Len(log[c]) = Len(asked[c])
      BY <1>4 DEF Inv, RpcInv, CallsInv, Calls
    <2>2. l \in NfsLines \cup SumLines
      BY DEF Legal
    <2>3. Abstract!Ask(c)
      BY <1>4, <2>1, <2>2 DEF Abstract!Ask, Calls
    <2> QED
      BY <2>3 DEF Abstract!Next
  <1>5. ASSUME NEW c \in Clients, NEW x, Returns(c, x), OwnAnswer(c, x) PROVE Abstract!Next
    <2>1. PICK k : k = Len(asked[c])
      OBVIOUS
    <2>2. x = Null \/ \E m \in DOMAIN runs[c][k] : x = runs[c][k][m]
      <3>1. ASSUME NEW r \in replies, r.to = c, r.call = k, x = r.res
            PROVE  \E m \in DOMAIN runs[c][k] : x = runs[c][k][m]
        <4>1. PICK m \in 1..Len(runs[c][k]) : x = runs[c][k][m]
          BY <3>1 DEF Inv, RpcInv, DatagramsInv
        <4>2. k \in 1..Len(runs[c])
          BY <2>1, <3>1 DEF Inv, RpcInv, DatagramsInv, CallsInv
        <4>3. m \in DOMAIN runs[c][k]
          BY <1>0, <4>1, <4>2, LenFacts DEF Values
        <4> QED
          BY <4>1, <4>3
      <3> QED
        BY <1>5, <2>1, <3>1 DEF OwnAnswer
    <2>3. Len(log[c]) < Len(asked[c])
      <3>1. Len(log[c]) \in Nat /\ Len(asked[c]) = Len(log[c]) + 1
        BY <1>0, <1>5, LenFacts DEF Inv, RpcInv, CallsInv, Values, Returns
      <3> QED
        BY <3>1
    <2>4. Abstract!Answer(c)
      BY <1>5, <2>1, <2>2, <2>3 DEF Abstract!Answer, Returns
    <2> QED
      BY <2>4 DEF Abstract!Next
  <1>6. CASE RpcStep
    BY <1>1, <1>2, <1>3, <1>4, <1>5, <1>6 DEF RpcStep
  <1>7. CASE Nfs \/ Sums
    BY <1>6, <1>7, NfsStep, SumsStep DEF Inv
  <1>8. CASE Transfer \/ UNCHANGED vars
    BY <1>8 DEF Transfer, InFtp, vars, rpc
  <1> QED
    BY <1>7, <1>8 DEF Next

\* For any clients, lines, files and schedule of datagrams, the stubs with their timeouts
\* and the server that remembers nothing implement the service of AtLeastOnce: what a
\* stub returns is the result of an execution of its own call, or NULL
\* (src/rpc/nfs/nfs_clnt.c:9-25, nfs_svc.c).
THEOREM Implementation == Spec => ImplementsAtLeastOnce
  <1>1. Inv /\ [Next]_vars => [Abstract!Next]_(Abstract!vars)
    BY StepRefines
  <1> QED
    BY InitRefines, Invariance, <1>1, PTL DEF Spec, Abstract!Spec, ImplementsAtLeastOnce

(***************************************************************************)
(* What is not made up for.                                                *)
(***************************************************************************)
Freed ==
    \/ server'.fs = server.fs /\ server'.cwd = server.cwd
    \/ \E r \in requests : /\ r.line.args[1].abs
                           /\ server' = nfs_remote_1(server, r.line).server

LEMMA LockedStep ==
    ASSUME Inv, [Next]_vars, service = "nfs", gen' = gen, ~Searchable(server, server.cwd)
    PROVE  Freed
  <1>1. CASE UNCHANGED vars
    BY <1>1 DEF vars, rpc, Freed
  <1>2. CASE Nfs
    <2>1. IsServer(server) /\ NfsData /\ gen \in Nat
      BY <1>2, NfsDataStep DEF Inv, DataInv
    <2>2. ASSUME NEW r \in requests, r.line \in Legal("nfs"), NEW t,
                 t = nfs_remote_1(server, r.line), server' = t.server
          PROVE  Freed
      <3>1. Fine(server, r.line.word, r.line.args[1], t)
        BY <2>1, <2>2, ProcedureFine
      <3> QED
        BY <2>2, <3>1 DEF Fine, Free, Freed
    <2> QED
      BY <2>1, <2>2 DEF NfsData, Freed
  <1> QED
    BY <1>1, <1>2 DEF Next, Sums, InSums, Transfer, InFtp

LEMMA MissedStep ==
    ASSUME Inv, [Next]_vars, T!Missed
    PROVE  [got' \in Seq({Blank}) /\ (T!Missed' \/ ft_client' = "left")]_(T!vars)
  <1>1. CASE UNCHANGED ftp
    BY <1>1 DEF ftp, T!vars
  <1>2. CASE T!Next
    <2> USE DEF T!Missed, T!fixed, T!reading
    <2>0. FtpInv /\ got \in Seq({Blank}) /\ data = <<>>
      BY DEF Inv, FtpInv
    <2>1. CASE T!ServerStart \/ T!ClientStart \/ T!ClientLeaves
      BY <2>0, <2>1 DEF T!ServerStart, T!ClientStart, T!ClientLeaves
    <2>2. CASE T!ServerReadsBoth \/ T!ServerSendsPort \/ T!ServerReadsName \/ T!ServerReadsEnd
      BY <2>0, <2>2 DEF T!ServerReadsBoth, T!ServerSendsPort, T!ServerReadsName, T!ServerReadsEnd
    <2>3. CASE T!ServerListens \/ T!ServerConnects \/ T!ServerAccepts \/ T!FileOpens
      BY <2>0, <2>3 DEF T!ServerListens, T!ServerConnects, T!ServerAccepts, T!FileOpens
    <2>4. CASE T!Round
      BY <2>0, <2>4 DEF T!Round, FtpInv
    <2>5. CASE T!ClientSendsBoth \/ T!ClientSendsName \/ T!ClientListens \/ T!ClientConnects
                \/ T!ClientAccepts \/ T!ClientReads
      BY <2>0, <2>5 DEF T!ClientSendsBoth, T!ClientSendsName, T!ClientListens,
                        T!ClientConnects, T!ClientAccepts, T!ClientReads
    <2>6. CASE T!ClientRepeats
      BY <2>0, <2>6, BlankRepeats DEF T!ClientRepeats
    <2> QED
      BY <1>2, <2>1, <2>2, <2>3, <2>4, <2>5, <2>6 DEF T!Next, T!ServerStep, T!ClientStep
  <1> QED
    BY <1>1, <1>2 DEF Next, Nfs, InNfs, Sums, InSums, Transfer, InFtp, vars

\* Once someone has taken the permission to search the current directory, no call of any
\* client by a name that begins there changes a file or leaves the directory until the
\* server is started again (src/rpc/nfs/nfs_server.c:129, 193, 203, 213); and a data
\* connection of ftp that was tried before the other side listened is never made, so that
\* no word of the file is printed (src/ftp/active/server.c:62, src/ftp/passive/client.c:41).
THEOREM LostStaysLost == Spec => LostForEver
  <1>1. Inv /\ [Next]_vars =>
            [service = "nfs" /\ gen' = gen /\ ~Searchable(server, server.cwd) =>
                \/ server'.fs = server.fs /\ server'.cwd = server.cwd
                \/ \E r \in requests : /\ r.line.args[1].abs
                                       /\ server' = nfs_remote_1(server, r.line).server]_vars
    BY LockedStep DEF Freed
  <1>2. Inv /\ [Next]_vars =>
            [T!Missed => got' \in Seq({Blank}) /\ (T!Missed' \/ ft_client' = "left")]_(T!vars)
    BY MissedStep
  <1> QED
    BY <1>1, <1>2, Invariance, PTL
       DEF Spec, LostForEver, LockedOut, T!MissedForEver
=============================================================================
