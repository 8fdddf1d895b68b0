------------------------------ MODULE Studios ------------------------------
(***************************************************************************)
(* The film production of c137261@nitwstudios.                              *)
(*                                                                          *)
(*   script.c    asks its user for a job and sends it to the director       *)
(*   director.c  asks a registry for the port of each set and actor, asks   *)
(*               each of them for permission, and passes the connections of *)
(*               those that gave it to the producer                         *)
(*   studio.c, actor.c  the registries of the sets and of the actors        *)
(*   set.c, act.c       one process per set and per actor                   *)
(*   producer.c  pays on every connection, then asks its user for a message *)
(*                                                                          *)
(* The director, whose connects may fail, ends and is started again; the    *)
(* others are started first. The raw IP message of the producer only ends   *)
(* the threads that wait for it and is left out.                            *)
(***************************************************************************)
EXTENDS Naturals, Sequences, FiniteSets

CONSTANTS
    Ids,        \* the numbers of sets and actors, 1..4 in studio.c and actor.c
    Running,    \* the sets and actors whose process is running
    Wishes,     \* what the user of the script may type
    MaxJobs,    \* jobs typed at most
    MaxStarts   \* how often the director is started at most

Kinds == {"set", "actor"}
Resources == Kinds \X Ids

NoRepeat(list) == \A i, j \in 1..Len(list) : list[i] = list[j] => i = j

\* What is typed: the two numbers, then as many set and actor numbers. A number is
\* not repeated, so that MaxJobs bounds the connections to one set or actor.
IsWish(w) ==
    /\ w.sets_list \in Seq(Ids) /\ Len(w.sets_list) = w.sets
    /\ w.actor_list \in Seq(Ids) /\ Len(w.actor_list) = w.actors
    /\ NoRepeat(w.sets_list) /\ NoRepeat(w.actor_list)

ASSUME RunningAssumption == Running \subseteq Resources
ASSUME WishesAssumption == \A w \in Wishes : IsWish(w)

max_count == 5    \* the size of sets_accp, actors_accp, and of threads in set.c, act.c
ASSUME BoundsAssumption == MaxJobs \in 0..max_count /\ MaxStarts \in Nat

\* The director does not compare s_a and a_a with the sizes of its arrays
\* (director.c:158,196). They are large enough if so few sets and actors are running:
\* each gives permission to its first and third connection only.
Permits == IF MaxJobs < 3 THEN 1 ELSE 2
ASSUME ArraysAssumption ==
    \A k \in Kinds :
        LET ids == {id \in Ids : <<k, id>> \in Running}
        IN  IsFiniteSet(ids) /\ Permits * Cardinality(ids) <= max_count

VARIABLES
    jobs,     \* jobs sent to the director and not yet accepted
    typed,    \* how many jobs were typed
    wish,     \* the job the director works on, as typed
    dpc,      \* where the director is
    stage,    \* the kind the director is asking
    idx,      \* i of its loops
    starts,   \* how often the director was started
    accp,     \* sets_accp and actors_accp: connections <<resource, number>>
    dreg,     \* the director's connection to the registry of a kind: "none",
              \* "backlog", "open", and "asked" while a question is unanswered
    rpc,      \* a registry: "accept", "serve" or "dead"
    left,     \* questions it still expects
    broken,   \* it has already sent to a director that is gone
    conns,    \* connections of each set and actor, in the order of accept
    ppc,      \* the producer: "accept", "recv", "typing"
    pbox      \* the connections passed to the producer in this round

dirVars == <<wish, dpc, stage, idx, accp>>
regVars == <<dreg, rpc, left, broken>>
prodVars == <<ppc, pbox>>
vars == <<jobs, typed, starts, dirVars, regVars, conns, prodVars>>

\* A connection: "asked", "denied", "granted" (its thread waits for the payment),
\* "paid" or "lost"; and how often the producer paid on it
Conn == [st : {"asked", "denied", "granted", "paid", "lost"}, pays : Nat]

ConnNames == {cn \in Resources \X (1..MaxJobs) : cn[2] <= Len(conns[cn[1]])}
St(cn) == conns[cn[1]][cn[2]].st
Pays(cn) == conns[cn[1]][cn[2]].pays
Elements(seq) == {seq[i] : i \in 1..Len(seq)}

TypeOK ==
    /\ jobs \in Seq(Wishes)
    /\ typed \in 0..MaxJobs
    /\ dpc \in {"down", "accept", "registry", "item", "port", "perm", "producer",
                "hello", "send"}
    /\ dpc \notin {"down", "accept"} => wish \in Wishes
    /\ stage \in Kinds
    /\ idx \in Nat
    /\ starts \in 0..MaxStarts
    /\ accp \in [Kinds -> Seq(ConnNames)]
    /\ \A k \in Kinds : Len(accp[k]) <= max_count
    /\ dreg \in [Kinds -> {"none", "backlog", "open", "asked"}]
    /\ rpc \in [Kinds -> {"accept", "serve", "dead"}]
    /\ left \in [Kinds -> Nat]
    /\ broken \in [Kinds -> BOOLEAN]
    /\ conns \in [Resources -> Seq(Conn)]
    /\ ppc \in {"accept", "recv", "typing"}
    /\ pbox \in Seq(ConnNames)

\* The director reads a number for the actors and one for the sets, then the
\* actors and the sets; the script sends the number of sets, that of actors, the
\* sets and the actors. Both are read from a stream in this order.
ListOf(k) == IF k = "actor" THEN wish.sets_list ELSE wish.actor_list
Count(k) == Len(ListOf(k))

Init ==
    /\ jobs = <<>> /\ typed = 0
    /\ wish = [actors |-> 0, sets |-> 0, actor_list |-> <<>>, sets_list |-> <<>>]
    /\ dpc = "down" /\ stage = "set" /\ idx = 1 /\ starts = 0
    /\ accp = [k \in Kinds |-> <<>>]
    /\ dreg = [k \in Kinds |-> "none"]
    /\ rpc = [k \in Kinds |-> "accept"]
    /\ left = [k \in Kinds |-> 0]
    /\ broken = [k \in Kinds |-> FALSE]
    /\ conns = [r \in Resources |-> <<>>]
    /\ ppc = "accept" /\ pbox = <<>>

-----------------------------------------------------------------------------
(* script.c                                                                 *)

\* connect, and send everything; without a director the send raises SIGPIPE and
\* the job is lost with the script, which its user starts again
Ask(w) ==
    /\ typed < MaxJobs
    /\ typed' = typed + 1
    /\ jobs' = IF dpc = "down" THEN jobs ELSE Append(jobs, w)
    /\ UNCHANGED <<starts, dirVars, regVars, conns, prodVars>>

-----------------------------------------------------------------------------
(* director.c                                                               *)

DirectorStart ==
    /\ dpc = "down" /\ starts < MaxStarts
    /\ dpc' = "accept"
    /\ starts' = starts + 1
    /\ UNCHANGED <<jobs, typed, wish, stage, idx, accp, regVars, conns, prodVars>>

\* "connect": error_func exits. The threads that wait for a payment on a
\* connection nobody else holds read its end; the jobs in the backlog are lost.
DirectorDies ==
    /\ dpc' = "down"
    /\ jobs' = <<>>
    /\ accp' = [k \in Kinds |-> <<>>]
    /\ dreg' = [k \in Kinds |-> "none"]
    /\ conns' = [r \in Resources |-> [n \in 1..Len(conns[r]) |->
                    IF conns[r][n].st = "granted" /\ <<r, n>> \notin Elements(pbox)
                    THEN [conns[r][n] EXCEPT !.st = "lost"] ELSE conns[r][n]]]
    /\ UNCHANGED <<typed, starts, wish, stage, idx, rpc, left, broken, prodVars>>

AcceptJob ==
    /\ dpc = "accept" /\ jobs # <<>>
    /\ wish' = Head(jobs)
    /\ jobs' = Tail(jobs)
    /\ stage' = "set" /\ idx' = 1
    /\ dpc' = "registry"
    /\ UNCHANGED <<typed, starts, accp, regVars, conns, prodVars>>

\* Connect to port 5000 or 6000 and send the count. A connection with the count 0 is
\* accepted and left by the registry at some time without any effect.
ConnectRegistry ==
    /\ dpc = "registry" /\ rpc[stage] # "dead"
    /\ dreg' = [dreg EXCEPT ![stage] = IF Count(stage) = 0 THEN "none" ELSE "backlog"]
    /\ dpc' = "item"
    /\ UNCHANGED <<jobs, typed, starts, wish, stage, idx, accp, rpc, left, broken, conns,
                   prodVars>>

NoRegistry ==
    /\ dpc = "registry" /\ rpc[stage] = "dead"
    /\ DirectorDies

\* send the number of the next set or actor
AskPort ==
    /\ dpc = "item" /\ idx <= Count(stage)
    /\ dreg[stage] = "open"
    /\ dreg' = [dreg EXCEPT ![stage] = "asked"]
    /\ dpc' = "port"
    /\ UNCHANGED <<jobs, typed, starts, wish, stage, idx, accp, rpc, left, broken, conns,
                   prodVars>>

\* The registry ended before it accepted: recv returns nothing, the buffer still
\* holds the number sent, and no server listens on that port.
NoPort ==
    /\ dpc = "item" /\ idx <= Count(stage)
    /\ dreg[stage] = "backlog" /\ rpc[stage] = "dead"
    /\ DirectorDies

\* the end of the loop over one kind; the connection to the registry is kept
NextStage ==
    /\ dpc = "item" /\ idx > Count(stage)
    /\ dpc' = IF stage = "set" THEN "registry" ELSE "producer"
    /\ stage' = "actor" /\ idx' = 1
    /\ UNCHANGED <<jobs, typed, starts, wish, accp, regVars, conns, prodVars>>

Target == <<stage, ListOf(stage)[idx]>>

\* the port has come: connect to the set or actor
ConnectTarget ==
    /\ dpc = "port" /\ dreg[stage] = "open"
    /\ Target \in Running
    /\ conns' = [conns EXCEPT ![Target] =
                    Append(@, [st |-> "asked", pays |-> 0])]
    /\ dpc' = "perm"
    /\ UNCHANGED <<jobs, typed, starts, wish, stage, idx, accp, regVars, prodVars>>

NoTarget ==
    /\ dpc = "port" /\ dreg[stage] = "open"
    /\ Target \notin Running
    /\ DirectorDies

\* sets_accp[s_a++]=setfd; s_a and a_a are never reset
Remember(cn) == IF St(cn) = "granted" THEN [accp EXCEPT ![stage] = Append(@, cn)] ELSE accp

ReadPerm ==
    /\ dpc = "perm"
    /\ LET cn == <<Target, Len(conns[Target])>> IN
        /\ St(cn) # "asked"
        /\ accp' = Remember(cn)
    /\ idx' = idx + 1
    /\ dpc' = "item"
    /\ UNCHANGED <<jobs, typed, starts, wish, stage, regVars, conns, prodVars>>

\* connect to the producer and wait for its hello
ConnectProducer ==
    /\ dpc = "producer"
    /\ dpc' = "hello"
    /\ UNCHANGED <<jobs, typed, starts, wish, stage, idx, accp, regVars, conns, prodVars>>

PassOnFromOne ==
    SubSeq(accp["set"], 2, Len(accp["set"])) \o SubSeq(accp["actor"], 2, Len(accp["actor"]))

\* the counts, the sets' connections and the actors'
PassOn == accp["set"] \o accp["actor"]

SendToProducer ==
    /\ dpc = "send"
    /\ pbox' = PassOn
    /\ dpc' = "accept"
    /\ UNCHANGED <<jobs, typed, starts, wish, stage, idx, accp, regVars, conns, ppc>>

-----------------------------------------------------------------------------
(* studio.c and actor.c: the registry of kind k                             *)

\* after n more questions the registry accepts again
Idle(n) == IF n = 0 THEN "accept" ELSE "serve"

\* accept, and read the count
RegistryAccept(k) ==
    /\ rpc[k] = "accept" /\ dreg[k] = "backlog"
    /\ dreg' = [dreg EXCEPT ![k] = "open"]
    /\ left' = [left EXCEPT ![k] = Count(k)]
    /\ rpc' = [rpc EXCEPT ![k] = Idle(Count(k))]
    /\ broken' = [broken EXCEPT ![k] = FALSE]
    /\ UNCHANGED <<jobs, typed, starts, dirVars, conns, prodVars>>

RegistryAnswer(k) ==
    /\ rpc[k] = "serve" /\ dreg[k] = "asked"
    /\ dreg' = [dreg EXCEPT ![k] = "open"]
    /\ left' = [left EXCEPT ![k] = @ - 1]
    /\ rpc' = [rpc EXCEPT ![k] = Idle(left[k] - 1)]
    /\ UNCHANGED <<jobs, typed, starts, dirVars, broken, conns, prodVars>>

\* Mutant of RegistryOrphan: at the end of file the loop waits for more.
RegistryOrphanWaits(k) ==
    /\ rpc[k] = "serve" /\ dreg[k] \in {"none", "backlog"}
    /\ broken' = [broken EXCEPT ![k] = TRUE]
    /\ UNCHANGED <<jobs, typed, starts, dirVars, dreg, rpc, left, conns, prodVars>>

\* The director it serves is gone: recv returns 0 and the last number is answered
\* again. The first such send is refused by the other side, the second raises
\* SIGPIPE.
RegistryOrphan(k) ==
    /\ rpc[k] = "serve" /\ dreg[k] \in {"none", "backlog"}
    /\ left' = [left EXCEPT ![k] = @ - 1]
    /\ rpc' = [rpc EXCEPT ![k] = IF broken[k] THEN "dead" ELSE Idle(left[k] - 1)]
    /\ broken' = [broken EXCEPT ![k] = TRUE]
    /\ UNCHANGED <<jobs, typed, starts, dirVars, dreg, conns, prodVars>>

-----------------------------------------------------------------------------
(* set.c and act.c: the process of resource r                               *)

\* thread_funcmain: available_count counts the connections; the first and the
\* third get permission
Permission(r) ==
    LET available_count == Len(conns[r]) - 1
    IN  IF available_count \in {0, 2} THEN "granted" ELSE "denied"

\* Mutant of Grant: no answer without permission.
GrantSilent(r) ==
    /\ conns[r] # <<>> /\ conns[r][Len(conns[r])].st = "asked"
    /\ Permission(r) = "granted"
    /\ conns' = [conns EXCEPT ![r][Len(conns[r])].st = "granted"]
    /\ UNCHANGED <<jobs, typed, starts, dirVars, regVars, prodVars>>

Grant(r) ==
    /\ conns[r] # <<>> /\ conns[r][Len(conns[r])].st = "asked"
    /\ conns' = [conns EXCEPT ![r][Len(conns[r])].st = Permission(r)]
    /\ UNCHANGED <<jobs, typed, starts, dirVars, regVars, prodVars>>

-----------------------------------------------------------------------------
(* producer.c                                                               *)

ProducerAccept ==
    /\ ppc = "accept" /\ dpc = "hello"
    /\ ppc' = "recv"
    /\ dpc' = "send"
    /\ UNCHANGED <<jobs, typed, starts, wish, stage, idx, accp, regVars, conns, pbox>>

\* A thread that waits reads its payment; a connection passed on before is paid again.
Paid(c) ==
    [st |-> IF c.st = "granted" THEN "paid" ELSE c.st, pays |-> c.pays + 1]

\* Receive the connections and pay on each.
ProducerPay ==
    /\ ppc = "recv" /\ dpc # "send"
    /\ conns' = [r \in Resources |-> [n \in 1..Len(conns[r]) |->
                    IF <<r, n>> \in Elements(pbox) THEN Paid(conns[r][n]) ELSE conns[r][n]]]
    /\ pbox' = <<>>
    /\ ppc' = "typing"
    /\ UNCHANGED <<jobs, typed, starts, dirVars, regVars>>

\* the user types the message
ProducerMessage ==
    /\ ppc = "typing"
    /\ ppc' = "accept"
    /\ UNCHANGED <<jobs, typed, starts, dirVars, regVars, conns, pbox>>

-----------------------------------------------------------------------------
DirectorStep ==
    \/ AcceptJob
    \/ ConnectRegistry \/ NoRegistry \/ AskPort \/ NoPort \/ NextStage
    \/ ConnectTarget \/ NoTarget \/ ReadPerm
    \/ ConnectProducer \/ SendToProducer

RegistryStep(k) == RegistryAccept(k) \/ RegistryAnswer(k) \/ RegistryOrphan(k)

Next ==
    \/ \E w \in Wishes : Ask(w)
    \/ DirectorStart
    \/ DirectorStep
    \/ \E k \in Kinds : RegistryStep(k)
    \/ \E r \in Resources : Grant(r)
    \/ ProducerAccept \/ ProducerPay \/ ProducerMessage

Spec == Init /\ [][Next]_vars

\* Every process proceeds; what users type and when is up to them.
FairSpec ==
    /\ Spec
    /\ WF_vars(DirectorStep)
    /\ \A k \in Kinds : WF_vars(RegistryStep(k))
    /\ \A r \in Resources : WF_vars(Grant(r))
    /\ WF_vars(ProducerAccept) /\ WF_vars(ProducerPay)
-----------------------------------------------------------------------------
(* Properties                                                               *)

\* The producer pays only on connections whose set or actor gave permission.
\* (director.c:156-164,194-203, producer.c:114-124)
OnlyGrantedPaid == \A cn \in ConnNames : Pays(cn) > 0 => St(cn) = "paid"

\* A set or actor that waits for its payment is remembered by the director that
\* asked it or is with the producer, until that director ends.
\* (director.c:158,196,226-234, set.c and act.c: read(nfd,newbuffer,30))
GrantKept ==
    \A cn \in ConnNames : St(cn) = "granted" =>
        \/ cn \in Elements(accp["set"]) \union Elements(accp["actor"])
        \/ cn \in Elements(pbox)
        \/ dpc = "perm" /\ cn = <<Target, Len(conns[Target])>>

\* When the director is ready for the next job and the producer is through,
\* everyone who gave permission has been paid, at least once.
\* (director.c:207-234, producer.c:87-124)
NobodyUnpaid ==
    dpc = "accept" /\ ppc # "recv" =>
        \A cn \in ConnNames : St(cn) # "granted"

\* s_a and a_a are never reset, so everyone is paid again with every later job:
\* who was remembered earlier is never paid less often. (director.c:92-93,226-234)
OldestPaidMost ==
    \A k \in Kinds : \A i, j \in 1..Len(accp[k]) :
        i < j => Pays(accp[k][i]) >= Pays(accp[k][j])

\* A director that is started after another one ended in the middle of its
\* questions is not kept waiting by the registry's unfinished loop: it is
\* accepted, or it ends with the registry. (studio.c and actor.c:58-76)
NotKeptWaiting == \A k \in Kinds : dreg[k] = "backlog" ~> dreg[k] # "backlog"

\* A job leads to the payment, unless the director ends over it or the producer
\* waits for its user. (director.c:94-237)
JobDone == dpc = "registry" ~> (dpc \in {"accept", "down"} \/ ppc = "typing")

\* What the producer pays is right, over all jobs and directors: permissions are kept
\* until they are passed on, nobody is paid without one or left out of a round, and who
\* gave it earlier has been paid at least as often; the arrays keep to their sizes.
Payments == TypeOK /\ OnlyGrantedPaid /\ GrantKept /\ NobodyUnpaid /\ OldestPaidMost
=============================================================================
