---------------------------- MODULE MultiServer ----------------------------
(***************************************************************************)
(* select_servers/multiserver: a client takes a number from shared memory, *)
(* asks the main server over the pair of FIFOs with that number for a      *)
(* server of kind S1 or S2, and talks to the one it is given.  The number  *)
(* is counted down without a lock, so that two clients can share a pair.   *)
(***************************************************************************)
EXTENDS Naturals, Integers, Sequences, FiniteSets

CONSTANTS
    Clients,    \* client processes
    Fifos,      \* argv[1]: pairs of FIFOs mainfifo<i>, mainfifowrite<i>
    Servers,    \* argv[2], argv[3]: Servers[kind] of each kind
    MaxTalk     \* bound: lines a client types to its server

VARIABLES
    number,     \* shm->number
    client,     \* client[c]: where main is
    local,      \* local[c]: the value of shm->number c decrements
    logno,      \* logno[c]: the number c took, -1 before
    wants,      \* wants[c]: has thread_write still to ask
    fd,         \* fd[c]: the FIFO c writes to: its number, a kind, or "none"
    reading,    \* reading[c]: does thread_read still wait for the answer
    gotserver,  \* gotserver[c]: the flag of c
    mainfifo,   \* mainfifo[i]: requests
    answers,    \* answers[i]: the FIFO mainfifowrite<i>
    ready,      \* what select left in the main server's set
    free,       \* n_s1 and n_s2
    heard,      \* heard[s]: what the FIFO of a server kind was sent
    refused,    \* refused[i]: did someone's request on i find no server
    overlap     \* did two clients count down at the same time

vars == <<number, client, local, logno, wants, fd, reading, gotserver,
          mainfifo, answers, ready, free, heard, refused, overlap>>
mainserver == <<mainfifo, answers, ready, free, refused>>

Kinds == {"S1", "S2"}
Ids == 0 .. Fifos - 1

Init ==
    /\ number = Fifos /\ overlap = FALSE
    /\ client = [c \in Clients |-> "attach"] /\ local = [c \in Clients |-> 0]
    /\ logno = [c \in Clients |-> -1]
    /\ wants = [c \in Clients |-> TRUE] /\ fd = [c \in Clients |-> "none"]
    /\ reading = [c \in Clients |-> TRUE] /\ gotserver = [c \in Clients |-> FALSE]
    /\ mainfifo = [i \in Ids |-> <<>>] /\ answers = [i \in Ids |-> <<>>]
    /\ ready = {} /\ free = Servers
    /\ heard = [s \in Kinds |-> <<>>] /\ refused = [i \in Ids |-> FALSE]

(***************************************************************************)
(* main of client.c: shm->number = shm->number - 1, then logno is read     *)
(* from shared memory again                                                *)
(***************************************************************************)
CountingDown(c) == client[c] \in {"load", "store"}

Load(c) ==
    /\ client[c] = "attach"
    /\ client' = [client EXCEPT ![c] = "load"]
    /\ local' = [local EXCEPT ![c] = number]
    /\ overlap' = (overlap \/ \E d \in Clients \ {c} : CountingDown(d))
    /\ UNCHANGED <<number, logno, wants, fd, reading, gotserver, mainserver, heard>>

Store(c) ==
    /\ client[c] = "load"
    /\ client' = [client EXCEPT ![c] = "store"]
    /\ number' = local[c] - 1
    /\ UNCHANGED <<local, logno, wants, fd, reading, gotserver, mainserver, heard, overlap>>

\* logno taken from what was read before the decrement
OpenOld(c) ==
    /\ client[c] = "store"
    /\ client' = [client EXCEPT ![c] = "open"]
    /\ logno' = [logno EXCEPT ![c] = local[c]]
    /\ fd' = [fd EXCEPT ![c] = IF local[c] \in Ids THEN "main" ELSE "none"]
    /\ UNCHANGED <<number, local, wants, reading, gotserver, mainserver, heard, overlap>>

\* without a FIFO of that name both descriptors are -1
Open(c) ==
    /\ client[c] = "store"
    /\ client' = [client EXCEPT ![c] = "open"]
    /\ logno' = [logno EXCEPT ![c] = number]
    /\ fd' = [fd EXCEPT ![c] = IF number \in Ids THEN "main" ELSE "none"]
    /\ UNCHANGED <<number, local, wants, reading, gotserver, mainserver, heard, overlap>>

(***************************************************************************)
(* thread_write and thread_read of client.c share fd, writefd, gotserver   *)
(***************************************************************************)
Send(c, m) ==
    /\ mainfifo' = IF fd[c] = "main" THEN [mainfifo EXCEPT ![logno[c]] = Append(@, m)]
                   ELSE mainfifo
    /\ heard' = IF fd[c] \in Kinds THEN [heard EXCEPT ![fd[c]] = Append(@, <<c, m>>)] ELSE heard

thread_write(c) ==
    /\ client[c] = "open" /\ wants[c]
    /\ wants' = [wants EXCEPT ![c] = FALSE]
    /\ \E s \in Kinds : Send(c, s)
    /\ UNCHANGED <<number, client, local, logno, fd, reading, gotserver, answers, ready, free,
                   refused, overlap>>

Talk(c) ==
    /\ ~wants[c] /\ gotserver[c]
    /\ \A s \in Kinds : Len(heard[s]) < MaxTalk
    /\ Send(c, "line")
    /\ UNCHANGED <<number, client, local, logno, wants, fd, reading, gotserver, answers, ready,
                   free, refused, overlap>>

\* the read takes all that is there: of several answers of 35 bytes the first counts
thread_read(c) ==
    /\ client[c] = "open" /\ reading[c] /\ logno[c] \in Ids /\ answers[logno[c]] # <<>>
    /\ reading' = [reading EXCEPT ![c] = FALSE]
    /\ fd' = [fd EXCEPT ![c] = Head(answers[logno[c]])]
    /\ answers' = [answers EXCEPT ![logno[c]] = <<>>]
    /\ UNCHANGED <<number, client, local, logno, wants, gotserver, mainfifo, ready, free, heard,
                   refused, overlap>>

\* with descriptor -1 the read fails, and there is no FIFO of the name in buf
ReadFails(c) ==
    /\ client[c] = "open" /\ reading[c] /\ logno[c] \notin Ids
    /\ reading' = [reading EXCEPT ![c] = FALSE]
    /\ UNCHANGED <<number, client, local, logno, wants, fd, gotserver, mainserver, heard, overlap>>

SetGot(c) ==
    /\ ~reading[c] /\ ~gotserver[c]
    /\ gotserver' = [gotserver EXCEPT ![c] = TRUE]
    /\ UNCHANGED <<number, client, local, logno, wants, fd, reading, mainserver, heard, overlap>>

(***************************************************************************)
(* The loop of mainserver.c                                                *)
(***************************************************************************)
SelectOne ==
    /\ ready = {}
    /\ ready' = {i \in {0} : mainfifo[i] # <<>>}
    /\ ready' # {}
    /\ UNCHANGED <<number, client, local, logno, wants, fd, reading, gotserver, mainfifo,
                   answers, free, heard, refused, overlap>>

Select ==
    /\ ready = {}
    /\ ready' = {i \in Ids : mainfifo[i] # <<>>}
    /\ ready' # {}
    /\ UNCHANGED <<number, client, local, logno, wants, fd, reading, gotserver, mainfifo,
                   answers, free, heard, refused, overlap>>

HasServer(s) == s \in Kinds /\ free[s] > 0

\* one request of each ready FIFO, the lowest number first; a refusal is not answered
Serve ==
    /\ ready # {}
    /\ LET j == CHOOSE x \in ready : \A y \in ready : x <= y
           s == Head(mainfifo[j]) IN
       /\ ready' = ready \ {j}
       /\ mainfifo' = [mainfifo EXCEPT ![j] = Tail(@)]
       /\ IF HasServer(s)
          THEN /\ free' = [free EXCEPT ![s] = @ - 1]
               /\ answers' = [answers EXCEPT ![j] = Append(@, s)]
               /\ UNCHANGED refused
          ELSE /\ refused' = [refused EXCEPT ![j] = TRUE]
               /\ UNCHANGED <<free, answers>>
    /\ UNCHANGED <<number, client, local, logno, wants, fd, reading, gotserver, heard, overlap>>

\* thread_read of server.c prints what the clients of its kind send
ServerReads(s) ==
    /\ heard[s] # <<>>
    /\ heard' = [heard EXCEPT ![s] = Tail(@)]
    /\ UNCHANGED <<number, client, local, logno, wants, fd, reading, gotserver, mainserver,
                   overlap>>

ClientStep(c) ==
    \/ Load(c) \/ Store(c) \/ Open(c) \/ thread_write(c) \/ thread_read(c) \/ ReadFails(c)
    \/ SetGot(c) \/ Talk(c)
MainStep == Select \/ Serve
Next ==
    \/ MainStep
    \/ \E c \in Clients : ClientStep(c)
    \/ \E s \in Kinds : ServerReads(s)

Spec == Init /\ [][Next]_vars

-----------------------------------------------------------------------------
\* The variables have their types, and no server is given away twice.
TypeOK ==
    /\ number \in Fifos - Cardinality(Clients) .. Fifos
    /\ client \in [Clients -> {"attach", "load", "store", "open"}]
    /\ fd \in [Clients -> Kinds \cup {"none", "main"}]
    /\ ready \subseteq Ids /\ free \in [Kinds -> Nat]

On(s) == {c \in Clients : fd[c] = s}

\* README: one client for each S1 and S2 server.  However the clients share their
\* FIFOs, and whoever reads whose answer, no more clients talk to a kind of server
\* than there are servers of it.
NotOversold == \A s \in Kinds : Cardinality(On(s)) <= Servers[s]

\* Two clients share a pair of FIFOs, or miss one, only if they counted the number
\* in shared memory down at the same time (or came after all FIFOs were taken).
OwnFifo ==
    ~overlap => \A c, d \in {x \in Clients : client[x] = "open"} :
        /\ logno[c] = logno[d] => c = d
        /\ logno[c] < Fifos

\* However the clients come, share FIFOs and take answers: no more of them on a kind of
\* server than servers, and FIFOs are shared only after decrements at the same time.
\* (mainserver.c and client.c of select_servers/multiserver)
MultiAllotted == TypeOK /\ NotOversold /\ OwnFifo

\* A client that shares its FIFOs with nobody and was refused hears nothing: it is
\* never given a server, also when others have asked in vain for the other kind.
Alone(c) == \A d \in Clients \ {c} : logno[d] # logno[c]
RefusedForEver ==
    [][\A c \in Clients :
          client[c] = "open" /\ logno[c] \in Ids /\ refused[logno[c]] /\ Alone(c)'
              => fd'[c] = fd[c]]_vars

\* A client with a FIFO of its own is served or refused in the end: it does not
\* happen that someone waits for ever without one of the two.
Pending(c) ==
    /\ client[c] = "open" /\ fd[c] = "main" /\ ~wants[c] /\ Alone(c)
    /\ ~gotserver[c] /\ ~refused[logno[c]]
=============================================================================
