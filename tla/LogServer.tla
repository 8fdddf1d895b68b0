----------------------------- MODULE LogServer -----------------------------
(***************************************************************************)
(* select_servers/logserver: servers that read what their client types and *)
(* copy it to the log server, each over the log FIFO whose number it took  *)
(* from shared memory.  The log server makes as many FIFOs as it was told, *)
(* but puts argc - 1 = 1 of them into the set it selects on.               *)
(***************************************************************************)
EXTENDS Integers, Sequences, FiniteSets

CONSTANTS
    Servers,    \* server processes, each with one client
    Fifos,      \* argv[1] of the log server
    Cap,        \* lines of 100 bytes a FIFO holds
    MaxLines    \* bound: lines a client types

VARIABLES
    number,     \* shm->number, Fifos once the log server has written it
    logging,    \* has the log server made its FIFOs and its segment
    server,     \* server[s]: where main is
    local,      \* local[s]: the value of shm->number s decrements
    logno,      \* logno[s]: the log FIFO s opened
    typed,      \* typed[s]: lines typed by the client of s
    in,         \* in[s]: lines in the FIFO of that client
    line,       \* line[s]: the line s has read and not yet copied, 0 if none
    logfifo,    \* logfifo[i]
    logged      \* what the log server printed: sequence of <<s, n>>

vars == <<number, logging, server, local, logno, typed, in, line, logfifo, logged>>

Ids == 0 .. Fifos - 1

Init ==
    /\ number = 0 /\ logging = FALSE
    /\ server = [s \in Servers |-> "start"] /\ local = [s \in Servers |-> 0]
    /\ logno = [s \in Servers |-> -1]
    /\ typed = [s \in Servers |-> 0] /\ in = [s \in Servers |-> <<>>]
    /\ line = [s \in Servers |-> 0]
    /\ logfifo = [i \in Ids |-> <<>>] /\ logged = <<>>

thread_write(s) ==
    /\ typed[s] < MaxLines
    /\ typed' = [typed EXCEPT ![s] = @ + 1]
    /\ in' = [in EXCEPT ![s] = Append(@, typed[s] + 1)]
    /\ UNCHANGED <<number, logging, server, local, logno, line, logfifo, logged>>

(***************************************************************************)
(* server.c: shmget creates the segment when the log server has not yet    *)
(***************************************************************************)
Load(s) ==
    /\ server[s] = "start"
    /\ server' = [server EXCEPT ![s] = "store"]
    /\ local' = [local EXCEPT ![s] = number]
    /\ UNCHANGED <<number, logging, logno, typed, in, line, logfifo, logged>>

Store(s) ==
    /\ server[s] = "store"
    /\ server' = [server EXCEPT ![s] = "open"]
    /\ number' = local[s] - 1
    /\ UNCHANGED <<logging, local, logno, typed, in, line, logfifo, logged>>

\* a number without a FIFO ends the server
Open(s) ==
    /\ server[s] = "open"
    /\ IF logging /\ number \in Ids
       THEN /\ server' = [server EXCEPT ![s] = "run"]
            /\ logno' = [logno EXCEPT ![s] = number]
       ELSE server' = [server EXCEPT ![s] = "ended"] /\ UNCHANGED logno
    /\ UNCHANGED <<number, logging, local, typed, in, line, logfifo, logged>>

Read(s) ==
    /\ server[s] = "run" /\ line[s] = 0 /\ in[s] # <<>>
    /\ line' = [line EXCEPT ![s] = Head(in[s])]
    /\ in' = [in EXCEPT ![s] = Tail(@)]
    /\ UNCHANGED <<number, logging, server, local, logno, typed, logfifo, logged>>

\* the write blocks while the FIFO is full
CopyNonBlocking(s) ==
    /\ server[s] = "run" /\ line[s] > 0
    /\ logfifo' = IF Len(logfifo[logno[s]]) < Cap
                  THEN [logfifo EXCEPT ![logno[s]] = Append(@, <<s, line[s]>>)] ELSE logfifo
    /\ line' = [line EXCEPT ![s] = 0]
    /\ UNCHANGED <<number, logging, server, local, logno, typed, in, logged>>

Copy(s) ==
    /\ server[s] = "run" /\ line[s] > 0
    /\ Len(logfifo[logno[s]]) < Cap
    /\ logfifo' = [logfifo EXCEPT ![logno[s]] = Append(@, <<s, line[s]>>)]
    /\ line' = [line EXCEPT ![s] = 0]
    /\ UNCHANGED <<number, logging, server, local, logno, typed, in, logged>>

(***************************************************************************)
(* logserver.c                                                             *)
(***************************************************************************)
MakeFifos ==
    /\ ~logging
    /\ logging' = TRUE /\ number' = Fifos
    /\ UNCHANGED <<server, local, logno, typed, in, line, logfifo, logged>>

Readset == {0}

Log ==
    /\ logging
    /\ \E i \in Readset :
           /\ logfifo[i] # <<>>
           /\ logged' = Append(logged, Head(logfifo[i]))
           /\ logfifo' = [logfifo EXCEPT ![i] = Tail(@)]
    /\ UNCHANGED <<number, logging, server, local, logno, typed, in, line>>

ServerStep(s) == Load(s) \/ Store(s) \/ Open(s) \/ Read(s) \/ Copy(s)
Next == MakeFifos \/ Log \/ \E s \in Servers : thread_write(s) \/ ServerStep(s)

-----------------------------------------------------------------------------
\* The variables have their types; a running server has a FIFO of the log server.
TypeOK ==
    /\ logging \in BOOLEAN /\ number \in -Cardinality(Servers) .. Fifos
    /\ server \in [Servers -> {"start", "store", "open", "run", "ended"}]
    /\ \A s \in Servers : server[s] = "run" => logno[s] \in Ids
    /\ \A i \in Ids : Len(logfifo[i]) <= Cap

\* the lines of each server come from the first one on, in order and without gaps
InOrder(q) ==
    \A p \in 1 .. Len(q) :
        /\ q[p][2] = 1 \/ \E r \in 1 .. p - 1 : q[r] = <<q[p][1], q[p][2] - 1>>
        /\ \A r \in 1 .. p - 1 : q[r][1] = q[p][1] => q[r][2] < q[p][2]

\* What is logged of a server is what its client typed, from the first line on,
\* without gaps and in order, although all servers write into FIFOs of the same log.
NoGaps == InOrder(logged)

\* A server whose number is not 0 copies into a FIFO that is never read: nothing of
\* it is logged, and once that FIFO is full it reads its client no more.
Blocked(s) == line[s] > 0 /\ Len(logfifo[logno[s]]) = Cap /\ logno[s] # 0
UnreadForEver ==
    [][\A s \in Servers : Blocked(s) =>
          Blocked(s)' /\ typed'[s] - Len(in'[s]) = typed[s] - Len(in[s])]_vars

Logged(s) == SelectSeq(logged, LAMBDA e : e[1] = s)

\* A line typed to a server with the FIFO number 0, which is to be logged.
Unlogged(s) == server[s] = "run" /\ logno[s] = 0 /\ Len(Logged(s)) < typed[s]
=============================================================================
