--------------------------- MODULE ServiceServer ---------------------------
(***************************************************************************)
(* select_servers/serviceserver: clients ask the main server over one      *)
(* shared FIFO for a service server and read the answer from another       *)
(* shared FIFO, whoever reads first.  The main server's two threads share  *)
(* the flag gotserver and the array status; the two threads of a client    *)
(* share the descriptor fd.                                                *)
(***************************************************************************)
EXTENDS Naturals, Sequences, FiniteSets

CONSTANTS
    Clients,    \* client processes
    Count,      \* argv[1]: the service servers 0 .. Count - 1
    Nobody      \* no service server

VARIABLES
    clientfifo,         \* requests and messages of leaving clients, 7 bytes each
    clientfifowrite,    \* answers of 100 bytes: the number of a server
    gotserver,          \* the main server's flag
    status,             \* status[n]: 1 when n was given away
    start,              \* the last server given away
    writer,             \* where thread_write of the main server is
    client,             \* client[c]: "off", "idle", "asked", "quit" (thread_write of c)
    fd,                 \* fd[c]: "main" or the number of a server
    got,                \* got[c]: the flag of c, set after fd
    heard,              \* heard[n]: what reached server n
    asks                \* history: requests that reached clientfifo

vars == <<clientfifo, clientfifowrite, gotserver, status, start, writer, client, fd, got,
          heard, asks>>
main == <<gotserver, status, start, writer>>

Ids == 0 .. Count - 1

Init ==
    /\ clientfifo = <<>> /\ clientfifowrite = <<>> /\ asks = 0
    /\ gotserver = FALSE /\ status = [n \in Ids |-> 0] /\ start = 0 /\ writer = "poll"
    /\ client = [c \in Clients |-> "off"] /\ fd = [c \in Clients |-> Nobody]
    /\ got = [c \in Clients |-> FALSE] /\ heard = [n \in Ids |-> {}]

(***************************************************************************)
(* The clients.  thread_write writes to whatever fd is by then: once       *)
(* thread_read has taken an answer, that is a service server.              *)
(***************************************************************************)
Start(c) ==
    /\ client[c] = "off"
    /\ client' = [client EXCEPT ![c] = "idle"]
    /\ UNCHANGED <<clientfifo, clientfifowrite, main, fd, got, heard, asks>>

Ask(c) ==
    /\ client[c] = "idle"
    /\ client' = [client EXCEPT ![c] = "asked"]
    /\ IF fd[c] = Nobody
       THEN /\ clientfifo' = Append(clientfifo, "server") /\ asks' = asks + 1
            /\ UNCHANGED heard
       ELSE /\ heard' = [heard EXCEPT ![fd[c]] = @ \cup {<<c, "server">>}]
            /\ UNCHANGED <<clientfifo, asks>>
    /\ UNCHANGED <<clientfifowrite, main, fd, got>>

\* thread_read runs from the start: any client takes the next answer
TakeAnswer(c) ==
    /\ client[c] # "off" /\ fd[c] = Nobody /\ clientfifowrite # <<>>
    /\ fd' = [fd EXCEPT ![c] = Head(clientfifowrite)]
    /\ clientfifowrite' = Tail(clientfifowrite)
    /\ UNCHANGED <<clientfifo, main, client, got, heard, asks>>

SetGot(c) ==
    /\ fd[c] # Nobody /\ ~got[c]
    /\ got' = [got EXCEPT ![c] = TRUE]
    /\ UNCHANGED <<clientfifo, clientfifowrite, main, client, fd, heard, asks>>

Talk(c) ==
    /\ client[c] = "asked" /\ got[c]
    /\ heard' = [heard EXCEPT ![fd[c]] = @ \cup {<<c, "line">>}]
    /\ UNCHANGED <<clientfifo, clientfifowrite, main, client, fd, got, asks>>

\* server_no, the number of the server counted from 1
Quit(c) ==
    /\ client[c] = "asked" /\ got[c]
    /\ client' = [client EXCEPT ![c] = "quit"]
    /\ clientfifo' = Append(clientfifo, "quit")
    /\ UNCHANGED <<clientfifowrite, main, fd, got, heard, asks>>

(***************************************************************************)
(* The main server                                                         *)
(***************************************************************************)
\* one read takes everything up to 100 bytes, and only its first word is looked at;
\* `j = atoi(buf) != 0' makes j 1, whoever left
thread_read ==
    /\ clientfifo # <<>>
    /\ IF Head(clientfifo) = "server"
       THEN gotserver' = TRUE /\ UNCHANGED status
       ELSE status' = [status EXCEPT ![0] = 0] /\ UNCHANGED gotserver
    /\ clientfifo' = <<>>
    /\ UNCHANGED <<clientfifowrite, start, writer, client, fd, got, heard, asks>>

SeeFlag ==
    /\ writer = "poll" /\ gotserver
    /\ writer' = "seen"
    /\ UNCHANGED <<clientfifo, clientfifowrite, gotserver, status, start, client, fd, got,
                   heard, asks>>

ClearFlag ==
    /\ writer = "seen"
    /\ gotserver' = FALSE /\ writer' = "give"
    /\ UNCHANGED <<clientfifo, clientfifowrite, status, start, client, fd, got, heard, asks>>

\* the first server that is free, or else the last one given
FirstFree ==
    IF \E n \in Ids : status[n] = 0
    THEN CHOOSE n \in Ids : status[n] = 0 /\ \A m \in Ids : status[m] = 0 => n <= m
    ELSE start

NotTaken(n) == status
TakenAs(n) == [status EXCEPT ![n] = 1]

Give ==
    /\ writer = "give"
    /\ writer' = "poll"
    /\ start' = FirstFree
    /\ status' = TakenAs(FirstFree)
    /\ clientfifowrite' = Append(clientfifowrite, FirstFree)
    /\ UNCHANGED <<clientfifo, gotserver, client, fd, got, heard, asks>>

\* thread_read of server.c
ServerReads(n) ==
    /\ heard[n] # {}
    /\ heard' = [heard EXCEPT ![n] = {}]
    /\ UNCHANGED <<clientfifo, clientfifowrite, main, client, fd, got, asks>>

MainStep == thread_read \/ SeeFlag \/ ClearFlag \/ Give
ClientStep(c) == Start(c) \/ Ask(c) \/ TakeAnswer(c) \/ SetGot(c) \/ Talk(c) \/ Quit(c)
Next ==
    \/ MainStep
    \/ \E c \in Clients : ClientStep(c)
    \/ \E n \in Ids : ServerReads(n)

Spec == Init /\ [][Next]_vars

-----------------------------------------------------------------------------
\* The variables have their types.
TypeOK ==
    /\ gotserver \in BOOLEAN /\ status \in [Ids -> {0, 1}] /\ start \in Ids
    /\ fd \in [Clients -> Ids \cup {Nobody}] /\ got \in [Clients -> BOOLEAN]
    /\ \A c \in Clients : got[c] => fd[c] # Nobody

Given == {c \in Clients : fd[c] # Nobody}

\* The flag may swallow requests but invents none: the clients with a server, the
\* answers on their way and the one being worked out are never more than the
\* requests made.
NoInvented ==
    Cardinality(Given) + Len(clientfifowrite) + (IF writer = "give" THEN 1 ELSE 0) <= asks

\* While no more servers are asked for than there are, each goes to one client at a
\* time.  Only the first can get a second client, and only after somebody has left:
\* whoever leaves, it is the first whose status is taken back.
Exclusive ==
    asks <= Count =>
        \A c, d \in {x \in Given : client[x] # "quit"} : c # d /\ fd[c] = fd[d] =>
            fd[c] = 0 /\ \E x \in Clients : client[x] = "quit"

\* A message meant for the main server can end in a service server, but only when
\* another client's request has been answered in its place.
StrayRequest ==
    \A n \in Ids, c \in Clients : <<c, "server">> \in heard[n] =>
        fd[c] = n /\ \E d \in Clients \ {c} : client[d] \in {"asked", "quit"}

\* No more servers are given than asked for, only the first can get a second client,
\* after someone left, and a request reaches a service server only when answers were
\* swapped. (mainserver.c and client.c of select_servers/serviceserver)
ServiceAllotted == TypeOK /\ NoInvented /\ Exclusive /\ StrayRequest

\* Someone who asks while no other client runs, and is to get a server.
Lone(c) == client[c] = "asked" /\ ~got[c] /\ \A d \in Clients \ {c} : client[d] = "off"
=============================================================================
