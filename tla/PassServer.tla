----------------------------- MODULE PassServer -----------------------------
(***************************************************************************)
(* unixsockets/tss: a main server accepts clients and passes their         *)
(* descriptors over one connection to a server, which starts a thread for  *)
(* each (func gets the address of the one variable fd).  The main server   *)
(* keeps its copy of every descriptor open.                                *)
(***************************************************************************)
EXTENDS Integers, Sequences, Functions

CONSTANTS
    Clients,        \* client processes
    max_clients     \* the size of the array threads

VARIABLES
    server,     \* "off", "listening", "up", "dead"
    mainserver, \* "off", "up", "dead"
    queue,      \* connections to main_echo_socket
    passed,     \* descriptors on their way to the server
    conn,       \* the connections of the server, by descriptor
    fd,         \* the server's variable fd; -1: end of file or no descriptor
    thread,     \* the descriptor of each thread; 0: it has not read fd
    client,     \* client[c]: "off", "talking", "gone"
    answered    \* clients that got a message

vars == <<server, mainserver, queue, passed, conn, fd, thread, client, answered>>

Init ==
    /\ server = "off" /\ mainserver = "off" /\ queue = <<>> /\ passed = <<>>
    /\ conn = <<>> /\ fd = 0 /\ thread = <<>>
    /\ client = [c \in Clients |-> "off"] /\ answered = {}

StartServer ==
    /\ server = "off"
    /\ server' = "listening"
    /\ UNCHANGED <<mainserver, queue, passed, conn, fd, thread, client, answered>>

\* connect fails, and the main server exits, when the server does not listen
StartMain ==
    /\ mainserver = "off" /\ server = "listening"
    /\ mainserver' = "up" /\ server' = "up"
    /\ UNCHANGED <<queue, passed, conn, fd, thread, client, answered>>

Run(c) ==
    /\ client[c] = "off" /\ mainserver = "up"
    /\ client' = [client EXCEPT ![c] = "talking"]
    /\ queue' = Append(queue, c)
    /\ UNCHANGED <<server, mainserver, passed, conn, fd, thread, answered>>

Leave(c) ==
    /\ client[c] = "talking"
    /\ client' = [client EXCEPT ![c] = "gone"]
    /\ UNCHANGED <<server, mainserver, queue, passed, conn, fd, thread, answered>>

\* nobody holds the other end: it sends, and ends (SIGPIPE)
Hangup(c) ==
    /\ client[c] = "talking" /\ mainserver = "dead"
    /\ c \notin Range(passed) \cup Range(conn)
    /\ client' = [client EXCEPT ![c] = "gone"]
    /\ UNCHANGED <<server, mainserver, queue, passed, conn, fd, thread, answered>>

send_file_descriptor(c) == Append(passed, c)

\* accept, recv, send_file_descriptor; with the server dead the send ends the process
Pass ==
    /\ mainserver = "up" /\ queue # <<>>
    /\ IF server = "dead"
       THEN mainserver' = "dead" /\ queue' = <<>> /\ UNCHANGED passed
       ELSE /\ passed' = send_file_descriptor(Head(queue))
            /\ queue' = Tail(queue) /\ UNCHANGED mainserver
    /\ UNCHANGED <<server, conn, fd, thread, client, answered>>

\* the main server is interrupted
StopMain ==
    /\ mainserver = "up"
    /\ mainserver' = "dead" /\ queue' = <<>>
    /\ UNCHANGED <<server, passed, conn, fd, thread, client, answered>>

\* threads[clients_no++] is written past its end: the process may go on or not
Overflow == Len(thread) >= max_clients

\* recv_file_descriptor and pthread_create
Receive ==
    /\ server = "up" /\ passed # <<>> /\ ~Overflow
    /\ conn' = Append(conn, Head(passed))
    /\ passed' = Tail(passed)
    /\ fd' = Len(conn) + 1
    /\ thread' = Append(thread, 0)
    /\ UNCHANGED <<server, mainserver, queue, client, answered>>

\* recvmsg returns 0 for ever: a thread for descriptor 0 each time
EndOfFile ==
    /\ server = "up" /\ mainserver = "dead" /\ passed = <<>> /\ ~Overflow
    /\ fd' = -1
    /\ thread' = Append(thread, 0)
    /\ UNCHANGED <<server, mainserver, queue, passed, conn, client, answered>>

Dies ==
    /\ server' = "dead" /\ passed' = <<>> /\ conn' = <<>> /\ thread' = <<>>
    /\ UNCHANGED <<mainserver, queue, fd, client, answered>>

Overrun ==
    /\ server = "up" /\ Overflow /\ (passed # <<>> \/ mainserver = "dead")
    /\ Dies

\* int nfd = *((int *)arg)
FuncStarts(i) ==
    /\ thread[i] = 0
    /\ thread' = [thread EXCEPT ![i] = fd]
    /\ UNCHANGED <<server, mainserver, queue, passed, conn, fd, client, answered>>

Peer(i) == {conn[d] : d \in {thread[i]} \cap DOMAIN conn}

Send(i) ==
    \E c \in Peer(i) :
        /\ client[c] = "talking" /\ c \notin answered
        /\ answered' = answered \cup {c}
        /\ UNCHANGED <<server, mainserver, queue, passed, conn, fd, thread, client>>

Broken(i) == (\E c \in Peer(i) : client[c] = "gone") /\ Dies

ServerLoop == Receive \/ EndOfFile
Thread == \E i \in DOMAIN thread : FuncStarts(i) \/ Send(i) \/ Broken(i)
Next ==
    \/ StartServer \/ StartMain \/ Pass \/ StopMain \/ ServerLoop \/ Overrun \/ Thread
    \/ \E c \in Clients : Run(c) \/ Leave(c) \/ Hangup(c)

-----------------------------------------------------------------------------
\* The variables have their types.
TypeOK ==
    /\ Len(conn) <= Len(thread) /\ Len(thread) <= max_clients /\ answered \subseteq Clients
    /\ server # "up" => conn = <<>> /\ thread = <<>>

\* A thread may get a later descriptor than its own, or none after the main server
\* ended, but no earlier one.
NeverBackwards == \A i \in DOMAIN thread : thread[i] > 0 => thread[i] >= i

\* The server is dead, and the next client takes the main server down.
MainLags == server = "dead" /\ queue # <<>> /\ mainserver # "dead"

\* A client that is to get a message, or to end: unless a descriptor was read too late or
\* one of the servers is dead.
Overtaken == \E i \in DOMAIN thread : thread[i] > i
Waiting(c) == client[c] = "talking" /\ c \notin answered
Unserved(c) ==
    Waiting(c) /\ ~Overtaken /\ ~Overflow /\ "dead" \notin {server, mainserver}
=============================================================================
