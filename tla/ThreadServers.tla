--------------------------- MODULE ThreadServers ---------------------------
(***************************************************************************)
(* mid/multithreaded and mid/prethreaded: servers on a port the clients    *)
(* know.                                                                   *)
(***************************************************************************)
EXTENDS Workers

Init == WInit /\ service = [s \in Services |-> "starting"]

\* client.c of both: the port is compiled in
Run(c) ==
    /\ client[c] = "off"
    /\ client' = [client EXCEPT ![c] = "told"]
    /\ \E s \in Services : port' = [port EXCEPT ![c] = s]
    /\ UNCHANGED <<service, backlog, conn, nfd, thread, answered>>

Next ==
    \/ \E c \in Clients : Run(c) \/ ClientStep(c) \/ Leave(c)
    \/ \E s \in Services : Listen(s) \/ MainLoop(s) \/ Thread(s)

-----------------------------------------------------------------------------
\* Where the threads accept for themselves, each serves the connection it accepted.
OwnConnection ==
    \A s \in Pre : Len(conn[s]) = Len(thread[s]) /\ \A i \in DOMAIN thread[s] : thread[s][i] = i
=============================================================================
