-------------------------------- MODULE Mss --------------------------------
(***************************************************************************)
(* mid/mss: service programs register their port with a main server, and   *)
(* clients ask it for the i-th port registered.  After one select the main *)
(* server runs the same test Rounds times: it clears a service it accepted *)
(* from the set but never a client, so from the first client on it sits in *)
(* accept until Rounds - 1 others have come.                               *)
(***************************************************************************)
EXTENDS Workers

CONSTANTS
    Rounds,         \* max_fd + 1
    max_services    \* the size of the array services

VARIABLES
    services,   \* the services registered, in the order of registration
    readset,    \* what select returned: subset of {"ssfd", "csfd"}
    left,       \* iterations of the loop left; 0: in select
    squeue,     \* connections to port 8000: services
    cqueue,     \* connections to port 9000: clients
    want,       \* want[c]: the index client c asks for
    sent        \* the clients the server sent a port to

mssvars == <<services, readset, left, squeue, cqueue, want, sent>>

Init ==
    /\ WInit /\ service = [s \in Services |-> "off"]
    /\ services = <<>> /\ readset = {} /\ left = 0
    /\ squeue = <<>> /\ cqueue = <<>> /\ want = [c \in Clients |-> 0] /\ sent = {}

\* server1.c, server2.c, server3.c: the port is sent first and opened afterwards.
\* Past the array services is undefined, so no more register.
Register(s) ==
    /\ service[s] \in {"off", "dead"} /\ Len(services) + Len(squeue) < max_services
    /\ service' = [service EXCEPT ![s] = "starting"]
    /\ squeue' = Append(squeue, s)
    /\ UNCHANGED <<backlog, conn, nfd, thread, client, port, answered, services, readset,
                   left, cqueue, want, sent>>

\* client.c: connect to 9000 and send the index
Ask(c) ==
    /\ client[c] = "off"
    /\ client' = [client EXCEPT ![c] = "asked"]
    /\ cqueue' = Append(cqueue, c)
    /\ \E k \in 1 .. max_services : want' = [want EXCEPT ![c] = k]
    /\ UNCHANGED <<service, backlog, conn, nfd, thread, port, answered, services, readset,
                   left, squeue, sent>>

\* rep and select
Select ==
    /\ left = 0 /\ squeue \o cqueue # <<>>
    /\ readset' = (IF squeue # <<>> THEN {"ssfd"} ELSE {})
                    \cup (IF cqueue # <<>> THEN {"csfd"} ELSE {})
    /\ left' = Rounds
    /\ UNCHANGED <<wvars, services, squeue, cqueue, want, sent>>

AcceptServiceAtFront ==
    /\ left > 0 /\ "ssfd" \in readset /\ squeue # <<>>
    /\ services' = <<Head(squeue)>> \o services
    /\ squeue' = Tail(squeue)
    /\ readset' = readset \ {"ssfd"} /\ left' = left - 1
    /\ UNCHANGED <<wvars, cqueue, want, sent>>

AcceptService ==
    /\ left > 0 /\ "ssfd" \in readset /\ squeue # <<>>
    /\ services' = Append(services, Head(squeue))
    /\ squeue' = Tail(squeue)
    /\ readset' = readset \ {"ssfd"} /\ left' = left - 1
    /\ UNCHANGED <<wvars, cqueue, want, sent>>

\* Without an answer the client takes the port from an array it never assigned: any.
Told(k) == IF k \in DOMAIN services THEN {services[k]} ELSE Services \cup {Nobody}

\* accept blocks while cqueue is empty
AcceptClient ==
    /\ left > 0 /\ "ssfd" \notin readset /\ "csfd" \in readset /\ cqueue # <<>>
    /\ left' = left - 1 /\ cqueue' = Tail(cqueue)
    /\ LET c == Head(cqueue) IN
       IF client[c] = "gone" THEN UNCHANGED <<client, port, sent>>
       ELSE /\ client' = [client EXCEPT ![c] = "told"]
            /\ \E s \in Told(want[c]) : port' = [port EXCEPT ![c] = s]
            /\ sent' = sent \cup (IF want[c] \in DOMAIN services THEN {c} ELSE {})
    /\ UNCHANGED <<service, backlog, conn, nfd, thread, answered, services, readset, squeue,
                   want>>

Continue ==
    /\ left > 0 /\ readset = {}
    /\ left' = 0
    /\ UNCHANGED <<wvars, services, readset, squeue, cqueue, want, sent>>

Server == Select \/ AcceptService \/ AcceptClient \/ Continue
Programs ==
    \/ \E c \in Clients : ClientStep(c) \/ Leave(c)
    \/ \E s \in Services : Listen(s) \/ MainLoop(s) \/ Thread(s)
Next ==
    \/ Server
    \/ \E s \in Services : Register(s)
    \/ \E c \in Clients : Ask(c)
    \/ Programs /\ UNCHANGED mssvars

-----------------------------------------------------------------------------
\* The variables have their types.
TypeOK ==
    /\ WTypeOK
    /\ services \in Seq(Services) /\ Len(services) <= max_services
    /\ readset \subseteq {"ssfd", "csfd"} /\ left \in 0 .. Rounds

\* A port once sent stays the port of the index asked for, although services die,
\* start again and register again.
StillRight ==
    \A c \in sent : want[c] \in DOMAIN services /\ port[c] = services[want[c]]

\* A question not settled yet: none stays so for ever, although the server blocks in accept.
Unanswered(c) == client[c] = "asked"

\* Once the server waits for a client and no client is to come, the services that
\* connect are never registered.
Starving ==
    /\ left > 0 /\ readset = {"csfd"} /\ cqueue = <<>>
    /\ \A c \in Clients : client[c] # "off"
StarvedForEver ==
    [][Starving => Starving' /\ services' = services]_<<wvars, mssvars>>
=============================================================================
