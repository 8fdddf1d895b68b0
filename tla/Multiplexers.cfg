CONSTANTS
    Clients = {c1, c2, c3}
    MssClients = {c1, c2}
    Registered = {r1, r2}
    Started = {t1, t2}
    Present = {t1}
    Threaded = {m1}
    Prethreaded = {p1}
    MssThreads = 1
    Threads = 2
    Rounds = 3
    max_services = 2
    MainServers = 4
    max_clients = 3
    NPorts = 2
    MaxProcs = 4
    MaxFds = 2
    MaxLost = 2
    Nobody = Nobody
SPECIFICATION FairSpec
INVARIANTS
    RightConnection
    RightService
PROPERTIES
    LostForEver
    Served
CHECK_DEADLOCK FALSE
