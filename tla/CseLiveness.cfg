CONSTANTS
    c1 = c1
    c2 = c2
    Clients = {c1, c2}
    Junk = Junk
    Unread = Unread
    MaxClients <- OneEach
    SockBuf = 1
    Backlog = 1
    Requests = {1, 2, 3}
    SharedSlot = FALSE
SPECIFICATION FairSpec
PROPERTIES
    ImplementsOffice
    ShutdownCascade
    EndSpreadsUp
    EveryRequestSettled
CHECK_DEADLOCK FALSE
