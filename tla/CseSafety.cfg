CONSTANTS
    c1 = c1
    c2 = c2
    c3 = c3
    Clients = {c1, c2, c3}
    Junk = Junk
    Unread = Unread
    MaxClients <- TwoAtE
    SockBuf = 1
    Backlog = 1
    Requests = {1, 3}
    SharedSlot = TRUE
SPECIFICATION Spec
SYMMETRY ClientSymmetry
INVARIANTS
    TypeOK
    OverflowOnlyWhenFull
    OnePlace
    NoStaleService
    GenuineShutdown
CHECK_DEADLOCK FALSE
