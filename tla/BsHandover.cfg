CONSTANTS
    c1 = c1
    c2 = c2
    c3 = c3
    Clients = {c1, c2, c3}
    Greeting = Greeting
    Zero = Zero
    Unread = Unread
    MaxClients = 3
    PastThreads = "pid"
    OldSegment = {"none", "stale"}
SPECIFICATION FairSpec
INVARIANTS
    SafeHandover
    NoStaleThread
PROPERTIES
    Handover
CHECK_DEADLOCK FALSE
