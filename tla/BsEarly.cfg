CONSTANTS
    c1 = c1
    c2 = c2
    Clients = {c1, c2}
    Greeting = Greeting
    Zero = Zero
    Unread = Unread
    MaxClients = 2
    PastThreads = "pad"
    OldSegment = {"none"}
SPECIFICATION Spec
SYMMETRY ClientSymmetry
INVARIANT BackupBegins
CHECK_DEADLOCK FALSE
