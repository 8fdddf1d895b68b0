CONSTANTS
    c1 = c1
    c2 = c2
    Clients = {c1, c2}
    NfsLines <- TypedLines
    SumLines <- TypedSums
    Tree <- SmallTree
    FtpFiles <- ShortFiles
    MaxCalls = 2
    MaxSumCalls = 2
    MaxTries = 2
    MaxStarts = 2
    MaxPrinted = 4
    MaxFds = 1
    BufSize = 2
    Blank = Blank
    Null = Null
SPECIFICATION FairSpec
INVARIANTS
    RightResults
    ServerSound
PROPERTIES
    ImplementsAtLeastOnce
    LostForEver
    CallReturns
    FtpDelivered
CHECK_DEADLOCK FALSE
