CONSTANTS
    Nobody = Nobody
    Clients = {c1, c2, c3}
    N = 3
    Cap = 1
    LogServers = {c1, c2}
    LogFifos = 2
    Count = 3
    Fifos = 2
    Servers <- OneOfEach
    MaxTalk = 1
SPECIFICATION FairSpec
INVARIANTS
    ChatBroadcast
    MultiAllotted
    ServiceAllotted
    LogsNoGaps
PROPERTIES
    StuckForEver
    Settled
CHECK_DEADLOCK FALSE
