CONSTANTS
    Ids = {1, 2, 3}
    Running <- TwoMissing
    Wishes <- MCWishes
    MaxJobs = 4
    MaxStarts = 3
SPECIFICATION FairSpec
INVARIANTS
    Payments
PROPERTIES
    NotKeptWaiting
    JobDone
CHECK_DEADLOCK FALSE
