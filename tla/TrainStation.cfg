CONSTANT NTrains = 4
SPECIFICATION FairSpec
INVARIANTS
    OneTrainEach
PROPERTIES
    StrandedForEver
    PassedIsServed
CHECK_DEADLOCK FALSE
