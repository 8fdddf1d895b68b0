CONSTANT MaxStarts = 3
CONSTANTS
    NTrains = 2
    NPlatforms = 2
    MayStop <- FirstOnes
    MaxKills = 1
SPECIFICATION AllFairSpec
INVARIANTS
    StartedRight
    RightArrivals
PROPERTIES
    Proceeds
CHECK_DEADLOCK FALSE
