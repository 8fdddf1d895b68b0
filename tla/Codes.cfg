SPECIFICATION FairSpec
INVARIANTS
    CrcCorrect
    HammingCorrect
PROPERTIES
    HeapSorts
CHECK_DEADLOCK FALSE
