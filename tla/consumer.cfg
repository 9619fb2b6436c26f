SPECIFICATION FairSpec
CONSTANTS
    Members = {m1, m2}
    None = None
    Partitions = {t1, t2}
    MixedFetch = FALSE
    MaxRecords = 2
    MaxFaults = 1
    MaxRebalances = 2
INVARIANTS
    TypeOK
    CommittedHandled
    NothingSkipped
    HandledInOrder
PROPERTIES
    DeliversAtLeastOnce
