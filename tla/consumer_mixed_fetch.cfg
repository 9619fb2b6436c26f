SPECIFICATION Spec
CONSTANTS
    Members = {m1, m2}
    None = None
    Partitions = {t1, t2}
    MixedFetch = TRUE
    MaxRecords = 2
    MaxFaults = 1
    MaxRebalances = 1
SYMMETRY Symmetry
INVARIANTS
    CommittedHandled
