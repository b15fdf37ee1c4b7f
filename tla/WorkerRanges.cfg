SPECIFICATION MCSpec
CONSTANTS
    t1 = t1  t2 = t2  t3 = t3
    d1 = d1  d2 = d2
    Requests = {r1, r2, r3}
    Tables <- MCTables
    Datasets <- MCDatasets
    DatasetOf <- MCDatasetOf
    LastRow = 0
    MaxActive = 1
    MaxWaiters = 1
SYMMETRY Symmetry
INVARIANTS
    RangeInv
    NoStrandedReader
PROPERTIES
    NoBatchAfterClose
    PermitsRefined
CHECK_DEADLOCK FALSE
