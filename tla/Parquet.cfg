SPECIFICATION Spec
CONSTANTS
    None = None
    PageTrackingBytes = 4
    MinTrackedPages = 3
    MaxTrackedPages = 6
    MaxHeaderObservations = 40
    CellBytes = 2
    ElementBytes = 3
    MaxListElements = 2
    PackedGroup = 4
    HeaderBytes = 4
    FooterBytes = 8
    Scenarios <- MCScenarios
INVARIANTS ParquetInv ReadExact FetchedOnce RefusedForSize
CHECK_DEADLOCK FALSE
