SPECIFICATION Spec
CONSTANTS
    Formats = {"delimited", "arrow", "parquet", "excel"}
    MaxStepRanges = 2
    MaxSafeInteger = 9
    OperationBudget = 1
    BudgetBytes = 3
    MaxU64 = 9
    MaxSources = 2
    Weights = {1}
    OperationBytes = 1
    Lengths = {2}
    MaxOperations = 4
    MaxHandles = 4
    MaxSteps = 2
    ChunkBytes = 1
    IndexBudget = 2
    ScannerBytes = 1
    MaxActiveRanges = 2
INVARIANTS
    RegistryInv
    NoOrphans
    RetainedExact
    LedgerInv
CHECK_DEADLOCK FALSE
