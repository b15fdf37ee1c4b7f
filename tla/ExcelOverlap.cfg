SPECIFICATION Spec
CONSTANTS
    None = None
    ChunkBytes = 3
    MaxCompactBytes = 12
    SignatureBytes = 2
    EndBytes = 2
    HeaderBytes = 2
    TailBytes = 6
    MaxZipEntries = 7
    MaxCentralBytes = 4
    MaxCompressedBytes = 3
    MaxExpandedBytes = 4
    MaxSheets = 3
    PlaceholderBytes = 1
    Limits <- MCLimits
    Cost <- MCCost
    MemoryBudget = 65
    MaxSources = 2
    DataBytes = 2
    StringBytes = 2
    MaskBytes = 1
    OffsetBytes = 2
    Group = 2
    Files <- MCFiles
    Requests <- MCRequests
    OperationBudget = 6
    MaxSourceBytes = 40
    MaxHandles = 3
CHECK_DEADLOCK FALSE
INVARIANTS
    NoOverlap
