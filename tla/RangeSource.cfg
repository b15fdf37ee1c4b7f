SPECIFICATION SafetySpec
CONSTANTS
    left = left  right = right  middle = middle  all = all  far = far
    Reads <- MCReads
    Want <- MCWant
    MaxCache = 3
    MaxConcurrency = 2
INVARIANTS
    SourceInv
    NoByteFetchedTwice
    NoStrandedRead
CHECK_DEADLOCK FALSE
