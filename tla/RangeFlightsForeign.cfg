SPECIFICATION Spec
CONSTANTS
    c1 = c1  c2 = c2  c3 = c3  h1 = h1  h2 = h2
    Calls = {c1, c2}
    Handles = {h1, h2}
    HandleOf <- MCHandleOf
    MaxRevision = 0
    None = None
INVARIANTS
    OthersUndisturbed
CHECK_DEADLOCK FALSE
