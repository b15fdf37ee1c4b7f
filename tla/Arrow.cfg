SPECIFICATION Spec
CONSTANTS
    Limits <- MCLimits
    Dictionaries = {1}
    Inputs <- MCInputs
    MaxStepRanges = 2
    StepBudget = 30
    Requests <- MCRequests
INVARIANTS
    WireExact
    PublishedExact
    ReadExact
    DisplayFits
CHECK_DEADLOCK FALSE
