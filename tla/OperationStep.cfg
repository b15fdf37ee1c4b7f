SPECIFICATION StepsSpec
CONSTANTS
    many = many  few = few  remote = remote  yield = yield
    Steps <- MCSteps
    Count <- MCCount
    Remote <- MCRemote
    Lanes = 2
    Capacity = 6
INVARIANTS
    StepInv
    PendingCovered
    SmallStepReleased
CHECK_DEADLOCK FALSE
