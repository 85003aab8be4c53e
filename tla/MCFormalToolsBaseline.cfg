SPECIFICATION MCSpec
CONSTANTS
    Contents = {"a", "b"}
    Pinned = "a"
    Satisfying = {"a"}
    MaxFaults = 0
    MaxEdits = 0
    PendingEdits = 1
    PendingTrouble = 0
    PendingOdd = 0
    MutationGates = {"lean"}
    GateMutations = {1}
    GateGoals = {1}
    GateChecks <- MCOneCheck
    GateEdits = 0
    GateTrouble = 0
CHECK_DEADLOCK FALSE
INVARIANT MutantsStartFromTheBaseline
