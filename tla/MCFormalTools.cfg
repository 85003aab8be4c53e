SPECIFICATION MCSpec
CONSTANTS
    Contents = {"a", "b"}
    Pinned = "a"
    Satisfying = {"a"}
    MaxFaults = 2
    MaxEdits = 2
    PendingEdits = 2
    PendingTrouble = 1
    PendingOdd = 1
    MutationGates = {"lifecycle", "lsc1u", "simulation", "lean"}
    GateMutations = {1, 2}
    GateGoals = {1, 2}
    GateChecks <- MCChecks
    GateEdits = 1
    GateTrouble = 1
CHECK_DEADLOCK FALSE
INVARIANT VerdictIsSound
INVARIANT AcceptanceIsExact
INVARIANT GateIsHonest
INVARIANT PendingGateIsHonest
