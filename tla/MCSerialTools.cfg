SPECIFICATION MCSpec
CONSTANTS
    Operations = {"set", "status", "clear"}
    Status = "status"
    RequestLength <- MCRequestLength
    response_length <- MCResponseLength
    MaxExchanges = 2
    MaxNoise = 1
    MaxStale = 1
    Outside = Outside
    Untracked = Untracked
    Tracked = Tracked
    Vectored = {"set"}
    OperandValues = {v1, v2}
    PacketRuns = 4
    PacketLate = 3
    PacketDamage = 1
    Ulx3sOperands = 3
    Ulx3sReply = 2
    DrainMax = 8
    Ulx3sRuns = 2
    Ulx3sDamage = 1
    None = None
CHECK_DEADLOCK FALSE
INVARIANT ExchangeIsOwn
INVARIANT RecordIsTrue
INVARIANT SuccessIsOwn
INVARIANT VerdictIsTrue
PROPERTY EveryRunEnds
