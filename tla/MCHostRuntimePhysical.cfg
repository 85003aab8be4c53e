SPECIFICATION MCSpec
CONSTANTS
    FieldBits = 3
    ReductionLow = {0, 1}
    IndexBits = 2
    U32_MAX = 5
    InstructionRequests = {}
    TxnIds = {}
    ServiceIds = {}
    Digests = {}
    CrcWords = {0, 1, 2}
    Crc <- MCCrc
    ServiceSeqMax = 8
    RetireSeqMax = 4
    None = None
    Programs <- MCPrograms
    Memories <- MCMemories
    HostProfile = "INTERPRETER_COMPAT"
    Compress <- MCCompress
    PhysicalLane = TRUE
    MaxTxn = 6
    AnyTxn = 4
    MaxFailures = 3
CHECK_DEADLOCK FALSE
INVARIANT NoStrandedService
