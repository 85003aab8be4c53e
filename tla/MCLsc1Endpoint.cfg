SPECIFICATION HistorySpec
CONSTANTS
    FieldBits = 2
    ReductionLow = {0, 1}
    IndexBits = 1
    U32_MAX = 4
    InstructionRequests <- MCInstructionRequests
    TxnIds = {1, 2}
    ServiceIds = {1, 2}
    Digests <- MCDigests
    CrcWords <- MCCrcWords
    Crc <- MCCrc
    ServiceSeqMax = 2
    RetireSeqMax = 2
    None = None
CHECK_DEADLOCK TRUE
INVARIANT StagedContinuesCommitted
INVARIANT OfferedResultRetires
INVARIANT StaleAnswersAreRefused
PROPERTY TransactionDiscipline
PROPERTY ImplementsRetirement
