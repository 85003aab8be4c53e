SPECIFICATION MCSpec
CONSTANTS
    FieldBits = 3
    ReductionLow = {0, 1}
    IndexBits = 2
    U32_MAX = 7
    Requests <- MCFrontendRequests
    TxnIds = {1, 2}
    ServiceIds = {1, 2}
    Digests <- MCDigests
    CrcWords = {0, 1, 2}
    Crc <- MCCrc
    ServiceSeqMax = 2
    RetireSeqMax = 2
    ServiceCells = 5
    None = None
INVARIANT FrontendIsTheModel
INVARIANT ReceiverIsBounded
PROPERTY EdgesAreSound
PROPERTY ImplementsRetirement
PROPERTY EveryFrameIsAnswered
PROPERTY ImplementsEndpoint
