SPECIFICATION MCSpec
CONSTANTS
    FieldBits = 3
    ReductionLow = {0, 1}
    IndexBits = 2
    AddressMax = 3
    PcMax = 3
    Operations <- MCOperations
    LoadValues <- MCLoadValues
    RxTime = 5
    TxTime = 5
    Operands = 4
    MaxAborts = 2
    NoByte = NoByte
    ABORT = ABORT
CHECK_DEADLOCK FALSE
INVARIANT CommandsAreExact
INVARIANT BringupIsSound
INVARIANT ControllerIsTheOracle
INVARIANT BridgeInStep
PROPERTY HandshakesHold
