SPECIFICATION Spec
CONSTANTS
    FieldBits = 2
    ReductionLow = {0, 1}
    IndexBits = 1
    U32_MAX = 3
    AddressMax = 3
    Operations <- MCOperations
    Memories <- MCMemories
CHECK_DEADLOCK FALSE
INVARIANT AgreesWithOracle
INVARIANT HostAndEndpointFit
