SPECIFICATION FairUdp
CONSTANTS
    chunkA = chunkA
    chunkB = chunkB
    chunkC = chunkC
    idA = idA
    idB = idB
    idC = idC
    Chunks <- MCChunks
    Cids <- MCCids
    CidOf <- MCCidOf
    LengthOf <- MCLengthOf
    Inputs <- MCInputs
    MaxDictChunks = 2
    MaxRetries = 2
    DropEvery = 2
    MaxFaults = 3
    MaxInput = 4
CHECK_DEADLOCK FALSE
INVARIANTS
    UdpTypeOK
    StopAndWait
    FailureHasCause
    CountsMatch
PROPERTIES
    ImplementsTransfer
    BothEnd
