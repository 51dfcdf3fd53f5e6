SPECIFICATION UdpSpec
CONSTANTS
    chunkA = chunkA
    chunkB = chunkB
    chunkC = chunkC
    idA = idA
    idB = idB
    idC = idC
    Chunks <- MCChunks
    Cids <- MCCids
    CidOf <- MCCidOf
    LengthOf <- MCLengthOf
    Inputs <- MCInputs
    MaxDictChunks = 2
    MaxRetries = 1
    DropEvery = 0
    MaxFaults = 1
    MaxInput = 2
CHECK_DEADLOCK FALSE
INVARIANT DuplicateMissIdempotent
