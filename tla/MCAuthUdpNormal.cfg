SPECIFICATION AuthSpec
CONSTANTS
    chunkA = chunkA
    chunkB = chunkB
    chunkC = chunkC
    idA = idA
    idB = idB
    idC = idC
    Chunks <- MCChunks
    Cids <- MCCids
    CidOf <- MCCidOf
    LengthOf <- MCBlocks
    Inputs <- MCInputs
    MaxDictChunks = 2
    ChunkSize = 2
    ProbeChoices = {{"replay"}}
    ProbeGap = 2
    WindowSize = 5
    MaxFaults = 0
    MaxInput = 4
CHECK_DEADLOCK FALSE
INVARIANT NormalTrafficAccepted
