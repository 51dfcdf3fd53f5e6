SPECIFICATION FairAuth
CONSTANTS
    chunkA = chunkA
    chunkB = chunkB
    chunkC = chunkC
    idA = idA
    idB = idB
    idC = idC
    Chunks <- MCChunks
    Cids <- MCCids
    CidOf <- MCCidOf
    LengthOf <- MCBlocks
    Inputs <- MCInputs
    MaxDictChunks = 2
    ChunkSize = 2
    ProbeChoices = {{}, {"tamper"}, {"replay"}, {"tamper", "replay"}}
    ProbeGap = 2
    WindowSize = 4
    MaxFaults = 1
    MaxInput = 5
CHECK_DEADLOCK FALSE
INVARIANTS
    AuthTypeOK
    FailureHasCause
    StatsAgree
PROPERTIES
    ImplementsTransfer
    BothEnd
