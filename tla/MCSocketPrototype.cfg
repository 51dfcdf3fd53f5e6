SPECIFICATION FairSocket
CONSTANTS
    chunkA = chunkA
    chunkB = chunkB
    chunkC = chunkC
    idA = idA
    idB = idB
    idC = idC
    Chunks <- MCChunks
    Cids <- MCCids
    CidOf <- MCCidOf
    LengthOf <- MCLengthOf
    Inputs <- MCInputs
    OldFile = OldFile
    MaxDictChunks = 2
    MaxInput = 3
CHECK_DEADLOCK FALSE
INVARIANTS
    AckTellsTruth
PROPERTIES
    ServerEnds
