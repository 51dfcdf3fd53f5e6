SPECIFICATION CodecsSpec
CONSTANTS
    chunkA = chunkA
    chunkB = chunkB
    chunkC = chunkC
    idA = idA
    idB = idB
    idC = idC
    nameX = nameX
    nameY = nameY
    Chunks <- MCChunks
    Cids <- MCCids
    CidOf <- MCCidOf
    LengthOf <- MCSizes
    Inputs <- MCSizedInputs
    Names <- MCNames
    ObjectLists <- MCObjectLists
    Warms <- MCWarms
    MaxDictChunks = 2
    WindowSize = 2
    MaxInput = 4
CHECK_DEADLOCK FALSE
INVARIANTS
    LockStep
    RoundTrips
    DecodesWhatWasMade
    MissesRepaired
PROPERTY
    ImplementsTransfer
