SPECIFICATION FairSession
CONSTANTS
    chunkA = chunkA
    chunkB = chunkB
    chunkC = chunkC
    idA = idA
    idB = idB
    idC = idC
    Stream = Stream
    NoPayload = NoPayload
    Chunks <- MCChunks
    Cids <- MCCids
    CidOf <- MCCidOf
    LengthOf <- MCLengthOf
    Inputs <- MCInputs
    Messages <- MCMessages
    Streams <- MCStreams
    MaxDictChunks = 2
    WindowSize = 3
    MaxFrameCount = 4
    MaxInput = 4
    MissingEvery = 2
    MaxMissing = 2
CHECK_DEADLOCK FALSE
INVARIANTS
    SessionTypeOK
    EveryMissRepairable
    NeverRejected
    VerdictAgrees
PROPERTIES
    ImplementsTransfer
    SessionEnds
