SPECIFICATION Spec
CONSTANTS
    chunkA = chunkA
    chunkB = chunkB
    idA = idA
    idB = idB
    s1 = s1
    s2 = s2
    NoPayload = NoPayload
    MaxFrames = 2
    MaxNonce = 3
    Chunks <- MCChunks
    Cids <- MCCids
    CidOf <- MCCidOf
    LengthOf <- MCLengthOf
    Inputs <- MCTargets
    Messages <- MCMessages
    Streams <- MCStreams
    MaxDictChunks = 1
    MissingEvery = 0
    WindowSize = 2
    MaxFrameCount = 2
    MaxMissing = 1
SYMMETRY Symmetry
CHECK_DEADLOCK FALSE
INVARIANTS TypeOK DictionarySound CursorPartition PromisesKept ReportIsTrue CountsAgree
PROPERTIES DeliveredOnce ReturnIsHarmless ReportIsFinal
