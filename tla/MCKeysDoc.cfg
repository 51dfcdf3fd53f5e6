SPECIFICATION LayersSpec
CONSTANTS
    Nonces <- MCNonces
    MaxNonce = 7
    Size = 3
    Bytes = {0, 1, 2, 3}
    Bits = 2
    MinSize = 2
    MaxSize = 4
    FixedSize = 3
    MaxData = 8
    Masters <- MCMasters
    Characters <- MCCharacters
    Contexts <- MCContexts
    Lengths <- MCLengths
    HashLen = 2
    MaxCounter = 3
    MaxBytes = 1
    MaxField = 4
    MaxMessage = 9
    Sendable <- MCSendable
    OddBodies <- MCOddBodies
    MaxSent = 3
    Types <- MCTypes
    Units <- MCUnits
    MaxBody = 9
    f1 = f1
    f2 = f2
    Flows <- MCFlows
    LossEvery = 2
    Delay = 1
    Sizes = {1, 2}
    MaxDatagrams = 3
    MaxTime = 3
SYMMETRY MCSymmetry
CHECK_DEADLOCK FALSE
INVARIANT KeysChangeWithContext
