SPECIFICATION Spec
CONSTANTS
    Nonces <- MCNonces
    MaxNonce = 7
    Size = 3
INVARIANT KeepsAtMostSize
