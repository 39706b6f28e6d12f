SPECIFICATION Spec
CONSTANTS
    MaxMessages = 4
    Size <- MCSize
    MaxBytes = 2
    BatchLimit = 2
    MaxFaults = 3
INVARIANTS
    NothingLost
PROPERTIES
    OnceWithoutFaults
    Promised
