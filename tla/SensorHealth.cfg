SPECIFICATION Spec
CONSTANTS
    Polls = {10, 20}
    Attempts = {1, 3}
    Scan = 5
    Durations = {9, 19, 40}
    Window = 2
    MaxCycles = 3
    None = None
INVARIANTS
    ReadyWhileSucceeding
    PageIsCoherent
    VerdictsFollow
CHECK_DEADLOCK FALSE
