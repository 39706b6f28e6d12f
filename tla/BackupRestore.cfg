SPECIFICATION BackupSpec
CONSTANTS
    Admins = {t1, t2}
    Usernames = {"ann"}
    Paths = {"state.json", "other.json"}
    Nothing = nothing
    Foreign <- MCForeign
    MaxVersion = 2
    MaxRequests = 3
    MaxFaults = 1
SYMMETRY Interchangeable
INVARIANTS
    CredentialFits
    AnsweredIsRestored
CHECK_DEADLOCK FALSE
