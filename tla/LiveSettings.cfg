SPECIFICATION Spec
CONSTANTS
    Keys <- MCKeys
    Section <- MCSection
    Values = {"default", "other", "bad"}
    Bad = {"bad"}
    Defaults <- MCDefaults
    Unset <- MCUnset
    Scalar = {"poll_interval", "sensor_stale_cycles", "discovery_prefix"}
    Prefixes = {"discovery_prefix"}
    Trimmed <- MCTrimmed
    Parsed = {"devices"}
    Checked = {"sensor_stale_cycles"}
    Options <- MCOptions
    Archives <- MCArchives
    Directories = {"default", "elsewhere"}
    FileDirectory = "default"
    Threads = {t1, t2}
    MaxChanges = 3
SYMMETRY Interchangeable
INVARIANTS
    SavedIsKept
    LiveIsSaved
CHECK_DEADLOCK FALSE
