SPECIFICATION WindowSpec
CONSTANTS
    Devices = {"d1", "d2"}
    BuiltIn <- MCBuiltIn
    BuiltInCloud <- MCBuiltInCloud
    Coroutines = {"airthings"}
    EntryPoints <- MCEntryPoints
    CloudEntryPoints <- MCCloudEntryPoints
    Enabled = {{}, {"acme", "x-cloud"}, {"tuya-cloud"}}
    Importable = {"ruuvi", "airthings", "acme", "tuya-cloud", "x-cloud"}
    Reads <- MCReads
    Limit = 2
    Workers = 2
    MaxFrames = 4
    MaxWindows = 2
INVARIANTS
    NewestReadingWins
    AnswersAreKept
    BuiltinsPrevail
PROPERTY
    WindowEnds
CHECK_DEADLOCK FALSE
