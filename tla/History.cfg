SPECIFICATION HistorySpec
CONSTANTS
    SensorCount = 2
    Contents = {"on", "off"}
    None = None
    Snapshots <- MCSnapshots
    Retentions = {1, 2}
    Throttle = 1
    QueryLimit = 3
    Databases <- MCDatabases
    MaxAge = 3
    MaxUpsets = 1
INVARIANTS
    DeduplicationLosesNothing
    DeleteMatchesQuery
PROPERTIES
    RetentionIsEnforced
