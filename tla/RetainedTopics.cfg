SPECIFICATION Spec
CONSTANTS
    Sensors = {1}
    StaleCycles = 2
    Upsets = {"reconnect", "late", "raise", "crash", "displace", "discovery", "retain"}
    MaxUpsets = 2
    MaxOutage = 2
INVARIANTS
    NoOrphanTopic
    ClearedAtThreshold
    PublishedIsHeld
PROPERTIES
    ClearedOnlyAfterMisses
    UnwantedIsCleared
    WantedIsRetained
