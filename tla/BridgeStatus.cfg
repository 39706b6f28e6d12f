SPECIFICATION ServiceSpec
CONSTANTS
    MaxFaults = 4
    MaxStarts = 3
    Editors = {1, 2}
    MaxSaves = 2
    ServiceFaults = 1
    ServiceStarts = 2
INVARIANTS
    AbsentIsOffline
    SettledIsOnline
    StoppedLeavesNoGateway
    ConfirmedIsLoaded
PROPERTIES
    StatusFollowsProcess
CHECK_DEADLOCK FALSE
