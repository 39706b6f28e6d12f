SPECIFICATION Spec
CONSTANTS
    thermometer = thermometer
    hygrometer = hygrometer
    cold = cold
    warm = warm
    Empty = Empty
    Sensors <- MCSensors
    Cloud <- MCCloud
    Values = {cold, warm}
    Attempts = 2
    Thresholds = {1, 2}
    Selections <- MCSelections
    MaxMisses = 2
INVARIANTS
    ReuseKeepsLatest
    StaleOnlyAfterMisses
PROPERTIES
    StaleSinceIsStable
