SPECIFICATION SnmpSpec
CONSTANTS
    Addresses = {1, 2}
    Numbers <- MCNumbers
    Absent = Absent
    Identity = {1, 2}
    Measured = {5}
    ScalarColumns = {1, 2}
    MaxScalars = 1
    Bases <- MCBases
INVARIANTS
    WalkIsComplete
    RowsAreConsistent
