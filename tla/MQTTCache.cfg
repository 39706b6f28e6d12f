SPECIFICATION Spec
CONSTANTS
    small = small
    medium = medium
    large = large
    Messages <- MCMessages
    Size <- MCSize
    Limits <- MCLimits
    BatchLimit = 2
    Archives <- MCArchives
    MaxId = 8
PROPERTIES
    InsertsStayWithinLimit
    DisplacesOldestOnly
