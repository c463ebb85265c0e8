SPECIFICATION Spec
CONSTANTS
    Sessions <- TwoNetworks
    NONE = NONE
    MaxItems = 1
    MaxData = 0
INVARIANTS
    OverwritesSameAddress
CHECK_DEADLOCK FALSE
