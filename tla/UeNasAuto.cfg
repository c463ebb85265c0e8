SPECIFICATION Spec
CONSTANTS
    Gnbs = {g1}
    Gutis = {guti}
    Rands = {r1}
    TestCases = {}
    AUTO = TRUE
    SwitchOff = FALSE
    NONE = NONE
    MaxInFlight = 1
    MaxSearch = 2
INVARIANTS
    CycleHandlesEveryState
PROPERTIES
    SearchSucceeds
    SearchTrafficStops
    SearchDrains
CHECK_DEADLOCK FALSE
