SPECIFICATION Spec
CONSTANTS
    Gnbs = {g1}
    Gutis = {guti}
    Rands = {r1, r2}
    TestCases <- ContinuedTests
    AUTO = FALSE
    SwitchOff = FALSE
    NONE = NONE
    MaxInFlight = 2
    MaxSearch = 1
INVARIANTS
    SuciKeptWhileT3519Runs
    CurrentContextIsKeyed
    RequestStoredWhenUsed
    RegisteredIsAnchored
    RegisteredStatesAgree
CHECK_DEADLOCK FALSE
SYMMETRY RandSymmetry
