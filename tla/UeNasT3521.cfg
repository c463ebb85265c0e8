SPECIFICATION Spec
CONSTANTS
    Gnbs = {g1}
    Gutis = {guti}
    Rands = {r1}
    TestCases = {"deRegistration"}
    AUTO = FALSE
    SwitchOff = FALSE
    NONE = NONE
    MaxInFlight = 1
    MaxSearch = 1
PROPERTIES
    T3521GuardsDeregistration
CHECK_DEADLOCK FALSE
