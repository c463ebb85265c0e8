SPECIFICATION Spec
CONSTANTS
    SqnMod = 3
    OverflowMod = 4
    NullContexts = {2}
    MaxContext = 3
    MaxDown = 8
    MaxUp = 13
INVARIANTS
    UplinkCountIsSerial
    StoredCountIsSenders
    WindowIsAccepted
PROPERTIES
    AcceptedNumbersMoveOn
