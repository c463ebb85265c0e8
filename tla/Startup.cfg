SPECIFICATION Spec
CONSTANTS
    Amfs = {a1, a2}
    FirstAmf = a1
    Ues = {u1, u2}
    Tests = {"deRegistration", "pduSessionEstablishment"}
    NONE = NONE
    MaxLate = 1
    MaxDown = 4
    MaxTriggers = 1
INVARIANTS
    SctpDeathExplained
    TestsStartTogether
    CommandsInOrder
    ListenerDeathExplained
    WaitExplained
PROPERTY RefinesProcedureTest
SYMMETRY Symmetry
CHECK_DEADLOCK FALSE
