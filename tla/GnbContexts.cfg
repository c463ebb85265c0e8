SPECIFICATION Spec
CONSTANTS
    Ues = {u1, u2}
    Amfs = {a1, a2}
    FirstAmf = a1
    AmfSetOf <- OwnSets
    Outbound = 1
    InStreams <- Stream1
    IgnoreStreamIds = TRUE
    AmfKinds = {"InitialContextSetup", "Reroute", "Release", "Other"}
    AmfUeIds = {i1, i2}
    NONE = NONE
    MaxRanId = 2
    MaxQueue = 2
INVARIANTS
    NothingAfterRelease
PROPERTY RefinesUeAssociations
CHECK_DEADLOCK FALSE
SYMMETRY Symmetry
