SPECIFICATION Spec
CONSTANTS
    Ues = {u1, u2}
    Amfs = {a1}
    FirstAmf = a1
    AmfSetOf <- OneSet
    Outbound = 3
    InStreams <- Streams012
    IgnoreStreamIds = FALSE
    AmfKinds = {"DownlinkNas", "Modification", "Release", "ReleaseById", "Other"}
    AmfUeIds = {i1, i2, i3}
    NONE = NONE
    MaxRanId = 3
    MaxQueue = 1
INVARIANTS
    OneDownlinkStream
    UplinkStreamsSpread
    NoMisdelivery
    ThreadDeathsExplained
CHECK_DEADLOCK FALSE
SYMMETRY Symmetry
