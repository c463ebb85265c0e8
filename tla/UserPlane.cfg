SPECIFICATION FairSpec
CONSTANTS
    Sessions <- OneNetwork
    NONE = NONE
    MaxItems = 2
    MaxData = 1
INVARIANTS
    NothingLost
    UplinkInOwnTunnel
    DownlinkReachesItsUe
    DataFollowsAccept
PROPERTIES
    AcceptedIsRouted
    DownlinkArrives
CHECK_DEADLOCK FALSE
