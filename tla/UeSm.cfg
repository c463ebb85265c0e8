SPECIFICATION FairSpec
CONSTANTS
    MaxPsi = 3
    MaxPti = 3
    Addresses = {a1, a2}
    NONE = NONE
    PENDING = PENDING
    RELEASED = RELEASED
    MaxQueue = 3
INVARIANTS
    RequestsShareNothing
    NoSharedSession
    T3580RunsForARequest
    ConnectionIsASession
PROPERTIES
    AcceptedIsReported
