SPECIFICATION FairSpec
CONSTANTS
    Half = 2
    TIMEOUT = TIMEOUT
    MaxPings = 2
    MaxQueue = 1
INVARIANTS
    TimeoutMeansNoResponse
