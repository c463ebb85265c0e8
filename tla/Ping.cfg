SPECIFICATION FairSpec
CONSTANTS
    Half = 4
    TIMEOUT = TIMEOUT
    MaxPings = 3
    MaxQueue = 2
INVARIANTS
    ReportedOnce
    ReplyIsOwn
    TimeoutMeansNoResponse
PROPERTIES
    LimitedIsReported
