SPECIFICATION FairSpec
CONSTANTS
    BUF_SIZE = 4
    IvLen = 1
    HdrLen = 1
    AUTH_BYTES = 1
    UpLen = 3
    DownLen = 3
    IDLE_TICKS = 1
    MaxSpurious = 1
    GreetLen = 1
    ReqLen = 2
    Options <- MCOptions
INVARIANTS
    Lifetimes
    NoStall
PROPERTIES
    UpstreamRelay
    DownstreamRelay
    ConnectionsEnd
