SPECIFICATION FairSpec
CONSTANTS
    BUF_SIZE = 6
    IvLen = 1
    HdrLen = 1
    ONETIMEAUTH_BYTES = 1
    UpLen = 4
    DownLen = 3
    Released <- MCReleased
    Kinds = {"ip", "domain", "invalid"}
    FastOpenKinds = {"domain"}
    Otas = {TRUE, FALSE}
    FAST_OPEN = {TRUE, FALSE}
    AUTH = FALSE
    ACL = "black"
    IDLE_TICKS = 1
    MaxSpurious = 1
INVARIANTS
    ObjectsSound
    NoStall
    UpstreamExact
    DownstreamExact
PROPERTIES
    ConnectionsEnd
CHECK_DEADLOCK FALSE
