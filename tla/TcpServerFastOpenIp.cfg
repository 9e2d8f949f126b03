SPECIFICATION Spec
CONSTANTS
    BUF_SIZE = 4
    IvLen = 1
    HdrLen = 1
    ONETIMEAUTH_BYTES = 1
    UpLen = 4
    DownLen = 3
    Released <- MCReleased
    Kinds = {"ip"}
    FastOpenKinds = {"ip"}
    Otas = {FALSE}
    FAST_OPEN = {TRUE}
    AUTH = FALSE
    ACL = "white"
    IDLE_TICKS = 1
    MaxSpurious = 1
INVARIANTS
    UpstreamExact
CHECK_DEADLOCK FALSE
