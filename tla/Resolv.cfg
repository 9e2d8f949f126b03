SPECIFICATION FairSpec
CONSTANTS
    Contexts <- MCContexts
    Clients = {c1, c2}
    c1 = c1
    c2 = c2
    SubmitFails = TRUE
INVARIANTS
    LookupsSound
    TimerArmedForward
PROPERTIES
    LookupSpec
    Answered
CHECK_DEADLOCK FALSE
