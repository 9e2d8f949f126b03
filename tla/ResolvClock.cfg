SPECIFICATION Spec
CONSTANTS
    Contexts <- MCClock
    Clients = {c1, c2}
    c1 = c1
    c2 = c2
    SubmitFails = TRUE
INVARIANT TimerArmed
CHECK_DEADLOCK FALSE
