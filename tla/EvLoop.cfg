SPECIFICATION FairSpec
CONSTANTS
    fd1 = fd1
    fd2 = fd2
    Fds = {fd1, fd2}
    Once = {once}
    Repeat = {again}
    Signal = signal
    NoWatcher = none
    Main = main
    AFTER = 1
    MINTIME = 1
    MaxLag = 2
    Scenarios <- MCScenarios
INVARIANTS
    PendingAgrees
    KernelArmed
    SignalsKept
PROPERTIES
    ContractKept
    LoopLive
