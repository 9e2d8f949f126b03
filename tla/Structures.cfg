SPECIFICATION MCSpec
CONSTANTS
    IVs = {0, 64, 128, 192, 1}
    CAPACITY = 5
    MaxPresented = 6
    HashV <- Identity
    HASH_INITIAL_NUM_BUCKETS = 1
    HASH_BKT_CAPACITY_THRESH = 1
    IPV4_BIT_SIZE = 2
    IPV6_BIT_SIZE = 2
    MaxChanges = 3
    MaxLines = 3
    MaxListChanges = 1
    HeapWatchers = {1, 2, 3, 4, 5, 6, 7, 8}
    HeapWorlds <- MCHeapWorlds
    Delays = {1, 2}
    NUMPRI = 2
    EV_PID_HASHSIZE = 2
    EwOps = 5
    EwWorlds <- MCEwWorlds
    BkFds = {0, 2}
    NFDBITS = 2
    MaxFiles = 3
    BkWorlds <- MCBkWorlds
    StatWatchers = {1, 2}
    MaxQueued = 3
    StWorlds <- MCStWorlds
    GcObjects = {1, 2, 3}
    ROOTS_SIZE = 4
    MaxGcSteps = 4
    GcGraphs <- MCGcGraphs
    CtKeys = {1, 2, 3, 5}
    CtValues = {7}
    CtHash <- Identity
    CORK_HASH_TABLE_DEFAULT_INITIAL_SIZE = 2
    CORK_HASH_TABLE_MAX_DENSITY = 0
    PerBlock = 2
    CtSizes = {4}
    CtStarts <- MCCtStarts
    MaxCtSteps = 4
    Slots = {1, 2}
    ManagedBufs = {1, 2}
    RegionSize = 2
    MaxSliceSteps = 4
    DUMP = 3
    BufCases <- MCBufCases
INVARIANTS
    TableSound
    
PROPERTIES
    ReplayWindow
    AddressSetsSound
    
CHECK_DEADLOCK FALSE
