SPECIFICATION Spec
CONSTANTS
    Threads = {t1, t2, t3}
    Addresses = {p1, p2, p3, p4, p5}
    nullptr = nullptr
    None = None
    Requests <- PoolRequests
    Counts = {2}
    PoolSizes = {2, 4}
    Limit = 4
SYMMETRY Symmetric
INVARIANTS
    TypeOK
    NoRaceAfterFirstCalls
PROPERTIES
    OnlyFirstBlocksLost
    SmallBlocksFreed
    ImplementsBlockStore
