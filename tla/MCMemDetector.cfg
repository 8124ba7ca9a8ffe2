SPECIFICATION Spec
CONSTANTS
    Threads <- AllThreads
    MAIN = 1
    DETACHED <- None
    Addresses = {a1, a2}
    nullptr = nullptr
    kPerThreadsCount = 2
    MAX_RECORDS = 3
SYMMETRY Symmetric
INVARIANTS
    TypeOK
    NoReentry
    RecordingOn
    LogTruthful
PROPERTIES
    LogFrozen
    ImplementsAllocationLog
