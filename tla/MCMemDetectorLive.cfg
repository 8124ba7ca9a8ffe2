SPECIFICATION LiveSpec
CONSTANTS
    Threads <- SharingThreads
    MAIN = 1
    DETACHED <- OneDetached
    Addresses = {a1, a2}
    nullptr = nullptr
    kPerThreadsCount = 2
    MAX_RECORDS = 2
PROPERTIES
    CallsReturn
    OffStaysOff
    OnlyThrownPushesLose
