SPECIFICATION Spec
CONSTANTS
    PTR_SIZE = 1
    PAGE_SIZE = 8
    HUGE_PAGE_THRESHOLD = 16
    SIZE_RANGE = 256
    PAGES_END = 64
    HEAP_END = 72
    Requests <- None
    BigRequests <- BigPageRequests
    Builds <- Release
INVARIANTS
    NothingLost
