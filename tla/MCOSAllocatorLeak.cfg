SPECIFICATION Spec
CONSTANTS
    PTR_SIZE = 1
    PAGE_SIZE = 8
    HUGE_PAGE_THRESHOLD = 16
    SIZE_RANGE = 256
    PAGES_END = 48
    HEAP_END = 56
    Requests <- AlignedRequests
    BigRequests <- None
    Builds <- Release
INVARIANTS
    NothingLost
