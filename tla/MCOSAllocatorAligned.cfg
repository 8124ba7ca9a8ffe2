SPECIFICATION Spec
CONSTANTS
    PTR_SIZE = 1
    PAGE_SIZE = 8
    HUGE_PAGE_THRESHOLD = 16
    SIZE_RANGE = 256
    PAGES_END = 56
    HEAP_END = 64
    Requests <- AlignedRequests
    BigRequests <- BigPageRequests
    Builds <- Both
INVARIANTS
    BlocksUsable
    BlocksAligned
    HeadersInside
