SPECIFICATION Spec
CONSTANTS
    Threads = {t1, t2}
    Chunks = {c1, c2, c3}
    NULL = NULL
    NoRequest = NoRequest
    Requests <- EdgeRequests
    ALIGNMENT = 2
    SizeofChunk = 2
    MAX_FAST_SIZE = 4
    MMAP_THRESHOLD = 8
    MAX_ALLOC_SIZE = 10
    SIZE_RANGE = 32
SYMMETRY Symmetry
INVARIANTS
    HeldBlocksFit
