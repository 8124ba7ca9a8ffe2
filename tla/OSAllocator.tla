----------------------------- MODULE OSAllocator ------------------------------
(***************************************************************************)
(* OSAllocator::OS_Alloc, OS_AllocBigPage and OS_Free (src/SysApi.cpp): an *)
(* aligned block either comes from the C library, when it is smaller than  *)
(* a page, or is placed in a fresh mapping behind an AllocHeader that      *)
(* remembers the mapping for OS_Free.                                      *)
(*                                                                         *)
(* Addresses are numbers.  Memory is modelled as far as these functions    *)
(* use it: what is mapped, and the headers written into it.  The calls     *)
(* share nothing but the system's own tables, so each is one action.       *)
(* mmap/munmap and VirtualAlloc/VirtualFree, aligned_alloc and free are    *)
(* external; both platforms behave alike here.                             *)
(***************************************************************************)
EXTENDS Integers, FiniteSets, Alignment

CONSTANTS
    PTR_SIZE,            \* sizeof(void*)
    PAGE_SIZE,           \* what GetPageSize returns
    HUGE_PAGE_THRESHOLD, \* size, and here also alignment, of a huge page
    SIZE_RANGE,          \* 2^w for a size_t of w bits
    PAGES_END,           \* mappings lie in PAGE_SIZE .. PAGES_END - 1 and
    HEAP_END,            \* the C heap in PAGES_END .. HEAP_END - 1
    Requests,            \* the calls of OS_Alloc: [size, alignment]
    BigRequests,         \* the calls of OS_AllocBigPage
    Builds               \* of "Debug" and "Release": with and without assert

(* Alignments are powers of two: any two divide one another.               *)
ASSUME SizesAssumption ==
    /\ PTR_SIZE \in Nat \ {0} /\ PAGE_SIZE \in Nat \ {0} /\ PAGE_SIZE % (2 * PTR_SIZE) = 0
    /\ HUGE_PAGE_THRESHOLD \in Nat \ {0} /\ HUGE_PAGE_THRESHOLD % PAGE_SIZE = 0
    /\ PAGES_END \in Nat /\ HEAP_END \in Nat /\ PAGE_SIZE <= PAGES_END /\ PAGES_END <= HEAP_END
    /\ SIZE_RANGE \in Nat /\ HEAP_END < SIZE_RANGE
    /\ Builds \subseteq {"Debug", "Release"}

ASSUME RequestsAssumption ==
    /\ Requests \cup BigRequests \subseteq [size : Nat, alignment : Nat \ {0}]
    /\ \A r \in Requests \cup BigRequests : \A a \in {PTR_SIZE, 2 * PTR_SIZE, PAGE_SIZE} :
          a % r.alignment = 0 \/ r.alignment % a = 0

VARIABLES
    mappings,   \* the live mappings: [base, length]
    headers,    \* the AllocHeaders in memory: [at, base_ptr, total_size]
    heap,       \* the live blocks of the C library: [base, length]
    blocks,     \* what clients hold: [ptr, size, alignment]
    fault       \* the failure that ended the modelled run

vars == <<mappings, headers, heap, blocks, fault>>

-------------------------------------------------------------------------------
(* Where OS_Alloc puts a block and its header.                             *)

sizeofAllocHeader == 2 * PTR_SIZE

Range(base, length) == base .. base + length - 1
MemoryOf(chunks) == UNION {Range(m.base, m.length) : m \in chunks}

(* The alignment OS_Alloc works with.                                      *)
alignment_of(r) == IF r.alignment > PTR_SIZE THEN r.alignment ELSE PTR_SIZE

header_size(a) == AlignUp(sizeofAllocHeader, a)

(* Mutant of total_size: no room for the header.                           *)
total_size_bare(r) == r.size + alignment_of(r)

total_size(r) == (r.size + alignment_of(r) + header_size(alignment_of(r))) % SIZE_RANGE

(* Mutant of aligned_addr: no second attempt when the header does not fit. *)
aligned_addr_once(raw, a) == AlignUp(raw, a)

(* Mutant of aligned_addr: the second attempt without its mask.            *)
aligned_addr_unmasked(raw, a) == raw + a + sizeofAllocHeader - 1

(* The first aligned address, or the first that leaves room for a header.  *)
aligned_addr(raw, a) ==
    IF AlignUp(raw, a) - sizeofAllocHeader < raw
    THEN AlignUp(raw + sizeofAllocHeader, a)
    ELSE AlignUp(raw, a)

(* Mutant of WrittenHeader: the size of the request for that of the mapping. *)
WrittenHeaderOfSize(r, base, ptr) ==
    [at |-> ptr - header_size(alignment_of(r)), base_ptr |-> base, total_size |-> r.size]

(* The header OS_Alloc writes for a block at ptr in the mapping at base.   *)
WrittenHeader(r, base, ptr) ==
    [at |-> ptr - header_size(alignment_of(r)), base_ptr |-> base, total_size |-> total_size(r)]

(* Mutant of header_addr: half a header.                                   *)
header_addr_half(ptr) == ptr - PTR_SIZE

(* The place where OS_Free looks for the header.                           *)
header_addr(ptr) == ptr - sizeofAllocHeader

-------------------------------------------------------------------------------
(* The system, external.                                                   *)

(* mmap rounds the length up to whole pages and may choose any free ones.  *)
Mapping(base, length, page) == [base |-> base, length |-> AlignUp(length, page)]
CanMap(m, page, taken) ==
    /\ m.length # 0 /\ m.base % page = 0
    /\ Range(m.base, m.length) \subseteq PAGE_SIZE .. PAGES_END - 1
    /\ Range(m.base, m.length) \cap MemoryOf(taken) = {}

(* aligned_alloc chooses any free place of the C heap.                     *)
CanAllocate(b, a) ==
    /\ b.base % a = 0
    /\ Range(b.base, b.length) \subseteq PAGES_END .. HEAP_END - 1
    /\ Range(b.base, b.length) \cap MemoryOf(heap) = {}

(* Memory nobody wrote to is zero.                                         *)
Zero(at) == [at |-> at, base_ptr |-> 0, total_size |-> 0]
ReadHeader(at) == CHOOSE h \in headers \cup {Zero(at)} :
                     h.at = at /\ (h \in headers \/ \A g \in headers : g.at # at)

(* munmap of what a header names; nothing is mapped at address 0.          *)
Unmap(h) ==
    LET gone == {m \in mappings : m = Mapping(h.base_ptr, h.total_size, PAGE_SIZE)}
    IN  /\ mappings' = mappings \ gone
        /\ headers' = {g \in headers : g.at \notin MemoryOf(gone)}

-------------------------------------------------------------------------------
(* What a call of OS_Alloc obtains: memory, a header in it, and a pointer. *)

Nullptr == [mapped |-> {}, written |-> {}, taken |-> {}, ptr |-> 0]

(* Less than a page comes from aligned_alloc, which wants a multiple of    *)
(* the alignment; the caller gets nullptr when it fails.                   *)
SmallBlock(r, ptr) == [base |-> ptr, length |-> AlignUp(r.size, alignment_of(r))]
SmallOutcomes(r) ==
    {[mapped |-> {}, written |-> {}, taken |-> {SmallBlock(r, ptr)}, ptr |-> ptr] :
        ptr \in {p \in PAGES_END .. HEAP_END - 1 : CanAllocate(SmallBlock(r, p), alignment_of(r))}}

(* A page or more gets a mapping of its own.                               *)
PageOutcome(r, base) ==
    LET ptr == aligned_addr(base, alignment_of(r))
    IN  [mapped |-> {Mapping(base, total_size(r), PAGE_SIZE)},
         written |-> {WrittenHeader(r, base, ptr)}, taken |-> {}, ptr |-> ptr]
PageOutcomes(r) ==
    {PageOutcome(r, base) :
        base \in {b \in PAGE_SIZE .. PAGES_END - 1 :
                     CanMap(Mapping(b, total_size(r), PAGE_SIZE), PAGE_SIZE, mappings)}}

(* The outcomes in which OS_Alloc returns; it throws if mmap fails.        *)
OS_Alloc(r) ==
    IF r.size = 0 THEN {Nullptr}
    ELSE IF r.size < PAGE_SIZE THEN SmallOutcomes(r) \cup {Nullptr}
    ELSE PageOutcomes(r)

HeaderFits(o) == \A h \in o.written : h.at \in MemoryOf(o.mapped)

-------------------------------------------------------------------------------
Init ==
    /\ mappings = {} /\ headers = {} /\ heap = {}
    /\ blocks = {}
    /\ fault = "none"

(* CHECK_ALIGNMENT: in a Debug build the assertion on the page size.  If   *)
(* both builds are given, a behaviour is that of a Release build up to     *)
(* where a Debug build would have stopped.                                 *)
Accepted(r) == "Release" \in Builds \/ r.alignment >= PAGE_SIZE

AssertFails(r) ==
    /\ "Debug" \in Builds /\ r.alignment < PAGE_SIZE
    /\ fault' = "assert"
    /\ UNCHANGED <<mappings, headers, heap, blocks>>

(* The memory changes hands, unless the header is written outside of it:   *)
(* then something else is overwritten and nothing is known any more.       *)
Obtain(o, mapped, got) ==
    IF HeaderFits(o)
    THEN /\ mappings' = mappings \cup o.mapped \cup mapped
         /\ headers' = headers \cup o.written
         /\ heap' = heap \cup o.taken
         /\ blocks' = blocks \cup got
         /\ UNCHANGED fault
    ELSE /\ fault' = "header"
         /\ UNCHANGED <<mappings, headers, heap, blocks>>

Block(r, ptr) == [ptr |-> ptr, size |-> r.size, alignment |-> r.alignment]

(* Mutant of Alloc: nullptr is taken for a block.                          *)
AllocUnchecked(r) ==
    /\ Accepted(r)
    /\ \E o \in OS_Alloc(r) : Obtain(o, {}, {Block(r, o.ptr)})

(* OS_Alloc, called by a client.                                           *)
Alloc(r) ==
    /\ Accepted(r)
    /\ \E o \in OS_Alloc(r) :
          Obtain(o, {}, IF o = Nullptr THEN {} ELSE {Block(r, o.ptr)})

(* OS_AllocBigPage: for less than the threshold OS_Alloc is called and its *)
(* result dropped.  Either way huge pages are mapped, without a header, or *)
(* std::bad_alloc is thrown when there are none.                           *)
AllocBig(r) ==
    \E o \in IF r.size < HUGE_PAGE_THRESHOLD THEN OS_Alloc(r) ELSE {Nullptr} :
        /\ r.size < HUGE_PAGE_THRESHOLD => Accepted(r)
        /\ \/ Obtain(o, {}, {})
           \/ \E base \in PAGE_SIZE .. PAGES_END - 1 :
                 LET m == Mapping(base, r.size, HUGE_PAGE_THRESHOLD)
                 IN  /\ CanMap(m, HUGE_PAGE_THRESHOLD, mappings \cup o.mapped)
                     /\ Obtain(o, {m}, {Block(r, base)})

(* Mutant of FreeSmall: <= for <.                                          *)
FreeSmallInclusive(b) ==
    LET mine == {m \in heap : m.base = b.ptr}
    IN  /\ b.size <= PAGE_SIZE
        /\ blocks' = blocks \ {b}
        /\ heap' = heap \ mine
        /\ fault' = IF mine = {} THEN "free" ELSE fault
        /\ UNCHANGED <<mappings, headers>>

(* OS_Free is told the block's size: for less than a page it calls free.   *)
FreeSmall(b) ==
    LET mine == {m \in heap : m.base = b.ptr}
    IN  /\ b.size < PAGE_SIZE
        /\ blocks' = blocks \ {b}
        /\ heap' = heap \ mine
        /\ fault' = IF mine = {} THEN "free" ELSE fault
        /\ UNCHANGED <<mappings, headers>>

(* OS_Free: else it takes mapping and length from the header.  What it     *)
(* reads there is anything when no memory or another block is there.       *)
FreePages(b) ==
    /\ b.size >= PAGE_SIZE
    /\ blocks' = blocks \ {b}
    /\ IF /\ header_addr(b.ptr) \in MemoryOf(mappings)
          /\ \A c \in blocks : header_addr(b.ptr) \notin Range(c.ptr, c.size)
       THEN Unmap(ReadHeader(header_addr(b.ptr))) /\ UNCHANGED fault
       ELSE fault' = "read" /\ UNCHANGED <<mappings, headers>>
    /\ UNCHANGED heap

Step ==
    \/ \E r \in Requests : AssertFails(r) \/ Alloc(r)
    \/ \E r \in BigRequests : AllocBig(r) \/ (r.size < HUGE_PAGE_THRESHOLD /\ AssertFails(r))
    \/ \E b \in blocks : FreeSmall(b) \/ FreePages(b)

(* Nothing is said of a program after undefined behaviour.                 *)
Ended == fault # "none" /\ UNCHANGED vars

Next == (fault = "none" /\ Step) \/ Ended

Spec == Init /\ [][Next]_vars

-------------------------------------------------------------------------------
(* The values the variables take.                                          *)
TypeOK ==
    /\ mappings \cup heap \subseteq [base : Nat, length : Nat]
    /\ headers \subseteq [at : Nat, base_ptr : Nat, total_size : Nat]
    /\ blocks \subseteq [ptr : PAGE_SIZE .. HEAP_END - 1, size : Nat, alignment : Nat]
    /\ fault \in {"none", "assert", "header", "free", "read"}

(* A client may write all of its block (as main.cpp does): it lies within  *)
(* one live mapping or heap block, and no other block and no header that   *)
(* OS_Free will need lies in it.                                           *)
BlocksUsable ==
    \A b \in blocks :
        /\ \E m \in mappings \cup heap : Range(b.ptr, b.size) \subseteq Range(m.base, m.length)
        /\ \A c \in blocks \ {b} : Range(b.ptr, b.size) \cap Range(c.ptr, c.size) = {}
        /\ \A h \in headers :
              Range(h.at, sizeofAllocHeader) \cap Range(b.ptr, b.size) = {}

(* Every pointer has the alignment its client asked for.                   *)
BlocksAligned == \A b \in blocks : b.ptr % b.alignment = 0

(* Whatever the functions obtain from the system belongs to some block a   *)
(* client still holds: OS_Free gives all of it back.                       *)
NothingLost ==
    fault = "none" =>
        \A m \in mappings \cup heap : \E b \in blocks : b.ptr \in Range(m.base, m.length)

(* OS_Free finds at its place, for each block made of pages, the header    *)
(* that names the mapping the block lies in.                               *)
HeadersFound ==
    \A b \in blocks : b.size >= PAGE_SIZE =>
        LET h == ReadHeader(header_addr(b.ptr))
        IN  /\ Mapping(h.base_ptr, h.total_size, PAGE_SIZE) \in mappings
            /\ b.ptr \in Range(h.base_ptr, h.total_size)

(* The header is written into the memory obtained for it.                  *)
HeadersInside == fault # "header"

(* OS_Free calls free for blocks of aligned_alloc only.                    *)
NoBadFree == fault # "free"
===============================================================================
