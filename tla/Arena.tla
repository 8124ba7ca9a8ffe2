-------------------------------- MODULE Arena ---------------------------------
(***************************************************************************)
(* Stellatus::Arena and Stellatus::SAllocator<T> (include/SAllocator.hpp): *)
(* every thread owns a thread_local arena that caches freed small chunks   *)
(* in singly linked lists, the fastbins, threaded through the headers of   *)
(* the chunks themselves, and passes the other requests on to malloc/free  *)
(* or mmap/munmap.                                                         *)
(*                                                                         *)
(* An arena is reached by its own thread only, and its mutex is held from  *)
(* the first line of allocate/deallocate to the last, so a call is one     *)
(* action.  Interleaving matters between calls: a block may be given back  *)
(* by another thread than the one that got it (operator== is always true), *)
(* so chunks migrate from one arena to another, and outlive the arena that *)
(* made them.  The system heap is external: a chunk is one of the          *)
(* addresses malloc or mmap can return.                                    *)
(***************************************************************************)
EXTENDS Integers, FiniteSets, Alignment

CONSTANTS
    Threads,        \* the threads that use SAllocator
    Chunks,         \* the addresses malloc and mmap can return
    NULL,           \* nullptr
    Requests,       \* calls SAllocator<T>::allocate(n): [n, elem = sizeof(T)]
    NoRequest,      \* of a chunk no client holds
    ALIGNMENT,      \* alignof(std::max_align_t)
    SizeofChunk,    \* sizeof(Chunk): the size word and the next pointer
    MAX_FAST_SIZE,  \* the largest request the fastbins serve
    MMAP_THRESHOLD, \* the smallest request passed on to mmap
    MAX_ALLOC_SIZE, \* the largest request accepted
    SIZE_RANGE      \* 2^w for a size_t of w bits

(* The values of the build: ALIGNMENT divides both MAX_FAST_SIZE and the   *)
(* chunk header on 64-bit targets (16 divides 1024 and 16).                *)
ASSUME ConstantsAssumption ==
    /\ ALIGNMENT \in Nat \ {0}
    /\ SizeofChunk \in Nat \ {0} /\ SizeofChunk % ALIGNMENT = 0
    /\ MAX_FAST_SIZE \in Nat \ {0} /\ MAX_FAST_SIZE % ALIGNMENT = 0
    /\ MMAP_THRESHOLD \in Nat /\ MAX_FAST_SIZE < MMAP_THRESHOLD
    /\ MAX_ALLOC_SIZE \in Nat /\ MMAP_THRESHOLD <= MAX_ALLOC_SIZE
    /\ SIZE_RANGE \in Nat /\ MAX_ALLOC_SIZE + SizeofChunk + ALIGNMENT < SIZE_RANGE

ASSUME NamesAssumption ==
    /\ IsFiniteSet(Chunks) /\ NULL \notin Chunks
    /\ Requests \subseteq [n : Nat, elem : Nat \ {0}]
    /\ NoRequest \notin Requests

VARIABLES
    running,    \* the threads whose tls_arena exists
    fastbins,   \* fastbins[t][i]: the head of list i of t's arena
    header,     \* header[c]: the Chunk at the start of c (size and next)
    memory,     \* memory[c]: the system call that made c, and its length
    held,       \* held[c]: the request a client holds c for
    fault       \* the undefined behaviour that ended the modelled run

vars == <<running, fastbins, header, memory, held, fault>>

-------------------------------------------------------------------------------
(* Sizes.  size_t arithmetic is on 0 .. SIZE_RANGE - 1.                    *)

(* n * sizeof(T) as SAllocator computes it, and as its caller means it.    *)
Bytes(r) == (r.n * r.elem) % SIZE_RANGE
Asked(r) == r.n * r.elem

(* Mutant of align_up: rounds down.                                        *)
align_up_floor(size) == size - (size % ALIGNMENT)

(* (size + align - 1) & ~(align - 1) with the default align.               *)
align_up(size) == AlignUp(size, ALIGNMENT)

(* Mutant of size_to_index: the list of the next larger class.             *)
size_to_index_next(size) == align_up(size) \div ALIGNMENT

(* align_up(size) / ALIGNMENT - 1, where 0 - 1 is the largest size_t.      *)
size_to_index(size) ==
    LET units == align_up(size) \div ALIGNMENT
    IN  IF units = 0 THEN SIZE_RANGE - 1 ELSE units - 1

(* Mutant of total_size: the sum is not rounded up.                        *)
total_size_exact(size) == size + SizeofChunk

(* What allocate asks of the system, and deallocate gives back to it.      *)
total_size(size) == align_up(size + SizeofChunk)

NUM_FAST_BINS == MAX_FAST_SIZE \div ALIGNMENT
Bins == 0 .. NUM_FAST_BINS - 1

(* Mutant of EmptyBins: the array without its {} initializer.              *)
UninitializedBins == [i \in Bins |-> "indeterminate"]

EmptyBins == [i \in Bins |-> NULL]

(* Mutant of DeallocIsHuge: > for >=.                                      *)
DeallocIsHugeStrict(size) == size > MMAP_THRESHOLD

(* The tests of the size: allocate and deallocate each have their own.     *)
AllocIsFast(size)   == size <= MAX_FAST_SIZE
DeallocIsFast(size) == size <= MAX_FAST_SIZE
AllocIsHuge(size)   == size >= MMAP_THRESHOLD
DeallocIsHuge(size) == size >= MMAP_THRESHOLD

(* The bytes behind the header of chunk c.                                 *)
Room(c) == memory[c].length - SizeofChunk

-------------------------------------------------------------------------------
(* The system heap, external.                                              *)

Unmapped == [from |-> "none", length |-> 0]
NoHeader == [size |-> 0, next |-> NULL]

NewHeader(size) == [size |-> size, next |-> NULL]

(* std::malloc or mmap return some free address; the arena then clears the *)
(* memory and writes the size word.                                        *)
SystemAlloc(c, from, size) ==
    /\ memory[c] = Unmapped
    /\ memory' = [memory EXCEPT ![c] = [from |-> from, length |-> total_size(size)]]
    /\ header' = [header EXCEPT ![c] = NewHeader(size)]

(* std::free takes what malloc returned; munmap takes a mapping and its    *)
(* exact length.  Anything else is undefined or leaves part of it mapped.  *)
SystemFree(c, expected) ==
    IF memory[c] = expected
    THEN /\ memory' = [memory EXCEPT ![c] = Unmapped]
         /\ header' = [header EXCEPT ![c] = NoHeader]
         /\ UNCHANGED fault
    ELSE /\ fault' = "release"
         /\ UNCHANGED <<memory, header>>

-------------------------------------------------------------------------------
(* The lists of one arena, threaded through the headers.                   *)

(* Mutant of Pop: the head stays on its list.                              *)
PopNothing(t, i) == UNCHANGED fastbins

Pop(t, i) == fastbins' = [fastbins EXCEPT ![t][i] = header[@].next]

(* Mutant of Push: the two assignments swapped.                            *)
PushSwapped(t, i, c) ==
    /\ fastbins' = [fastbins EXCEPT ![t][i] = c]
    /\ header' = [header EXCEPT ![c].next = fastbins'[t][i]]

(* Mutant of Push: the chunk is not linked to the old head.                *)
PushUnlinked(t, i, c) ==
    fastbins' = [fastbins EXCEPT ![t][i] = c] /\ UNCHANGED header

Push(t, i, c) ==
    /\ header' = [header EXCEPT ![c].next = fastbins[t][i]]
    /\ fastbins' = [fastbins EXCEPT ![t][i] = c]

-------------------------------------------------------------------------------
Init ==
    /\ running = {}
    /\ fastbins = [t \in Threads |-> EmptyBins]
    /\ header = [c \in Chunks |-> NoHeader]
    /\ memory = [c \in Chunks |-> Unmapped]
    /\ held = [c \in Chunks |-> NoRequest]
    /\ fault = "none"

(* The first use of tls_arena constructs it: fastbins{} is all nullptr.    *)
ThreadStart(t) ==
    /\ t \notin running
    /\ running' = running \cup {t}
    /\ fastbins' = [fastbins EXCEPT ![t] = EmptyBins]
    /\ UNCHANGED <<header, memory, held, fault>>

(* Arena has no destructor: the array of heads goes away with the thread,  *)
(* the chunks it led to stay allocated.                                    *)
ThreadExit(t) ==
    /\ t \in running
    /\ running' = running \ {t}
    /\ fastbins' = [fastbins EXCEPT ![t] = EmptyBins]
    /\ UNCHANGED <<header, memory, held, fault>>

(* allocate: a size over MAX_ALLOC_SIZE throws std::bad_alloc.             *)
AllocRefused(t, r) ==
    /\ t \in running
    /\ Bytes(r) > MAX_ALLOC_SIZE
    /\ UNCHANGED vars

(* allocate: a small request pops the head of its list.                    *)
AllocCached(t, r) ==
    LET i == size_to_index(Bytes(r)) IN
    /\ t \in running
    /\ AllocIsFast(Bytes(r)) /\ i \in Bins
    /\ fastbins[t][i] # NULL
    /\ Pop(t, i)
    /\ held' = [held EXCEPT ![fastbins[t][i]] = r]
    /\ UNCHANGED <<running, header, memory, fault>>

(* The requests allocate passes on to the system.                          *)
NotCached(t, r) ==
    /\ t \in running
    /\ Bytes(r) <= MAX_ALLOC_SIZE
    /\ AllocIsFast(Bytes(r)) =>
          /\ size_to_index(Bytes(r)) \in Bins
          /\ fastbins[t][size_to_index(Bytes(r))] = NULL

AllocFresh(t, r, c) ==
    /\ NotCached(t, r)
    /\ SystemAlloc(c, IF AllocIsHuge(Bytes(r)) THEN "mmap" ELSE "malloc", Bytes(r))
    /\ held' = [held EXCEPT ![c] = r]
    /\ UNCHANGED <<running, fastbins, fault>>

(* allocate: malloc or mmap has no memory, std::bad_alloc is thrown.       *)
AllocFailed(t, r) ==
    /\ NotCached(t, r)
    /\ UNCHANGED vars

(* deallocate: a small chunk becomes the head of its list, in the arena of *)
(* the calling thread.                                                     *)
DeallocCached(t, c) ==
    LET i == size_to_index(Bytes(held[c])) IN
    /\ t \in running
    /\ held[c] # NoRequest
    /\ DeallocIsFast(Bytes(held[c])) /\ i \in Bins
    /\ Push(t, i, c)
    /\ held' = [held EXCEPT ![c] = NoRequest]
    /\ UNCHANGED <<running, memory, fault>>

(* deallocate: a larger chunk goes back to the system, by the call its     *)
(* size selects.                                                           *)
DeallocReleased(t, c) ==
    LET size == Bytes(held[c]) IN
    /\ t \in running
    /\ held[c] # NoRequest
    /\ ~DeallocIsFast(size)
    /\ SystemFree(c, IF DeallocIsHuge(size)
                     THEN [from |-> "mmap", length |-> total_size(size)]
                     ELSE [memory[c] EXCEPT !.from = "malloc"])
    /\ held' = [held EXCEPT ![c] = NoRequest]
    /\ UNCHANGED <<running, fastbins>>

(* allocate and deallocate index the array with no check: what an index    *)
(* out of its range reads or overwrites is undefined, and the modelled run *)
(* ends there.                                                             *)
WildIndex(t, r) ==
    /\ t \in running
    /\ AllocIsFast(Bytes(r)) /\ size_to_index(Bytes(r)) \notin Bins
    /\ fault' = "index"
    /\ UNCHANGED <<running, fastbins, header, memory, held>>

Step(t) ==
    \/ ThreadStart(t)
    \/ ThreadExit(t)
    \/ \E r \in Requests :
          \/ AllocRefused(t, r)
          \/ AllocCached(t, r)
          \/ \E c \in Chunks : AllocFresh(t, r, c)
          \/ AllocFailed(t, r)
          \/ WildIndex(t, r)
    \/ \E c \in Chunks : DeallocCached(t, c) \/ DeallocReleased(t, c)

(* Nothing is said of a program after undefined behaviour.                 *)
Ended == fault # "none" /\ UNCHANGED vars

Next == (fault = "none" /\ \E t \in Threads : Step(t)) \/ Ended

Spec == Init /\ [][Next]_vars

-------------------------------------------------------------------------------
(* The values the variables take.                                          *)
TypeOK ==
    /\ running \subseteq Threads
    /\ fastbins \in [Threads -> [Bins -> Chunks \cup {NULL}]]
    /\ header \in [Chunks -> [size : Nat, next : Chunks \cup {NULL}]]
    /\ memory \in [Chunks -> [from : {"none", "malloc", "mmap"}, length : Nat]]
    /\ held \in [Chunks -> Requests \cup {NoRequest}]
    /\ fault \in {"none", "index", "release"}

(* The chunks of list i of t's arena: those in every set that holds the    *)
(* head and, with a chunk, the next one.                                   *)
ClosedUnderNext(S) == \A c \in S : header[c].next \in S \cup {NULL}
ReachableFrom(h) ==
    {c \in Chunks : h # NULL /\ \A S \in SUBSET Chunks :
                        h \in S /\ ClosedUnderNext(S) => c \in S}
FreeList(t, i) == ReachableFrom(fastbins[t][i])

Cached == UNION {FreeList(t, i) : t \in Threads, i \in Bins}
Leaked == {c \in Chunks : memory[c] # Unmapped /\ held[c] = NoRequest} \ Cached

(* A chunk that allocate may pop from any list is in nobody's hands and    *)
(* still allocated, and no chunk is on two lists: whatever threads take    *)
(* and give back blocks, through whichever arenas, none is served twice.   *)
FreeListsSound ==
    /\ \A c \in Cached : held[c] = NoRequest /\ memory[c] # Unmapped
    /\ \A t, u \in Threads : \A i, j \in Bins :
          <<t, i>> # <<u, j>> => FreeList(t, i) \cap FreeList(u, j) = {}

(* Every list ends: the pushes of deallocate never tie a chunk into a      *)
(* cycle, so pops of allocate come to nullptr.                             *)
FreeListsEnd ==
    \A t \in Threads : \A i \in Bins :
        FreeList(t, i) # {} => \E c \in FreeList(t, i) : header[c].next = NULL

(* allocate pops the head without looking at its size: so a chunk on list  *)
(* i must have room for every size whose index is i, although it was made  *)
(* for, and released after, other sizes and maybe by other threads.        *)
CachedChunksFit ==
    \A t \in Threads : \A i \in Bins : \A c \in FreeList(t, i) :
        \A size \in 1 .. MAX_FAST_SIZE : size_to_index(size) = i => size <= Room(c)

(* A block has the room its client asked for (n objects of sizeof(T), not  *)
(* the product reduced to a size_t) and is within the accepted 8 GB.       *)
HeldBlocksFit ==
    \A c \in Chunks : held[c] # NoRequest =>
        /\ Asked(held[c]) <= Room(c)
        /\ Asked(held[c]) <= MAX_ALLOC_SIZE

(* No chunk is given to std::free that malloc did not return, and munmap   *)
(* is only called with a mapping and its exact length.                     *)
NoBadRelease == fault # "release"

(* fastbins is indexed within its bounds.                                  *)
NoWildIndex == fault # "index"

(* A chunk is lost to the program (allocated, held by nobody, on no list)  *)
(* only by the exit of a thread: no sequence of calls loses one, and a     *)
(* lost one never comes back.                                              *)
LeakOnlyAtExit == [][running \subseteq running' => Leaked' = Leaked]_vars

(* The arenas together implement the allocator of module BlockStore.       *)
Store == INSTANCE BlockStore WITH
    Blocks <- Chunks, Limit <- MAX_ALLOC_SIZE, Nothing <- NoRequest,
    grant <- [c \in Chunks |->
                 IF held[c] = NoRequest THEN NoRequest
                 ELSE [asked |-> Asked(held[c]), room |-> Room(c)]]

ImplementsBlockStore == Store!Spec
===============================================================================
