# Specifications of SAllocator

TLA+ modules for the allocators in this repository, the TLC configurations that
check them on small instances, and TLAPS proofs of their main theorems.
Source paths are relative to the root of the repository (`include/...` is
`src/include/...` in `PROJECT.json`).

    tlc -workers 2 -config MCLog.cfg MCLog            # a run
    tlapm ArenaProofs.tla                             # the proofs

## 1. Inventory

| part | state | operations | what is hard | status |
|---|---|---|---|---|
| `SAllocator.hpp`: `Arena`, `SAllocator<T>` | per thread: `fastbins`, lists threaded through `Chunk` headers; the system heap | `allocate`, `deallocate`, start and end of a thread | blocks given back by other threads, sizes at thresholds, wrap-around, what outlives a thread | modelled, proved |
| `SysApi.h`, `SysApi.cpp`: `OSAllocator` | mappings and the `AllocHeader`s in them | `OS_Alloc`, `OS_AllocBigPage`, `OS_Free` | address arithmetic for any place the system chooses; what the header says against where it is looked for | modelled, proved |
| `MemDetector.hpp`: `MemDetector` | 8 slots (flag, recursive mutex, log), the pointer `global` | replaced `operator new`/`operator delete`, `EnableGuard`, construction and destruction | re-entry through the log's own allocations, threads sharing a slot, order of record and effect, exit | modelled, proved but for liveness |
| `Allocator.hpp`: `Mem::SysAllocator`, `Mem::MemDetector` | a pool resource, a registry by thread | `Malloc`, `Free`, `Realloc`, `Register`, `Print` | registry without a lock; the block registered is not the block returned; `Free` misstates the size | modelled, proved |
| `MemoryPool.hpp`: `StackMemory` | none that changes | `do_allocate` | none: without buffer and upstream every request throws | not modelled |
| `Log.h` | a stream with its buffer, two mutexes, the files | `Print`, `SetLogFile`, `Write`, construction and destruction | whole lines while others write and reopen; crashes and restarts | modelled, proved |
| `AllocAction.hpp` | constant tables | – | entries that disagree with the operators that record them | modelled |
| `addr2sym.hpp` | – | symbol names | system calls and text only | not modelled |
| `JAllocator.hpp`, `JAllocatorImpl/*` (but `SysApi.h`) | – | stubs that return `nullptr` or have no body; one includes a missing `Region.hpp` | nothing yet | not modelled |
| `static_for.hpp` | – | compile time | – | not modelled |
| `main.cpp`, build files | – | test of `OSAllocator` in a Debug build | – | its sizes and alignments are the runs' inputs, scaled |

How they interact: `SAllocator<T>` calls `tls_arena` and that calls the C
library or the system; it does not use `OSAllocator`. `MemDetector` sits below
every `operator new` of a program, its own included. The parts share no other
state, so there is one specification for each and none that composes them.
Nothing calls `Log`; `MemDetector.hpp` only includes it.
`Mem::MemDetector` of `Allocator.hpp` is another class than `MemDetector`.

What makes each part correct:

* **Arena**: a granted block has the room asked for and no second owner,
  whichever threads give blocks back; lists are sound and end; what is
  released to the system is exactly what was obtained; only the exit of a
  thread loses chunks.
* **OSAllocator**: a block is aligned, inside memory of its own and clear of
  the headers; `OS_Free` finds the header and returns all that was obtained.
* **MemDetector**: the merged logs tell which blocks are live, and pair each
  allocation with its own form of delete; recording never
  re-enters itself; calls return; nothing is recorded while the logs are
  copied, or after; no block gets lost but by an exception of `push_back`.
* **SysAllocator**: a block a client has of the pool is large enough and nobody
  else's; the threads' uses of the registry do not collide; what `Free` gives
  back is what the pool handed out.
* **Log**: lines are whole; a line whose `Write` returned is in the file for
  good, whatever happens to the process.

The hazards of the code, line by line and with the properties that cover them,
are in `PROJECT.json`.

## 2. Modules

| module | content |
|---|---|
| `Alignment` | `AlignUp`, used by the two allocators |
| `BlockStore` | abstract specification: what an allocator promises |
| `Arena` | `Arena` and `SAllocator<T>`; states that it implements `BlockStore` |
| `ArenaInvariant` | the inductive invariant of `Arena` |
| `ArenaFootprint` | `Arena` with a history of the traffic between arenas and clients |
| `OSAllocator` | `OS_Alloc`, `OS_AllocBigPage`, `OS_Free` |
| `AllocAction` | the kinds of recorded operations and their tables |
| `AllocationLog` | abstract specification: what a log of allocations promises its reader |
| `MemDetector` | the recorder of `operator new` and `operator delete`; states that it implements `AllocationLog` |
| `SysAllocator` | `Mem::SysAllocator` and its registry; states that its pool implements `BlockStore` |
| `LineLog` | abstract specification: what a log file promises |
| `Log` | `Print` and class `Log`; states that it implements `LineLog` |
| `MCArena`, `MCArenaFootprint`, `MCOSAllocator`, `MCMemDetector`, `MCSysAllocator`, `MCLog` | values of the constants for TLC |
| `AlignmentProofs` | lemmas about `AlignUp` |
| `ArenaProofs`, `ArenaListProofs` | theorems about `Arena`; about its lists as sets, and `ArenaFootprint` |
| `OSAllocatorProofs`, `SysAllocatorProofs`, `LogProofs` | theorems about the module of that name |
| `MemDetectorProofs`, `MemDetectorLogProofs` | theorems about the flags and owners of `MemDetector`; about its logs |

Operators that end in a variant of another's name and are commented "Mutant of"
are plausible bugs: each property below is violated when the operator it names
is replaced by its mutant, so the property does depend on the code.

### Arena

`fastbins[t][i]` is the head of list `i` of thread `t`'s arena; `header[c]` is
the `Chunk` at the start of `c` (`size`, `next`); `memory[c]` is the system
call that made `c` and the length it was asked for; `held[c]` is the request a
client holds `c` for; `running` are the threads whose `tls_arena` exists.
`fault` records undefined behaviour, after which nothing more is said.

Each call is one action: an arena is thread-local and its mutex is held
throughout, so no other thread sees the middle of a call. The interleaving is
between calls, and there it matters since `operator==` lets any thread give
back any block. `allocate` is `AllocRefused`, `AllocCached`, `AllocFresh`,
`AllocFailed` or `WildIndex`; `deallocate` is `DeallocCached` or
`DeallocReleased`. `allocate` and `deallocate` have tests of the size of their
own (`AllocIsFast`, `DeallocIsFast`, ...), since it is their agreement that
matters. `n * sizeof(T)` is reduced to a `size_t`. `deallocate(nullptr)`
changes nothing and is left out; so are alignments above `ALIGNMENT`.

A client gives a block back with the `n` it asked for, as the standard demands.

`ArenaFootprint` adds to the steps of `Arena`, which stay as they are, a
history variable: for each arena and class the net number of chunks its thread
took, the highest that ever was, and how many came from the system. Nothing in
the code bounds a list; the two invariants say exactly how long it gets. An
arena has asked the system for as many chunks as its thread's highest net, and
what its thread does not have is on its list. A consumer's net only falls, so
its list grows by every chunk a producer makes.

### OSAllocator

Addresses are numbers. `mappings` and `heap` are what the system gave out,
`headers` the `AllocHeader`s in memory with their place, `blocks` what clients
hold. `Alloc(r)` is `OS_Alloc`: `PageOutcome` follows it line by line from the
mapping's address to the header written; the system may choose any free place.
A request below a page goes to the C library, which may fail. `AllocBig` is
`OS_AllocBigPage` with the call of `OS_Alloc` whose result it drops.
`FreeSmall` and `FreePages` are the two paths of `OS_Free`, chosen by the size
the caller passes, here always the block's own; the header is looked for where the code looks. Memory not
written is zero, so a header that is not there reads as zeros (`munmap` of
address 0 does nothing); reading inside another client's block or outside of
memory is the fault `read`.

`GetPageSize` is a constant; its lazy initialisation writes the same value
whoever comes first. `OS_Free(nullptr)` is left out. Freed memory that is
mapped again is zero, as pages from the system are. The code includes
`<winbase.h>` and so builds on Windows only as it stands; the model follows the
POSIX branch, and `VirtualAlloc`/`VirtualFree` differ only in that the length
is not passed back.

### MemDetector

A call of `operator new` or `operator delete` is a frame on its thread's stack:
what it is for, the guard's fields (`guarded`, `was_enable`) and the next step
`pc`. `Program` gives the order of steps (`operator new`: lock, `malloc`, read
the clock, append, leave; `operator delete`: lock, clock, append, `free`,
leave) and `Skipped` the conditions under which steps are left out. Each step
is one action, so threads interleave between any two. `PushAllocates` is the
call of `operator new` from within `push_back`, when the pool is used up: it
puts a second frame on the stack, and it may happen several times in one
`push_back`. Its failure throws through `push_back` (`ThrowFromPush`) and ends
the program when the function above is `noexcept` (`Terminate`).

`hook` tells the single form of a call from the array form, whose records
differ (`LoggedOp`); the sized, aligned and nothrow forms, which differ only in
recorded data that no property is about, are one operation here. A program
gives a block back by the form of delete that belongs to its form of new.
`AllocAction` has the tables that say what a recorded operation is; the
repository only declares them, and `LogTruthful` and `AllocationLog` read the
logs by them. `Construct`, `Shutdown` and `Destroy` are the
static object's life. `~GlobalData` writes the flags one by one without locks;
since a thread uses one slot only, one action stands for all of them.
The clock is taken to be strictly increasing (two readings in one tick of
`high_resolution_clock` would leave the order of two records open).
After `Destroy` flag and mutex of a slot go on working as plain memory does:
`global` is never reset and later destructors use them.

`ImplementsAllocationLog` takes the records of all slots for one log. It is
about every single `push_back`, also while other calls on the same block have
got further: no record is made of a block before an earlier one is in, no block
is logged as allocated twice without a delete in between, and the next record
after an allocation is of its own form of delete. `LogTruthful` compares
the logs with what the program holds, once the calls on a block have returned.

### SysAllocator

`call[t]` is the call of `Malloc` that thread `t` is in: `FirstAllocate`, the
two steps of `Register` (`Now` reads the clock, `Register` uses the map),
`PrintRecords`, `SecondAllocate`. `mem_datas[t]` is the block on record for
`t`, `memory` what the pool and `malloc` gave out with its size, `held` what
clients have. The pool is a `std::pmr::synchronized_pool_resource`, external:
it serves the larger of size and alignment with the next of its block sizes,
throws if it has no memory, and wants a block back with a size of the same list
(anything else is undefined, the fault `free`; so is giving it a block of
`malloc`). A client frees a block with the alignment it asked for.

The map is used by `try_emplace`, which changes it only for a new key, and by
`Print`. Two threads in it at the same time, one of which changes it, are a
`Race`, after which nothing more is said. `mem_datas[tid]` in `print_one` finds
its key always, so it is taken to read only, as it does in the standard
libraries. `alone` is a history variable: no call of a thread that
has no record yet has overlapped another call. `NoRaceAfterFirstCalls` says
that such programs need no lock.

`Realloc` ignores all it is given and returns one byte of `malloc`, so
`ImplementsBlockStore` speaks of blocks of the pool. A client to which it
returns `nullptr` keeps its block. `OnlyFirstBlocksLost` says where blocks get
lost at most: it allows the two places of the code, the first block of a call
of `Malloc` and the block given to `Realloc`, and no other.

### Log

`call[t]` is the call thread `t` is in, with its next step; `mutex` the owners
of the two mutexes; `buffer` what `file_` has not passed on yet. A line is two
pieces, all up to the newline and the newline; `Put` lets the stream pass on
any part of its buffer, as a full one must. `disk` outlives a process; `Crash`
forgets everything else at any point, `Exit` closes the file first (`~Log`).
A failed `open` leaves no file open, and then `Write` does nothing. The lines
of a file, told by their newlines, are an append-only log (`LineLog`).

`Print` is declared before `log_level_to_string`, which it calls; compilers
that look names up as C++20 demands reject the header for that. The model is
of what it says otherwise.

## 3. Runs

| run | instance | shows |
|---|---|---|
| `arena` | 2 threads, 3 chunks, sizes in both classes and above each threshold | `HeldBlocksFit`, `NoWildIndex` and the implementation of `BlockStore`, for clients that ask for 1 byte or more and less than a `size_t` counts; `FreshIsPeak`, `ListKeepsTheRest` |
| `arena_edges` | the same with 0, sizes on both sides of every threshold, one over the limit, a product that wraps | free lists sound and ending, cached chunks large enough, nothing released wrongly, nothing leaked but by exit, `IInv` |
| `arena_wrap` | edge requests | violation: see findings |
| `os` | alignments up to the header's size, true sizes passed back | headers are found, nothing is lost, `free` gets blocks of `aligned_alloc` only |
| `os_aligned` | every alignment up to a page, sizes that just miss a page, big pages, Release and Debug | blocks aligned, inside their memory, apart from each other and the headers; headers inside the mapping |
| `os_leak`, `os_big` | one condition each | violations: see findings |
| `md` | 3 threads on 2 slots, 2 addresses, 3 records | no re-entry, flags right between calls, the merged logs truthful, growing as `AllocationLog` demands, and frozen at exit |
| `md_live` | 2 threads on one slot, one not joined at exit, 2 addresses, 2 records | every call returns; a slot at rest at exit stays off (`OffStaysOff`); blocks get lost only by a `push_back` that throws |
| `sys` | 3 threads, 5 addresses, blocks of 2 and 4 bytes, requests up to the alignment and above it | `NoRaceAfterFirstCalls`, `OnlyFirstBlocksLost`, `SmallBlocksFreed`, and the pool's implementation of `BlockStore` |
| `sys_registry` | the same with 2 threads | violation: see findings |
| `log` | 2 threads, 2 files, 3 messages, 2 calls of `SetLogFile`, 2 ends of a process | lines whole on the console and in the files, what `Write` returned from survives, implementation of `LineLog` |

`MCOSAllocator` also has TLC compare `AlignUp` with the mask of the code,
`(x + a - 1) & ~(a - 1)`, for all numbers of a byte (`AlignUpIsTheMask`).

**Bounds.** Arena: every invariant of the lists concerns two lists or two
chunks and the step that relates them to a third, so two arenas with two lists
and three chunks show every case; sizes are scaled so that each class, each
threshold and the wrap-around has a request on both sides. What does not depend
on the bounds is proved. OSAllocator: a pointer is one byte, a header two, a
page eight: alignments lie below, at and above the header and the page as they
do in the code; several mappings fit, so that one can lie right before, after
or between others.
MemDetector: `MAX_RECORDS` bounds the calls (a call only starts while fewer are
recorded or open), `Len(frames[t]) = 1` in `PushAllocates` bounds the nesting:
a nested call that reached `push_back` would already violate `NoReentry`. Two
addresses suffice for a block to be reused by another thread while the call
that freed it is still open. Three records let a block be allocated, handed on,
deleted and, before that delete has returned, allocated again through another
slot. For `md_live` two records do: two calls of two threads wait for each
other's slot with nested allocations in both.
SysAllocator: each call of `Malloc` uses two addresses and frees none, so five
let every thread have a record, one call lose another block and a client hold
one; after that the pool is out of memory, a case of its own. A third thread
may print while one inserts and another waits. Log: two calls of `SetLogFile`
reopen a file or change it while the other thread writes; with three messages
there are lines before, in and after a crash; two ends let a file be taken over
twice.

**Fairness.** Only `md_live` needs it. Each thread goes on with its call (weak
fairness: the system schedules it) and a thread waiting for a mutex that is
given back again and again gets it (strong fairness for `Lock`; without it a
mutex shared by two threads promises nothing). No thread has to begin a call,
and `main` need not return. A nested allocation cannot go on for ever since the
addresses run out and `malloc` fails. The allocators themselves promise
nothing about progress beyond that a call returns, which is one action there.

**Deadlock** is checked in every run. `Ended` and `Elsewhere` stutter after a
fault and while some thread is outside of the recorder; a state in which all
threads are stuck inside is a deadlock.

## 4. Findings

Four runs end in a violation, each of something the repository says:

* `allocate(n)` with `n * sizeof(T)` beyond `size_t` is served with a small
  block (`arena_wrap`).
* `OS_Free` looks for the header 16 bytes before the block, `OS_Alloc` writes it
  `header_size` bytes before: for alignments above 16 the mapping is never
  returned (`os_leak`).
* `OS_AllocBigPage` below the threshold drops the block of `OS_Alloc` (`os_big`).
* The design drawing wants `MemDetector` to detect leaks. `Malloc` registers a
  block that it does not return, so that the block a client holds, and may leak,
  is on no record (`sys_registry`).

Observed, but not runs of their own: a Debug build rejects every alignment
below a page, the default included, while the comment asks for at most a page
(fault `assert`); `allocate(0)` uses the index `SIZE_MAX`
(`WildIndex`, which `arena_edges` reaches); for alignments above a page, which
the comment excludes on Linux, the header can be written below the mapping;
`main.cpp` asks for alignments of 3 and 17, for which the masks do not round;
`OS_Free(ptr)` with its default size passes mappings to `free`; an exception from `push_back`
loses the block of `operator new`, or terminates in `operator delete`; a thread
still running at exit can switch recording back on in the middle of
`~GlobalData`; Windows numbers threads by multiples of 4, so that only two of
the eight slots are used there; every call of `Malloc` loses a block; first
calls that overlap race in the registry; `Free` is right only about blocks whose size in the pool is that of one byte;
once a write to the log file has failed, later ones are skipped in silence;
`StackMemory` cannot serve any request.

## 5. Proofs

All proofs are checked by TLAPS with SMT, Zenon and LS4. They hold for every
value of the constants that satisfies the `ASSUME`s of the module.

**Arena.** The properties speak of whole lists, which one step changes in ways
no prover sees. `IInv` (module `ArenaInvariant`) speaks of single pointers
instead: the head of a list and the `next` of an idle chunk lead to idle chunks
made for the same class (`HeadInv`, `LinkInv`), no two pointers to the same one
(`SingleReferenceInv`), the size word tells how a chunk was made (`HeaderInv`),
a held chunk was made for its client's class or exact size (`HeldInv`), and a
thread without arena has no list (`StoppedInv`). `Invariance` proves it
inductive, one lemma for each action. From it follow:

* `FreeListsAreSound`, `FreeListsDoEnd` (a list without end would map its
  finitely many chunks one-to-one into themselves without the head),
  `CachedChunksAreLargeEnough`, `NoReleaseIsBad`;
* `NoIndexIsWild`, assuming `NoEmptyRequest` (no request of 0 bytes): with
  one, `WildIndex` can be taken in the first step;
* `HeldBlocksDoFit` and `ArenasImplementBlockStore`, assuming `NoWrap` (the
  product fits in a `size_t`), which run `arena_wrap` shows to be needed;
* `OnlyExitsLeak` (`ArenaListProofs`): the chunks on lists change only by the
  one popped or pushed.

The same lemmas about what each action does to the lists as sets prove
`FreshIsAtPeak` and `ListsKeepTheRest` of `ArenaFootprint`, which
together, with the types of the counts (`FootprintInv`), are inductive: a list is
as long as the peak of a count exceeds the count, so it is empty just when a
fresh chunk raises the peak. `FootprintIsArena` says that the counters do not
change what the arenas do.

`Reachable` is defined by closed sets, not by recursion, so that facts about
lists follow from exhibiting a set.

**OSAllocator.** `PagesPlacement` is about the arithmetic: for an alignment
that divides the page, wherever the mapping lies, header, block and their ends
are in order inside it. `HeadersStayInside` and `BlocksAreAligned` follow at
once. That blocks do not overlap needs an invariant of the whole memory,
`LayoutInv`: mappings and blocks of the heap are disjoint (`PlacesInv`), every header begins
the mapping it names (`HeadersInv`), and every block lies in one place, alone
and behind the header if there is one (`BlocksInv`).
`BlocksAreUsable` and `OSAllocatorTypeOK` follow from it; with a block of less
than a page standing where one of `aligned_alloc` does (`SmallInv`) so does
`NoFreeIsBad`, and with the header right before its block (`FoundInv`) and
every mapping held by some block (`KeptInv`) `HeadersAreFound` and
`NothingIsLost`. Three assumptions are made, each of them of callers:

* `AlignmentsFitPages`: an alignment divides the page (the comment in `SysApi.h`
  asks for one of at most a page, and both are powers of two), and the sizes
  leave a `size_t` room for header and alignment. With wider alignments the
  header can lie below the mapping.
* `BigPagesArePages` (`NoFreeIsBad`): `OS_AllocBigPage` is asked for a page at
  least. It rounds smaller sizes up, but `OS_Free` decides by the size it is
  passed.
* `HeadersAdjoin` (`HeadersAreFound`, `NothingIsLost`): an alignment divides
  `sizeof(AllocHeader)`, as those that `operator new` asks for do, and
  `OS_AllocBigPage`, which writes no header, is not used. Runs `os_leak` and
  `os_big` show that both are needed.

Runs `os` and `os_aligned` check the properties on instances that satisfy them.

**MemDetector.** `MemDetectorProofs` is about flags and blocks, in three layers.
`CallInv` holds in every reachable state, detached threads, exceptions and
`std::terminate` included: a guarded frame owns the mutex of its slot, frames
are nested so that only the outermost guard can have found the flag set,
and while a guard has the flag saved as set it is cleared (`GuardInv`); no block
of `malloc` has two owners, of which there are the program, the pool of the
logs and the calls in progress (`OwnInv`). Two calls that append to one
log would both own its mutex, and of two frames of one thread the inner one
found the flag cleared: that is `PushBackNeverReentered`. `SlotsStayOff` and
`OnlyThrowsLose` are about steps from `CallInv`. `RunInv` adds that while the
recorder is at work every outermost guard found the flag set, and the flag of a slot that
nobody has locked is set. `RecordInv` is the same with the converse: before and
after, such a guard finds the flag cleared, and it stays cleared; that half needs `NoDetached`
(`main` waits for every thread), without which a thread in a call when
`~GlobalData` runs sets the flag again. `SlotsRecord` and `LogIsFrozen` follow.

`MemDetectorLogProofs` is about the logs. `ValueInv` types them, and counts records
and calls against the bound. `OrderInv` says of each address that records of it
are earlier than any that its calls in progress will make, and `TruthInv` what
the last record of an address is, given who has the block: a call of
`operator new` before or after its `push_back`, a holder, a call of `operator
delete` before or after its own, or nobody. `LogsTellTheTruth` is the case in
which no call is in progress, with no assumption;
`LogsImplementAllocationLog` is a step of `push_back` from it, and assumes
`NoDetached` since the logs are compared to the end of the program. Run `md`
satisfies `NoDetached`; `md_live` has a detached thread.

**SysAllocator.** `FirstCallsApart` proves `NoRaceAfterFirstCalls` for any
number of threads, addresses and requests, with no further assumption. It is not
inductive and needs `Apart`: while no first call has overlapped another, of any
two threads in a call both are on record, so that `try_emplace` changes nothing
for either. Whose a block is takes three invariants more: the blocks on record
and on their way there are allocated and in no client's hands (`Unseen`), a held
block is allocated and held once, so that freeing it never frees one of those
(`HeldUsed`), and no two calls have obtained the same block (`OwnInv`). From
these `FirstBlocksAreLost` follows, action by action: the lost blocks before and
after a step differ by the block of the call that ends, or by the one that
`Realloc` gives another for. `HeldInv` adds that a held block of the pool has
the block size of its request. `SmallBlocksAreFreed` then is about `BlockSize`:
one byte at an alignment and any size up to it select the same block. That
`BlockSize` is a size at all, the least of a set of numbers, follows from the
well-foundedness of `<`. `SysAllocatorImplementsBlockStore` goes by the actions.

**Log.** Nothing is assumed. What a file has on disk and what the stream has buffered for
it make one text (`Text`). However much of the buffer `Put` passes on, the text
grows by exactly the piece put; a flush or close moves the boundary only, a
crash cuts the text there. `Kinds` sorts all steps by that, and `LineInv`, that
texts are whole lines and no more than the line being written is buffered, is
inductive over the kinds; the call in the middle of its line has the mutex
(`OwnInv`). On these rest `ReturnsFlushed` (a call about to return has its line
on disk), `LinesAreWhole` (the lines without an end but the current one are at
most as many as processes that ended, `TornInv`), and, with each message in
one place (`FreshInv`), `LogImplementsLineLog`: one newline at most comes to
the disk in a step, behind all others of its file. `ConsoleIsWhole` needs to
know the last piece that each function has shown (`ShowInv`).

**Only model-checked**: `CallsReturn`, that every call of the recorder returns,
under fairness: TLAPS proves neither liveness nor `ENABLED`. The same goes for
the absence of deadlock, and for `AlignUpIsTheMask`, which speaks of bits.
Every other property of a passing run is a theorem.

## 6. Not modelled

* `StackMemory` forwards to a monotonic resource without buffer and upstream:
  every request throws. The classes beside it are empty.
* `JAllocator` and `JAllocatorImpl` (but `SysApi.h`): functions without body or
  that return `nullptr`, and templates that name members and files which do not
  exist. The table `MemPoolConfig` is read by nothing, so that no behaviour
  follows from its order or its repeated entries.
* `addr2sym.hpp`: text from the system's debug information, called by nothing.
* The export thread of `MemDetector`: `HAS_THREADS` is never defined, and the
  function it would call has another name. `MANUAL_GLOBAL_INIT` is not defined
  either.
* `static_for.hpp`: a loop the compiler unrolls, used by nothing.
* Within the modelled parts: alignments that are no power of two or, in
  `SAllocator`, above `ALIGNMENT`; sizes, alignments and callers in the records
  of `MemDetector`; errors of the log's stream while it writes; all text.

## 7. Plan

All safety properties of the runs are proved. What is left: without
`NoDetached`, which slots `SlotsRecord` still holds for (those no detached thread
uses); a theorem for `OS_AllocBigPage` at or above a page, whose mapping
`OS_Free` leaves behind if no header happens to be there; and shorter proofs.
