----------------------------- MODULE SysAllocator -----------------------------
(***************************************************************************)
(* Mem::SysAllocator (MemoryPool/include/Allocator.hpp), a thread-safe     *)
(* pool whose Malloc enters its allocations into the registry              *)
(* Mem::MemDetector and prints that: one unordered_map, with a record for  *)
(* each thread, that all threads use without a lock.                       *)
(*                                                                         *)
(* Malloc allocates twice: the first block goes into the registry, the     *)
(* second one to the caller.  The std::pmr::synchronized_pool_resource is  *)
(* external, each call of it one step: it has free lists for some block    *)
(* sizes and wants a block back with the size it was asked for.            *)
(***************************************************************************)
EXTENDS Integers, FiniteSets

CONSTANTS
    Threads,        \* the numbers get_thread_id returns
    Addresses,      \* where the pool and malloc may place a block
    nullptr,
    None,           \* no call, no record, no grant
    Requests,       \* the calls of Malloc: [bytes, alignment]
    Counts,         \* the sizes given to Realloc
    PoolSizes,      \* the sizes of the pool's blocks
    Limit           \* the largest request

ASSUME SysAllocatorAssumption ==
    /\ IsFiniteSet(Threads) /\ IsFiniteSet(Addresses) /\ nullptr \notin Addresses
    /\ Limit \in Nat /\ Limit \in PoolSizes
    /\ PoolSizes \subseteq Nat \ {0} /\ Counts \subseteq 0 .. Limit
    /\ Requests \subseteq [bytes : 0 .. Limit, alignment : 1 .. Limit]

(* A call of Malloc: what it was asked for, what it has obtained, and the  *)
(* step it takes next.                                                     *)
Calls == [request : Requests, ptr : Addresses \cup {nullptr},
          pc : {"first", "now", "try_emplace", "Print", "second"}]

ASSUME NamesAssumption == None \notin Addresses \cup Calls \cup [asked : Nat, room : Nat]

VARIABLES
    call,       \* call[t]: t's call of Malloc: [request, ptr, pc], or None
    mem_datas,  \* mem_datas[t]: the block on record for t, or None
    memory,     \* memory[p]: where p came from and its size
    held,       \* what clients hold: [ptr, bytes, alignment]
    alone,      \* no call of a thread without a record has overlapped another
    fault       \* the undefined behaviour that ended the modelled run

vars == <<call, mem_datas, memory, held, alone, fault>>

-------------------------------------------------------------------------------
(* Mutant of BlockSize: the pool is asked for alignment bytes.             *)
BlockSizeAligned(bytes, alignment) ==
    CHOOSE s \in PoolSizes :
        s >= alignment /\ \A z \in PoolSizes : z >= alignment => s <= z

(* The pool serves the larger of size and alignment with the next of its   *)
(* block sizes.                                                            *)
Larger(m, n) == IF m >= n THEN m ELSE n
BlockSize(bytes, alignment) ==
    CHOOSE s \in PoolSizes :
        /\ s >= Larger(bytes, alignment)
        /\ \A z \in PoolSizes : z >= Larger(bytes, alignment) => s <= z

Unused == [from |-> "none", size |-> 0]
PoolBlock(r) == [from |-> "pool", size |-> BlockSize(r.bytes, r.alignment)]

Init ==
    /\ call = [t \in Threads |-> None]
    /\ mem_datas = [t \in Threads |-> None]
    /\ memory = [p \in Addresses |-> Unused]
    /\ held = {}
    /\ alone = TRUE /\ fault = "none"

Doing(t, pc) == call[t] # None /\ call[t].pc = pc

(* std::bad_alloc is thrown out of Malloc.                                 *)
Throw(t) ==
    /\ call' = [call EXCEPT ![t] = None]
    /\ UNCHANGED <<mem_datas, memory, held, alone, fault>>

(* Some thread calls Malloc.                                               *)
CallMalloc(t) ==
    LET others == {u \in Threads \ {t} : call[u] # None}
    IN  /\ call[t] = None
        /\ \E r \in Requests :
              call' = [call EXCEPT ![t] = [request |-> r, ptr |-> nullptr, pc |-> "first"]]
        /\ alone' = (alone /\ (others = {} \/ \A u \in others \cup {t} : mem_datas[u] # None))
        /\ UNCHANGED <<mem_datas, memory, held, fault>>

(* Mutant of FirstAllocate: Malloc goes on with nullptr.                   *)
FirstAllocateNull(t) ==
    /\ Doing(t, "first")
    /\ \/ \E p \in Addresses :
             /\ memory[p] = Unused
             /\ memory' = [memory EXCEPT ![p] = PoolBlock(call[t].request)]
             /\ call' = [call EXCEPT ![t].ptr = p, ![t].pc = "now"]
             /\ UNCHANGED <<mem_datas, held, alone, fault>>
       \/ /\ call' = [call EXCEPT ![t].pc = "now"]
          /\ UNCHANGED <<mem_datas, memory, held, alone, fault>>

(* The first do_allocate, for the registry.                                *)
FirstAllocate(t) ==
    /\ Doing(t, "first")
    /\ \/ \E p \in Addresses :
             /\ memory[p] = Unused
             /\ memory' = [memory EXCEPT ![p] = PoolBlock(call[t].request)]
             /\ call' = [call EXCEPT ![t].ptr = p, ![t].pc = "now"]
             /\ UNCHANGED <<mem_datas, held, alone, fault>>
       \/ Throw(t)

(* Register reads the clock before it uses the map.                        *)
Now(t) ==
    /\ Doing(t, "now")
    /\ call' = [call EXCEPT ![t].pc = "try_emplace"]
    /\ UNCHANGED <<mem_datas, memory, held, alone, fault>>

(* Mutant of Inserts: insert_or_assign for try_emplace.                    *)
InsertsAlways(t) == Doing(t, "try_emplace")

(* try_emplace changes the map for a new key only.                         *)
Inserts(t) == Doing(t, "try_emplace") /\ mem_datas[t] = None

Register(t) ==
    /\ Doing(t, "try_emplace")
    /\ mem_datas' = IF Inserts(t) THEN [mem_datas EXCEPT ![t] = call[t].ptr] ELSE mem_datas
    /\ call' = [call EXCEPT ![t].pc = "Print"]
    /\ UNCHANGED <<memory, held, alone, fault>>

(* Print goes through the map and looks each key up again.                 *)
PrintRecords(t) ==
    /\ Doing(t, "Print")
    /\ call' = [call EXCEPT ![t].pc = "second"]
    /\ UNCHANGED <<mem_datas, memory, held, alone, fault>>

(* The second do_allocate, for the caller.                                 *)
SecondAllocate(t) ==
    /\ Doing(t, "second")
    /\ \/ \E p \in Addresses :
             /\ memory[p] = Unused
             /\ memory' = [memory EXCEPT ![p] = PoolBlock(call[t].request)]
             /\ held' = held \cup {[ptr |-> p, bytes |-> call[t].request.bytes,
                                    alignment |-> call[t].request.alignment]}
             /\ call' = [call EXCEPT ![t] = None]
             /\ UNCHANGED <<mem_datas, alone, fault>>
       \/ Throw(t)

(* Mutant of FreedAs: the alignment is not passed on.                      *)
FreedAsByte(alignment) == PoolBlock([bytes |-> 1, alignment |-> 1])

(* Free tells the pool that the block has one byte.                        *)
FreedAs(alignment) == PoolBlock([bytes |-> 1, alignment |-> alignment])

(* Mutant of Free: do_deallocate is not called.                            *)
FreeForgets(b) ==
    /\ held' = held \ {b}
    /\ UNCHANGED <<call, mem_datas, memory, alone, fault>>

(* Any thread may free any block, with the alignment it asked for.         *)
Free(b) ==
    /\ held' = held \ {b}
    /\ IF memory[b.ptr] = FreedAs(b.alignment)
       THEN memory' = [memory EXCEPT ![b.ptr] = Unused] /\ UNCHANGED fault
       ELSE fault' = "free" /\ UNCHANGED memory
    /\ UNCHANGED <<call, mem_datas, alone>>

(* Realloc looks at neither pointer nor size: its caller gets one byte of  *)
(* malloc and has the old block no more.  When it gets nullptr, nothing    *)
(* changes: it keeps its block, as with any realloc.                       *)
Realloc(b, count) ==
    /\ \E p \in Addresses :
          /\ memory[p] = Unused
          /\ memory' = [memory EXCEPT ![p] = [from |-> "malloc", size |-> 1]]
          /\ held' = (held \ {b}) \cup
                     {[ptr |-> p, bytes |-> count, alignment |-> b.alignment]}
    /\ UNCHANGED <<call, mem_datas, alone, fault>>

(* Two threads are in the map at a time, and one of them changes it.       *)
Race ==
    \E t, u \in Threads :
        t # u /\ Inserts(t) /\ (Doing(u, "try_emplace") \/ Doing(u, "Print"))

Step ==
    \/ \E t \in Threads :
          \/ CallMalloc(t) \/ FirstAllocate(t) \/ Now(t) \/ Register(t) \/ PrintRecords(t)
          \/ SecondAllocate(t)
    \/ \E b \in held : Free(b) \/ \E count \in Counts : Realloc(b, count)

(* Nothing is said of a program after undefined behaviour.                 *)
Ended == (Race \/ fault # "none") /\ UNCHANGED vars

Next == (~Race /\ fault = "none" /\ Step) \/ Ended

Spec == Init /\ [][Next]_vars

-------------------------------------------------------------------------------
(* The values the variables take.                                          *)
TypeOK ==
    /\ call \in [Threads -> {None} \cup Calls]
    /\ mem_datas \in [Threads -> Addresses \cup {None}]
    /\ memory \in [Addresses -> [from : {"none", "pool", "malloc"}, size : Nat]]
    /\ held \subseteq [ptr : Addresses, bytes : 0 .. Limit, alignment : 1 .. Limit]
    /\ alone \in BOOLEAN /\ fault \in {"none", "free"}

(* The map needs no lock in a program in which the first call of every     *)
(* thread overlaps no other call: afterwards its threads only read it,     *)
(* however their calls interleave.                                         *)
NoRaceAfterFirstCalls == alone => ~Race

(* The registry is there to find leaks (goal 2 of the design drawing):     *)
(* each block of the pool that a client has taken and not given back is on *)
(* record.  The code breaks it: Malloc registers one block and returns     *)
(* another.                                                                *)
HeldBlocksOnRecord ==
    \A b \in held : memory[b.ptr].from = "pool" => \E t \in Threads : mem_datas[t] = b.ptr

(* Allocated, but in nobody's hands.                                       *)
Lost ==
    {p \in Addresses : memory[p] # Unused}
        \ ({b.ptr : b \in held} \cup {call[t].ptr : t \in {u \in Threads : call[u] # None}})
(* The calls of Malloc that a step ends, and the blocks for which Realloc  *)
(* gives another.                                                          *)
Finishing == {t \in Threads : call[t] # None /\ call'[t] = None}
Replaced == {b.ptr : b \in {c \in held : \E count \in Counts : Realloc(c, count)}}
(* Blocks get lost in two places at most: where a call of Malloc ends, the *)
(* block it took for the registry, and where Realloc gives another for     *)
(* one.  Free and exceptions lose nothing besides, whichever threads take  *)
(* blocks and give them back.                                              *)
OnlyFirstBlocksLost ==
    [][fault' = "none" => Lost' \subseteq Lost \cup {call[t].ptr : t \in Finishing}
                                             \cup Replaced]_vars

(* Free is right about blocks that are no larger than their alignment,     *)
(* whose size, in the pool, is that of one byte.                           *)
SmallBlocksFreed ==
    [][\A b \in held \ held' :
          memory[b.ptr].from = "pool" /\ b.bytes <= b.alignment => fault' = "none"]_vars

(* The blocks clients have of the pool are those of an allocator; those of *)
(* Realloc are not, which has room for one byte only.                      *)
Store == INSTANCE BlockStore WITH
    Blocks <- Addresses, Nothing <- None,
    grant <- [p \in Addresses |->
                 IF memory[p].from = "pool" /\ \E b \in held : b.ptr = p
                 THEN [asked |-> (CHOOSE b \in held : b.ptr = p).bytes, room |-> memory[p].size]
                 ELSE None]
ImplementsBlockStore == Store!Spec
===============================================================================
