-------------------------- MODULE SysAllocatorProofs --------------------------
(***************************************************************************)
(* Proofs about module SysAllocator, for any threads, addresses, requests  *)
(* and sizes of the pool's blocks: when its registry needs no lock and     *)
(* whose its blocks are (Inv); the room of held blocks (HeldInv) and       *)
(* the blocks of calls in progress (OwnInv), from which follow which       *)
(* blocks get lost, when Free is right about the size, and that the pool   *)
(* implements BlockStore.                                                  *)
(***************************************************************************)
EXTENDS SysAllocator, TLAPS, WellFoundedInduction

(* The sizes a block may have: none, one byte of malloc, or one of the     *)
(* pool.                                                                   *)
BlockSizes == {0, 1} \cup {BlockSize(r.bytes, r.alignment) : r \in Requests}
(* The values of the variables, as the steps make them.                    *)
Shape ==
    /\ call \in [Threads -> Calls \cup {None}]
    /\ mem_datas \in [Threads -> Addresses \cup {None, nullptr}]
    /\ memory \in [Addresses -> [from : {"none", "pool", "malloc"}, size : BlockSizes]]
    /\ alone \in BOOLEAN

(* While no first call has overlapped another, of any two threads in a     *)
(* call both have a record.                                                *)
Apart ==
    alone => \A t, u \in Threads :
                t # u /\ call[t] # None /\ call[u] # None => mem_datas[t] # None

(* p is a block of the pool that no client holds.                          *)
Unclaimed(p) ==
    p \in Addresses /\ memory[p].from = "pool" /\ \A b \in held : b.ptr # p

(* So is every block on record or on its way there.                        *)
Unseen ==
    \A t \in Threads :
        /\ call[t] # None /\ call[t].pc # "first" => Unclaimed(call[t].ptr)
        /\ mem_datas[t] # None => Unclaimed(mem_datas[t])

(* What a client holds is allocated, and nobody else's.                    *)
HeldUsed ==
    \A b \in held : /\ b.ptr \in Addresses /\ memory[b.ptr].from # "none"
                    /\ \A c \in held : b.ptr = c.ptr => b = c

(* The inductive invariant.                                                *)
Inv == Shape /\ Apart /\ Unseen /\ HeldUsed

-------------------------------------------------------------------------------
(* None is not one of the records that describe a call.                    *)
LEMMA InCall ==
    ASSUME Shape, NEW t \in Threads, call[t] # None
    PROVE  call[t] \in Calls
BY DEF Shape

(* It holds at the beginning.                                              *)
LEMMA InitInv == Init => Inv
BY DEF Init, Inv, Shape, Apart, Unseen, HeldUsed, Unused, BlockSizes

(* A step that frees no block but held ones, and takes no block but unused *)
(* ones for a client, leaves the unclaimed blocks unclaimed.               *)
LEMMA UnclaimedStays ==
    ASSUME Shape, NEW p, Unclaimed(p),
           \A q \in Addresses : memory'[q] = memory[q] \/ memory[q] = Unused
                                  \/ \E b \in held : b.ptr = q,
           \A b \in held' \ held : memory[b.ptr] = Unused
    PROVE  Unclaimed(p)'
<1>1. memory[p] # Unused
  BY DEF Unclaimed, Unused
<1>2. memory'[p] = memory[p]
  BY <1>1 DEF Unclaimed
<1>3. \A b \in held' : b.ptr # p
  BY <1>1 DEF Unclaimed
<1> QED BY <1>2, <1>3 DEF Unclaimed

-------------------------------------------------------------------------------
(* One lemma for each kind of step.                                        *)

(* std::bad_alloc ends a call; what it had obtained stays unclaimed.       *)
LEMMA ThrowInv ==
    ASSUME Inv, NEW t \in Threads, Throw(t)
    PROVE  Inv'
<1>1. Shape'
  BY DEF Inv, Shape, Throw
<1>2. Apart'
  BY DEF Inv, Shape, Apart, Throw
<1>3. Unseen'
  BY DEF Inv, Shape, Unseen, Unclaimed, Throw
<1>4. HeldUsed'
  BY DEF Inv, HeldUsed, Throw
<1> QED BY <1>1, <1>2, <1>3, <1>4 DEF Inv

(* The only step that begins a call is the one that keeps alone up to date.*)
LEMMA CallInv ==
    ASSUME Inv, NEW t \in Threads, CallMalloc(t)
    PROVE  Inv'
<1>1. PICK r \in Requests :
        call' = [call EXCEPT ![t] = [request |-> r, ptr |-> nullptr, pc |-> "first"]]
  BY DEF CallMalloc
<1>2. Shape'
  <2>1. call' \in [Threads -> Calls \cup {None}]
    BY <1>1 DEF Inv, Shape, Calls
  <2>2. alone' \in BOOLEAN
    BY DEF CallMalloc, Inv, Shape
  <2> QED BY <2>1, <2>2 DEF CallMalloc, Inv, Shape
<1>3. Apart'
  <2> SUFFICES ASSUME alone', NEW v \in Threads, NEW u \in Threads,
                      v # u, call'[v] # None, call'[u] # None
               PROVE  mem_datas'[v] # None
    BY DEF Apart
  <2>1. mem_datas' = mem_datas /\ alone
    BY DEF CallMalloc
  <2>2. CASE v # t /\ u # t
    BY <1>1, <2>1, <2>2 DEF Inv, Shape, Apart
  <2>3. CASE v = t \/ u = t
    <3> DEFINE others == {w \in Threads \ {t} : call[w] # None}
    <3>1. (v \in others \/ u \in others) /\ v \in others \cup {t}
      BY <1>1, <2>3 DEF Inv, Shape
    <3>2. others = {} \/ \A w \in others \cup {t} : mem_datas[w] # None
      BY DEF CallMalloc
    <3> QED BY <2>1, <3>1, <3>2
  <2> QED BY <2>2, <2>3
<1>4. Unseen'
  BY <1>1 DEF CallMalloc, Inv, Shape, Unseen, Unclaimed
<1>5. HeldUsed'
  BY DEF Inv, HeldUsed, CallMalloc
<1> QED BY <1>2, <1>3, <1>4, <1>5 DEF Inv

(* The first block of a call is unused before and unclaimed after.         *)
LEMMA FirstInv ==
    ASSUME Inv, NEW t \in Threads, FirstAllocate(t)
    PROVE  Inv'
<1>1. CASE Throw(t)
  BY <1>1, ThrowInv
<1>2. ASSUME NEW p \in Addresses, memory[p] = Unused,
             memory' = [memory EXCEPT ![p] = PoolBlock(call[t].request)],
             call' = [call EXCEPT ![t].ptr = p, ![t].pc = "now"],
             UNCHANGED <<mem_datas, held, alone, fault>>
      PROVE  Inv'
  <2>1. call[t] # None /\ call[t] \in Calls
    BY InCall DEF Inv, FirstAllocate, Doing
  <2>2. PoolBlock(call[t].request) \in [from : {"none", "pool", "malloc"}, size : BlockSizes]
    BY <2>1 DEF PoolBlock, BlockSizes, Calls
  <2>3. call' \in [Threads -> Calls \cup {None}]
    BY <1>2, <2>1 DEF Inv, Shape, Calls
  <2>4. Shape'
    BY <1>2, <2>2, <2>3 DEF Inv, Shape
  <2>5. Apart'
    BY <1>2, <2>1 DEF Inv, Shape, Apart
  <2>6. Unseen'
    <3>1. \A q : Unclaimed(q) => Unclaimed(q)'
      BY <1>2, UnclaimedStays DEF Inv, Shape
    <3>2. Unclaimed(p)'
      <4>1. memory'[p].from = "pool"
        BY <1>2 DEF Inv, Shape, PoolBlock
      <4>2. \A b \in held : b.ptr # p
        BY <1>2 DEF Inv, HeldUsed, Unused
      <4> QED BY <1>2, <4>1, <4>2 DEF Unclaimed
    <3>3. call'[t].ptr = p /\ mem_datas' = mem_datas
      BY <1>2, <2>1 DEF Inv, Shape, Calls
    <3>4. \A u \in Threads \ {t} : call'[u] = call[u]
      BY <1>2 DEF Inv, Shape
    <3> QED BY <3>1, <3>2, <3>3, <3>4 DEF Inv, Unseen
  <2>7. HeldUsed'
    BY <1>2 DEF Inv, HeldUsed, Shape, Unused
  <2> QED BY <2>4, <2>5, <2>6, <2>7 DEF Inv
<1> QED BY <1>1, <1>2 DEF FirstAllocate

(* Now, and a Print that only reads, change nothing but the step of a call.*)
LEMMA ReadInv ==
    ASSUME Inv, NEW t \in Threads, Now(t) \/ PrintRecords(t)
    PROVE  Inv'
<1>1. call[t] # None /\ call[t].pc # "first" /\ call[t] \in Calls
  BY InCall DEF Inv, Now, PrintRecords, Doing
<1>2. UNCHANGED <<mem_datas, memory, held, alone>>
  BY DEF Now, PrintRecords
<1>3. PICK pc \in {"try_emplace", "second"} : call' = [call EXCEPT ![t].pc = pc]
  BY DEF Now, PrintRecords
<1>4. Shape'
  <2>1. call' \in [Threads -> Calls \cup {None}]
    BY <1>1, <1>3 DEF Inv, Shape, Calls
  <2> QED BY <2>1, <1>2 DEF Inv, Shape
<1>5. Apart'
  BY <1>1, <1>2, <1>3 DEF Inv, Shape, Apart
<1>6. Unseen'
  <2>1. call'[t].ptr = call[t].ptr /\ \A u \in Threads \ {t} : call'[u] = call[u]
    BY <1>1, <1>3 DEF Inv, Shape, Calls
  <2>2. \A q : Unclaimed(q) => Unclaimed(q)'
    BY <1>2 DEF Unclaimed
  <2> QED BY <1>1, <1>2, <2>1, <2>2 DEF Inv, Unseen
<1>7. HeldUsed'
  BY <1>2 DEF Inv, HeldUsed
<1> QED BY <1>4, <1>5, <1>6, <1>7 DEF Inv

(* A record is made by a thread that is alone in a call, or while first    *)
(* calls have overlapped already.                                          *)
LEMMA RegisterInv ==
    ASSUME Inv, NEW t \in Threads, Register(t)
    PROVE  Inv'
<1>1. call[t] # None /\ call[t].pc # "first" /\ call[t] \in Calls
  BY InCall DEF Inv, Register, Doing
<1>2. /\ call' = [call EXCEPT ![t].pc = "Print"]
      /\ mem_datas' = mem_datas \/ mem_datas' = [mem_datas EXCEPT ![t] = call[t].ptr]
      /\ mem_datas[t] # None => mem_datas' = mem_datas
      /\ UNCHANGED <<memory, held, alone>>
  BY DEF Register, Inserts
<1>3. Shape'
  <2>1. call' \in [Threads -> Calls \cup {None}]
    BY <1>1, <1>2 DEF Inv, Shape, Calls
  <2>2. mem_datas' \in [Threads -> Addresses \cup {None, nullptr}]
    BY <1>1, <1>2 DEF Inv, Shape, Calls
  <2> QED BY <2>1, <2>2, <1>2 DEF Inv, Shape
<1>4. Apart'
  <2> SUFFICES ASSUME alone', NEW v \in Threads, NEW u \in Threads,
                      v # u, call'[v] # None, call'[u] # None
               PROVE  mem_datas'[v] # None
    BY DEF Apart
  <2>1. call[v] # None /\ call[u] # None
    BY <1>1, <1>2 DEF Inv, Shape
  <2>2. mem_datas[v] # None
    BY <1>2, <2>1 DEF Inv, Apart
  <2> QED BY <1>2, <2>2 DEF Inv, Shape
<1>5. Unseen'
  <2>1. call'[t].ptr = call[t].ptr /\ \A u \in Threads \ {t} : call'[u] = call[u]
    BY <1>1, <1>2 DEF Inv, Shape, Calls
  <2>2. \A u \in Threads : mem_datas'[u] = mem_datas[u] \/ (u = t /\ mem_datas'[u] = call[t].ptr)
    BY <1>2 DEF Inv, Shape
  <2>3. \A q : Unclaimed(q) => Unclaimed(q)'
    BY <1>2 DEF Unclaimed
  <2> QED BY <1>1, <2>1, <2>2, <2>3 DEF Inv, Unseen
<1>6. HeldUsed'
  BY <1>2 DEF Inv, HeldUsed
<1> QED BY <1>3, <1>4, <1>5, <1>6 DEF Inv

(* The caller's block is one that was unused, so it is not on record.      *)
LEMMA SecondInv ==
    ASSUME Inv, NEW t \in Threads, SecondAllocate(t)
    PROVE  Inv'
<1>1. CASE Throw(t)
  BY <1>1, ThrowInv
<1>2. ASSUME NEW p \in Addresses, memory[p] = Unused,
             memory' = [memory EXCEPT ![p] = PoolBlock(call[t].request)],
             held' = held \cup {[ptr |-> p, bytes |-> call[t].request.bytes,
                                 alignment |-> call[t].request.alignment]},
             call' = [call EXCEPT ![t] = None],
             UNCHANGED <<mem_datas, alone, fault>>
      PROVE  Inv'
  <2>1. call[t] \in Calls
    BY InCall DEF Inv, SecondAllocate, Doing
  <2>2. PoolBlock(call[t].request) \in [from : {"none", "pool", "malloc"}, size : BlockSizes]
    BY <2>1 DEF PoolBlock, BlockSizes, Calls
  <2>3. Shape'
    BY <1>2, <2>2 DEF Inv, Shape
  <2>4. Apart'
    BY <1>2 DEF Inv, Shape, Apart
  <2>5. Unseen'
    <3>1. \A q : Unclaimed(q) => Unclaimed(q)'
      BY <1>2, UnclaimedStays DEF Inv, Shape
    <3>2. \A u \in Threads : call'[u] # None => call'[u] = call[u]
      BY <1>2 DEF Inv, Shape
    <3> QED BY <1>2, <3>1, <3>2 DEF Inv, Unseen
  <2>6. HeldUsed'
    <3>1. memory'[p].from = "pool" /\ \A q \in Addresses \ {p} : memory'[q] = memory[q]
      BY <1>2 DEF Inv, Shape, PoolBlock
    <3>2. \A b \in held : b.ptr # p
      BY <1>2 DEF Inv, HeldUsed, Unused
    <3> QED BY <1>2, <3>1, <3>2 DEF Inv, HeldUsed
  <2> QED BY <2>3, <2>4, <2>5, <2>6 DEF Inv
<1> QED BY <1>1, <1>2 DEF SecondAllocate

(* A freed block was held once, by HeldUsed: nobody else loses theirs.     *)
LEMMA FreeInv ==
    ASSUME Inv, NEW b \in held, Free(b)
    PROVE  Inv'
<1>1. /\ held' = held \ {b} /\ UNCHANGED <<call, mem_datas, alone>>
      /\ memory' = memory \/ memory' = [memory EXCEPT ![b.ptr] = Unused]
  BY DEF Free
<1>2. b.ptr \in Addresses
  BY DEF Inv, HeldUsed
<1>3. Unused \in [from : {"none", "pool", "malloc"}, size : BlockSizes]
  BY DEF Unused, BlockSizes
<1>4. Shape'
  BY <1>1, <1>3 DEF Inv, Shape
<1>5. Apart'
  BY <1>1 DEF Inv, Apart
<1>6. Unseen'
  <2>1. \A q \in Addresses : memory'[q] = memory[q] \/ b.ptr = q
    BY <1>1, <1>2 DEF Inv, Shape
  <2>2. \A q : Unclaimed(q) => Unclaimed(q)'
    BY <1>1, <2>1, UnclaimedStays DEF Inv
  <2> QED BY <1>1, <2>2 DEF Inv, Unseen
<1>7. HeldUsed'
  <2>1. \A c \in held' : c.ptr \in Addresses /\ memory'[c.ptr] = memory[c.ptr]
    BY <1>1, <1>2 DEF Inv, Shape, HeldUsed
  <2> QED BY <1>1, <2>1 DEF Inv, HeldUsed
<1> QED BY <1>4, <1>5, <1>6, <1>7 DEF Inv

(* A replaced block stays allocated, but no longer held.                   *)
LEMMA ReallocInv ==
    ASSUME Inv, NEW b \in held, NEW count, Realloc(b, count)
    PROVE  Inv'
<1>1. UNCHANGED <<call, mem_datas, alone>>
  BY DEF Realloc
<1>2. ASSUME NEW p \in Addresses, memory[p] = Unused,
             memory' = [memory EXCEPT ![p] = [from |-> "malloc", size |-> 1]],
             held' = (held \ {b}) \cup
                     {[ptr |-> p, bytes |-> count, alignment |-> b.alignment]}
      PROVE  Inv'
  <2>1. [from |-> "malloc", size |-> 1] \in [from : {"none", "pool", "malloc"}, size : BlockSizes]
    BY DEF BlockSizes
  <2>2. Shape'
    BY <1>1, <1>2, <2>1 DEF Inv, Shape
  <2>3. Apart'
    BY <1>1 DEF Inv, Apart
  <2>4. Unseen'
    <3>1. \A q : Unclaimed(q) => Unclaimed(q)'
      BY <1>2, UnclaimedStays DEF Inv, Shape
    <3> QED BY <1>1, <3>1 DEF Inv, Unseen
  <2>5. HeldUsed'
    <3>1. memory'[p].from = "malloc" /\ \A q \in Addresses \ {p} : memory'[q] = memory[q]
      BY <1>2 DEF Inv, Shape
    <3>2. \A c \in held : c.ptr # p
      BY <1>2 DEF Inv, HeldUsed, Unused
    <3> QED BY <1>2, <3>1, <3>2 DEF Inv, HeldUsed
  <2> QED BY <2>2, <2>3, <2>4, <2>5 DEF Inv
<1> QED BY <1>2 DEF Realloc

(* Every step keeps it.                                                    *)
LEMMA NextInv == Inv /\ [Next]_vars => Inv'
<1> SUFFICES ASSUME Inv, [Next]_vars
             PROVE  Inv'
  OBVIOUS
<1>1. CASE UNCHANGED vars
  BY <1>1 DEF vars, Inv, Shape, BlockSizes, Apart, Unseen, Unclaimed, HeldUsed
<1>2. CASE Step
  <2>1. ASSUME NEW t \in Threads,
               \/ CallMalloc(t) \/ FirstAllocate(t) \/ Now(t) \/ Register(t)
               \/ PrintRecords(t) \/ SecondAllocate(t)
        PROVE  Inv'
    BY <2>1, CallInv, FirstInv, ReadInv, RegisterInv, SecondInv
  <2>2. ASSUME NEW b \in held, Free(b) \/ \E count \in Counts : Realloc(b, count)
        PROVE  Inv'
    BY <2>2, FreeInv, ReallocInv
  <2> QED BY <1>2, <2>1, <2>2 DEF Step
<1> QED BY <1>1, <1>2 DEF Next, Ended

(* Hence it holds in every behaviour.                                      *)
LEMMA Invariance == Spec => []Inv
<1> QED BY InitInv, NextInv, PTL DEF Spec

-------------------------------------------------------------------------------
(* The map needs no lock in a program in which the first call of every     *)
(* thread overlaps no other call: of two threads in a call both are on     *)
(* record, and try_emplace changes nothing for either.                     *)
THEOREM FirstCallsApart == Spec => []NoRaceAfterFirstCalls
<1>1. Inv => NoRaceAfterFirstCalls
  <2> SUFFICES ASSUME Inv, alone, NEW t \in Threads, NEW u \in Threads,
                      t # u, Inserts(t), Doing(u, "try_emplace") \/ Doing(u, "Print")
               PROVE  FALSE
    BY DEF NoRaceAfterFirstCalls, Race
  <2> QED BY DEF Inserts, Doing, Inv, Apart
<1> QED BY <1>1, Invariance, PTL

-------------------------------------------------------------------------------
(* The sizes of blocks.                                                    *)

(* A set of numbers has a least one.                                       *)
LEMMA Least ==
    ASSUME NEW S \in SUBSET Nat, S # {}
    PROVE  \E x \in S : \A y \in S : x <= y
<1>1. PICK x \in S : \A y \in S : <<y, x>> \notin OpToRel(<, Nat)
  BY NatLessThanWellFounded, WFMin
<1>2. \A y \in S : ~ (y < x)
  BY <1>1 DEF OpToRel
<1> QED BY <1>2

(* The pool has a size for each request up to the limit, which is one of   *)
(* its sizes.                                                              *)
LEMMA BlockSizeFits ==
    ASSUME NEW bytes \in 0 .. Limit, NEW alignment \in 1 .. Limit
    PROVE  /\ BlockSize(bytes, alignment) \in Nat
           /\ BlockSize(bytes, alignment) >= bytes
<1> DEFINE n == Larger(bytes, alignment)
           S == {s \in PoolSizes : s >= n}
<1>1. n \in Nat /\ n <= Limit /\ n >= bytes /\ Limit \in PoolSizes /\ PoolSizes \in SUBSET Nat
  BY SysAllocatorAssumption DEF Larger
<1>2. BlockSize(bytes, alignment) =
         CHOOSE s \in PoolSizes : s >= n /\ \A z \in PoolSizes : z >= n => s <= z
  BY DEF BlockSize
<1> HIDE DEF n
<1>3. S \in SUBSET Nat /\ S # {}
  <2>1. Limit \in Nat /\ Limit >= n
    BY <1>1, SysAllocatorAssumption
  <2>2. Limit \in S
    BY <1>1, <2>1
  <2> QED BY <1>1, <2>2
<1>4. PICK x \in S : \A y \in S : x <= y
  BY <1>3, Least
<1>5. \E s \in PoolSizes : s >= n /\ \A z \in PoolSizes : z >= n => s <= z
  BY <1>4
<1> DEFINE size == BlockSize(bytes, alignment)
<1>6. size \in PoolSizes /\ size >= n
  BY <1>2, <1>5
<1> HIDE DEF size
<1>7. size \in Nat /\ size >= bytes
  BY <1>1, <1>6
<1> QED BY <1>7 DEF size

-------------------------------------------------------------------------------
(* What else holds of what clients hold, and of the calls.                 *)

(* A block of the pool has the size the pool chose for its request.        *)
HeldInv ==
    /\ fault \in {"none", "free"}
    /\ \A b \in held :
          /\ b \in [ptr : Addresses, bytes : 0 .. Limit, alignment : 1 .. Limit]
          /\ memory[b.ptr].from = "pool" => memory[b.ptr].size = BlockSize(b.bytes, b.alignment)

(* No two calls have obtained the same block.                              *)
OwnInv ==
    /\ \A t \in Threads : call[t] # None => (call[t].pc = "first" <=> call[t].ptr = nullptr)
    /\ \A t, u \in Threads :
          t # u /\ call[t] # None /\ call[u] # None /\ call[t].ptr = call[u].ptr
          => call[t].ptr = nullptr

(* A step changes the memory of one block, which nobody held or somebody   *)
(* gives back.                                                             *)
LEMMA HeldNext == ASSUME Inv, HeldInv, [Next]_vars PROVE HeldInv'
<1>1. CASE UNCHANGED <<memory, held, fault>>
  BY <1>1 DEF HeldInv
<1>2. ASSUME NEW t \in Threads, FirstAllocate(t) PROVE HeldInv'
  <2>1. CASE Throw(t)
    BY <2>1 DEF Throw, HeldInv
  <2>2. ASSUME NEW p \in Addresses, memory[p] = Unused, UNCHANGED <<held, fault>>,
               memory' = [memory EXCEPT ![p] = PoolBlock(call[t].request)]
        PROVE  HeldInv'
    <3>1. \A b \in held : b.ptr # p
      BY <2>2 DEF Inv, HeldUsed, Unused
    <3>2. \A b \in held : memory'[b.ptr] = memory[b.ptr]
      BY <2>2, <3>1 DEF Inv, HeldUsed, Shape
    <3> QED BY <2>2, <3>2 DEF HeldInv
  <2> QED BY <1>2, <2>1, <2>2 DEF FirstAllocate
<1>3. ASSUME NEW t \in Threads, SecondAllocate(t) PROVE HeldInv'
  <2>1. CASE Throw(t)
    BY <2>1 DEF Throw, HeldInv
  <2>2. ASSUME NEW p \in Addresses, memory[p] = Unused, UNCHANGED fault,
               memory' = [memory EXCEPT ![p] = PoolBlock(call[t].request)],
               held' = held \cup {[ptr |-> p, bytes |-> call[t].request.bytes,
                                   alignment |-> call[t].request.alignment]}
        PROVE  HeldInv'
    <3>1. \A b \in held : b.ptr # p
      BY <2>2 DEF Inv, HeldUsed, Unused
    <3>2. \A b \in held : memory'[b.ptr] = memory[b.ptr]
      BY <2>2, <3>1 DEF Inv, HeldUsed, Shape
    <3>3. call[t].request \in [bytes : 0 .. Limit, alignment : 1 .. Limit]
      BY <1>3, InCall, SysAllocatorAssumption DEF Inv, SecondAllocate, Doing, Calls
    <3>4. memory'[p] = PoolBlock(call[t].request)
      BY <2>2 DEF Inv, Shape
    <3> QED BY <2>2, <3>2, <3>3, <3>4 DEF HeldInv, PoolBlock
  <2> QED BY <1>3, <2>1, <2>2 DEF SecondAllocate
<1>4. ASSUME NEW b \in held, Free(b) PROVE HeldInv'
  <2>1. /\ held' = held \ {b} /\ fault' \in {"none", "free"}
        /\ memory' = memory \/ memory' = [memory EXCEPT ![b.ptr] = Unused]
    BY <1>4 DEF Free, HeldInv
  <2>2. \A c \in held' : memory'[c.ptr] = memory[c.ptr]
    BY <2>1 DEF Inv, Shape, HeldUsed
  <2> QED BY <2>1, <2>2 DEF HeldInv
<1>5. ASSUME NEW b \in held, NEW count \in Counts, Realloc(b, count) PROVE HeldInv'
  <2>1. ASSUME NEW p \in Addresses, memory[p] = Unused, UNCHANGED fault,
               memory' = [memory EXCEPT ![p] = [from |-> "malloc", size |-> 1]],
               held' = (held \ {b}) \cup
                       {[ptr |-> p, bytes |-> count, alignment |-> b.alignment]}
        PROVE  HeldInv'
    <3>1. \A c \in held : c.ptr # p
      BY <2>1 DEF Inv, HeldUsed, Unused
    <3>2. \A c \in held : memory'[c.ptr] = memory[c.ptr]
      BY <2>1, <3>1 DEF Inv, HeldUsed, Shape
    <3>3. memory'[p].from = "malloc"
      BY <2>1 DEF Inv, Shape
    <3>4. count \in 0 .. Limit /\ b.alignment \in 1 .. Limit
      BY SysAllocatorAssumption DEF HeldInv
    <3> QED BY <2>1, <3>2, <3>3, <3>4 DEF HeldInv
  <2> QED BY <1>5, <2>1 DEF Realloc
<1> QED
  BY <1>1, <1>2, <1>3, <1>4, <1>5
     DEF Next, Step, Ended, vars, CallMalloc, Now, Register, PrintRecords

(* The first block of a call is unused until then.                         *)
LEMMA OwnNext == ASSUME Inv, OwnInv, [Next]_vars PROVE OwnInv'
<1>1. CASE UNCHANGED call
  BY <1>1 DEF OwnInv
<1>2. ASSUME NEW t \in Threads, call' = [call EXCEPT ![t] = None] PROVE OwnInv'
  BY <1>2 DEF Inv, Shape, OwnInv
<1>3. ASSUME NEW t \in Threads, CallMalloc(t) PROVE OwnInv'
  BY <1>3 DEF Inv, Shape, OwnInv, CallMalloc
<1>4. ASSUME NEW t \in Threads, NEW p \in Addresses, memory[p] = Unused, Doing(t, "first"),
             call' = [call EXCEPT ![t].ptr = p, ![t].pc = "now"]
      PROVE  OwnInv'
  <2>1. call[t] # None /\ call[t] \in Calls
    BY <1>4, InCall DEF Inv, Doing
  <2>2. /\ call'[t].ptr = p /\ call'[t].pc = "now"
        /\ \A u \in Threads \ {t} : call'[u] = call[u]
    BY <1>4, <2>1 DEF Inv, Shape, Calls
  <2>3. ASSUME NEW u \in Threads, call[u] # None, call[u].ptr = p PROVE FALSE
    <3>1. call[u].pc = "first" => call[u].ptr = nullptr
      BY <2>3 DEF OwnInv
    <3>2. memory[p].from = "pool"
      BY <2>3, <3>1, SysAllocatorAssumption DEF Inv, Unseen, Unclaimed
    <3> QED BY <1>4, <3>2 DEF Unused
  <2> QED BY <2>2, <2>3, SysAllocatorAssumption DEF OwnInv
<1>5. ASSUME NEW t \in Threads, NEW old \in {"now", "try_emplace", "Print"},
             NEW new \in {"try_emplace", "Print", "second"}, Doing(t, old),
             call' = [call EXCEPT ![t].pc = new]
      PROVE  OwnInv'
  <2>1. call[t] # None /\ call[t] \in Calls
    BY <1>5, InCall DEF Inv, Doing
  <2>2. /\ call'[t].ptr = call[t].ptr /\ call'[t].pc = new
        /\ \A u \in Threads \ {t} : call'[u] = call[u]
    BY <1>5, <2>1 DEF Inv, Shape, Calls
  <2> QED BY <1>5, <2>1, <2>2 DEF OwnInv, Doing
<1>6. ASSUME NEW t \in Threads, FirstAllocate(t) \/ SecondAllocate(t) PROVE OwnInv'
  BY <1>2, <1>4, <1>6 DEF FirstAllocate, SecondAllocate, Throw
<1>7. ASSUME NEW t \in Threads, Now(t) \/ Register(t) \/ PrintRecords(t) PROVE OwnInv'
  BY <1>5, <1>7 DEF Now, Register, PrintRecords
<1> QED
  BY <1>1, <1>3, <1>6, <1>7 DEF Next, Step, Ended, vars, Free, Realloc

(* All of it holds in every behaviour.                                     *)
LEMMA Invariance2 == Spec => [](Inv /\ HeldInv /\ OwnInv)
<1>1. Init => HeldInv /\ OwnInv
  BY DEF Init, HeldInv, OwnInv
<1>2. Inv /\ HeldInv /\ OwnInv /\ [Next]_vars => HeldInv' /\ OwnInv'
  BY HeldNext, OwnNext
<1> QED BY <1>1, <1>2, Invariance, PTL DEF Spec

(* The variables keep their types: in particular, what is on record is an  *)
(* address, never nullptr, and the pool has a size for every block.        *)
THEOREM SysAllocatorTypeOK == Spec => []TypeOK
<1>1. Inv /\ HeldInv => TypeOK
  <2> SUFFICES ASSUME Inv, HeldInv PROVE TypeOK
    OBVIOUS
  <2>1. BlockSizes \subseteq Nat
    BY BlockSizeFits, SysAllocatorAssumption DEF BlockSizes
  <2>2. memory \in [Addresses -> [from : {"none", "pool", "malloc"}, size : Nat]]
    BY <2>1 DEF Inv, Shape
  <2>3. mem_datas \in [Threads -> Addresses \cup {None}]
    BY DEF Inv, Shape, Unseen, Unclaimed
  <2>4. held \subseteq [ptr : Addresses, bytes : 0 .. Limit, alignment : 1 .. Limit]
    BY DEF HeldInv
  <2> QED BY <2>2, <2>3, <2>4 DEF TypeOK, Inv, Shape, Calls, HeldInv
<1> QED BY <1>1, Invariance2, PTL

-------------------------------------------------------------------------------
(* What is lost, and what Free is right about.                             *)

(* A step that takes no block from a client is no call of Realloc.         *)
LEMMA NothingReplaced == ASSUME Inv, held \subseteq held' PROVE Replaced = {}
<1> SUFFICES ASSUME NEW c \in held, NEW count \in Counts, Realloc(c, count) PROVE FALSE
  BY DEF Replaced
<1>1. PICK p \in Addresses :
         /\ memory[p] = Unused
         /\ held' = (held \ {c}) \cup {[ptr |-> p, bytes |-> count, alignment |-> c.alignment]}
  BY DEF Realloc
<1>2. c.ptr = p
  BY <1>1
<1> QED BY <1>1, <1>2 DEF Inv, HeldUsed, Unused

(* Nor is one of Free.                                                     *)
LEMMA FreedNotReplaced ==
    ASSUME Inv, NEW b \in held, memory[b.ptr] # Unused,
           memory' = [memory EXCEPT ![b.ptr] = Unused]
    PROVE  Replaced = {}
<1> SUFFICES ASSUME NEW c \in held, NEW count \in Counts, Realloc(c, count) PROVE FALSE
  BY DEF Replaced
<1>1. b.ptr \in Addresses /\ memory' # memory
  BY DEF Inv, HeldUsed, Shape
<1>2. PICK p \in Addresses :
         memory[p] = Unused /\ memory' = [memory EXCEPT ![p] = [from |-> "malloc", size |-> 1]]
  BY <1>1 DEF Realloc
<1>3. memory'[p].from = "malloc"
  BY <1>2 DEF Inv, Shape
<1>4. memory'[p] = memory[p] \/ memory'[p] = Unused
  BY DEF Inv, Shape
<1> QED BY <1>2, <1>3, <1>4 DEF Unused

(* Realloc replaces one block.                                             *)
LEMMA OneReplaced ==
    ASSUME Inv, NEW b \in held, NEW count \in Counts, Realloc(b, count), HeldUsed'
    PROVE  Replaced = {b.ptr} /\ b \notin held'
<1>1. ASSUME NEW c \in held, NEW n, Realloc(c, n) PROVE c \notin held'
  <2>1. ASSUME NEW p \in Addresses, memory[p] = Unused,
               held' = (held \ {c}) \cup {[ptr |-> p, bytes |-> n, alignment |-> c.alignment]}
        PROVE  c \notin held'
    BY <2>1 DEF Inv, HeldUsed, Unused
  <2> QED BY <1>1, <2>1 DEF Realloc
<1>2. held \ held' \subseteq {b}
  BY DEF Realloc
<1>3. \A c \in held : (\E n \in Counts : Realloc(c, n)) => c = b
  BY <1>1, <1>2
<1> QED BY <1>1, <1>3 DEF Replaced


(* SmallBlocksFreed of Free: the size that the pool chooses for one byte,  *)
(* at the alignment of the block, is the size it chose for the block.      *)
THEOREM SmallBlocksAreFreed == Spec => SmallBlocksFreed
<1>1. ASSUME Inv, HeldInv, Inv', [Next]_vars, NEW b \in held \ held',
             memory[b.ptr].from = "pool", b.bytes <= b.alignment
      PROVE  fault' = "none"
  <2>1. PICK c \in held : Free(c) \/ \E count \in Counts : Realloc(c, count)
    BY <1>1 DEF Next, Step, Ended, vars, CallMalloc, FirstAllocate, Now, Register,
                PrintRecords, SecondAllocate, Throw
  <2>2. fault = "none"
    BY <1>1 DEF Next, Ended, vars
  <2>3. CASE \E count \in Counts : Realloc(c, count)
    BY <2>2, <2>3 DEF Realloc
  <2>4. CASE Free(c)
    <3>1. c = b
      BY <1>1, <2>4 DEF Free
    <3>2. /\ b.ptr \in Addresses /\ b.bytes \in 0 .. Limit /\ b.alignment \in 1 .. Limit
          /\ memory[b.ptr].size = BlockSize(b.bytes, b.alignment)
          /\ Limit \in Nat
      BY <1>1, SysAllocatorAssumption DEF HeldInv
    <3>3. Larger(b.bytes, b.alignment) = b.alignment /\ Larger(1, b.alignment) = b.alignment
      BY <1>1, <3>2 DEF Larger
    <3>4. BlockSize(b.bytes, b.alignment) = BlockSize(1, b.alignment)
      BY <3>3 DEF BlockSize
    <3>5. memory[b.ptr] = [from |-> "pool", size |-> BlockSize(1, b.alignment)]
      BY <1>1, <3>2, <3>4 DEF Inv, Shape
    <3> QED BY <2>2, <2>4, <3>1, <3>5 DEF Free, FreedAs, PoolBlock
  <2> QED BY <2>1, <2>3, <2>4
<1>2. Inv /\ HeldInv /\ Inv' /\ [Next]_vars
      => [\A b \in held \ held' :
             memory[b.ptr].from = "pool" /\ b.bytes <= b.alignment => fault' = "none"]_vars
  BY <1>1
<1> QED BY <1>2, Invariance2, PTL DEF Spec, SmallBlocksFreed

(* The addresses that are not unused, those clients hold, and those calls  *)
(* have obtained.                                                          *)
Used == {p \in Addresses : memory[p] # Unused}
HeldPtrs == {b.ptr : b \in held}
CallPtrs == {call[t].ptr : t \in {u \in Threads : call[u] # None}}

(* A new block adds its address.                                           *)
LEMMA AddedPtr ==
    ASSUME NEW S, NEW p, NEW n, NEW a
    PROVE  {b.ptr : b \in S \cup {[ptr |-> p, bytes |-> n, alignment |-> a]}}
              = {b.ptr : b \in S} \cup {p}
<1> DEFINE new == [ptr |-> p, bytes |-> n, alignment |-> a]
<1>1. new.ptr = p
  OBVIOUS
<1> HIDE DEF new
<1>2. {b.ptr : b \in S \cup {new}} = {b.ptr : b \in S} \cup {p}
  BY <1>1
<1> QED BY <1>2 DEF new

(* A step that ends no call and touches no block loses nothing.            *)
LEMMA LossNone ==
    ASSUME Inv, UNCHANGED <<memory, held>>, Finishing = {},
           CallPtrs' \ {nullptr} = CallPtrs \ {nullptr}
    PROVE  Lost' = Lost \cup ({call[t].ptr : t \in Finishing} \ {nullptr}) \cup Replaced
<1>1. Replaced = {}
  BY NothingReplaced
<1>2. Lost' = Used \ (HeldPtrs \cup CallPtrs')
  BY DEF Lost, Used, HeldPtrs, CallPtrs
<1>3. Lost = Used \ (HeldPtrs \cup CallPtrs)
  BY DEF Lost, Used, HeldPtrs, CallPtrs
<1>4. nullptr \notin Used
  BY SysAllocatorAssumption DEF Used
<1> QED BY <1>1, <1>2, <1>3, <1>4

(* When a call ends, its first block is lost.                              *)
LEMMA LossEnds ==
    ASSUME Inv, OwnInv, NEW t \in Threads, call[t] # None, call' = [call EXCEPT ![t] = None],
           held \subseteq held', NEW new \in SUBSET Addresses,
           Used' = Used \cup new, HeldPtrs' = HeldPtrs \cup new, Used \cap new = {}
    PROVE  Lost' = Lost \cup ({call[u].ptr : u \in Finishing} \ {nullptr}) \cup Replaced
<1> DEFINE mine == call[t].ptr
<1>1. Replaced = {}
  BY NothingReplaced
<1>2. Finishing = {t}
  BY DEF Finishing, Inv, Shape
<1>3. mine = nullptr \/ mine \in Used \ HeldPtrs
  BY DEF OwnInv, Inv, Unseen, Unclaimed, Used, HeldPtrs, Unused
<1>4. CallPtrs = CallPtrs' \cup {mine}
  BY DEF CallPtrs, Inv, Shape
<1>5. mine \notin CallPtrs' \/ mine = nullptr
  BY DEF CallPtrs, OwnInv, Inv, Shape
<1>6. Lost' = Used' \ (HeldPtrs' \cup CallPtrs')
  BY DEF Lost, Used, HeldPtrs, CallPtrs
<1>7. Lost = Used \ (HeldPtrs \cup CallPtrs)
  BY DEF Lost, Used, HeldPtrs, CallPtrs
<1>8. nullptr \notin Used /\ nullptr \notin new
  BY SysAllocatorAssumption DEF Used
<1>9. {call[u].ptr : u \in Finishing} = {mine}
  BY <1>2
<1> HIDE DEF mine
<1> QED BY <1>1, <1>3, <1>4, <1>5, <1>6, <1>7, <1>8, <1>9

(* The steps of a call of Malloc.                                          *)
LEMMA LossCall ==
    ASSUME Inv, OwnInv, NEW t \in Threads,
           \/ CallMalloc(t) \/ FirstAllocate(t) \/ Now(t) \/ Register(t) \/ PrintRecords(t)
           \/ SecondAllocate(t)
    PROVE  Lost' = Lost \cup ({call[u].ptr : u \in Finishing} \ {nullptr}) \cup Replaced
<1>1. CASE CallMalloc(t)
  <2>1. PICK r \in Requests :
           call' = [call EXCEPT ![t] = [request |-> r, ptr |-> nullptr, pc |-> "first"]]
    BY <1>1 DEF CallMalloc
  <2> DEFINE new == [request |-> r, ptr |-> nullptr, pc |-> "first"]
  <2>a. new \in Calls /\ new # None /\ new.ptr = nullptr
    BY NamesAssumption DEF Calls
  <2>b. call'[t] = new
    BY <2>1 DEF Inv, Shape
  <2>2. call[t] = None /\ call'[t].ptr = nullptr /\ call'[t] # None
    BY <1>1, <2>a, <2>b DEF CallMalloc
  <2>3. \A u \in Threads \ {t} : call'[u] = call[u]
    BY <2>1 DEF Inv, Shape
  <2>4. Finishing = {}
    BY <2>2, <2>3 DEF Finishing
  <2>5. CallPtrs' \ {nullptr} = CallPtrs \ {nullptr}
    <3>1. CallPtrs \subseteq CallPtrs'
      BY <2>2, <2>3 DEF CallPtrs
    <3>2. CallPtrs' \subseteq CallPtrs \cup {nullptr}
      BY <2>2, <2>3 DEF CallPtrs
    <3> QED BY <3>1, <3>2
  <2> QED BY <1>1, <2>4, <2>5, LossNone DEF CallMalloc
<1>2. ASSUME NEW old \in {"now", "try_emplace", "Print"}, Doing(t, old),
             NEW new \in {"try_emplace", "Print", "second"},
             call' = [call EXCEPT ![t].pc = new], UNCHANGED <<memory, held>>
      PROVE  Lost' = Lost \cup ({call[u].ptr : u \in Finishing} \ {nullptr}) \cup Replaced
  <2>1. call[t] # None /\ call[t] \in Calls
    BY <1>2, InCall DEF Inv, Doing
  <2>2. /\ call'[t].ptr = call[t].ptr /\ call'[t] \in Calls
        /\ \A u \in Threads \ {t} : call'[u] = call[u]
    BY <1>2, <2>1 DEF Inv, Shape, Calls
  <2>3. call'[t] # None
    BY <2>2, NamesAssumption DEF Calls
  <2>4. Finishing = {}
    BY <2>2, <2>3 DEF Finishing
  <2>5. CallPtrs' = CallPtrs
    BY <2>1, <2>2, <2>3 DEF CallPtrs
  <2> QED BY <1>2, <2>4, <2>5, LossNone
<1>3. CASE Now(t) \/ Register(t) \/ PrintRecords(t)
  BY <1>2, <1>3 DEF Now, Register, PrintRecords
<1>4. ASSUME Throw(t), call[t] # None
      PROVE  Lost' = Lost \cup ({call[u].ptr : u \in Finishing} \ {nullptr}) \cup Replaced
  <2> DEFINE new == {}
  <2>1. /\ Used' = Used \cup new /\ HeldPtrs' = HeldPtrs \cup new
        /\ new \in SUBSET Addresses /\ Used \cap new = {}
    BY <1>4 DEF Throw, Used, HeldPtrs
  <2>2. held \subseteq held' /\ call' = [call EXCEPT ![t] = None]
    BY <1>4 DEF Throw
  <2> HIDE DEF new
  <2> QED BY <1>4, <2>1, <2>2, LossEnds
<1>5. ASSUME NEW p \in Addresses, memory[p] = Unused, Doing(t, "first"),
             memory' = [memory EXCEPT ![p] = PoolBlock(call[t].request)],
             call' = [call EXCEPT ![t].ptr = p, ![t].pc = "now"], UNCHANGED held
      PROVE  Lost' = Lost \cup ({call[u].ptr : u \in Finishing} \ {nullptr}) \cup Replaced
  <2>1. call[t] # None /\ call[t] \in Calls /\ call[t].ptr = nullptr
    BY <1>5, InCall DEF Inv, Doing, OwnInv
  <2>2. /\ call'[t].ptr = p /\ call'[t] \in Calls
        /\ \A u \in Threads \ {t} : call'[u] = call[u]
    BY <1>5, <2>1 DEF Inv, Shape, Calls
  <2>3. call'[t] # None
    BY <2>2, NamesAssumption DEF Calls
  <2>4. Finishing = {}
    BY <2>2, <2>3 DEF Finishing
  <2>5. CallPtrs' \cup {nullptr} = CallPtrs \cup {p}
    <3>1. nullptr \in CallPtrs /\ p \in CallPtrs'
      BY <2>1, <2>2, <2>3 DEF CallPtrs
    <3>2. CallPtrs \subseteq CallPtrs' \cup {nullptr}
      BY <2>1, <2>2 DEF CallPtrs
    <3>3. CallPtrs' \subseteq CallPtrs \cup {p}
      BY <2>2 DEF CallPtrs
    <3> QED BY <3>1, <3>2, <3>3
  <2>6. Used' = Used \cup {p} /\ p \notin Used
    BY <1>5 DEF Used, Inv, Shape, PoolBlock, Unused
  <2>7. Replaced = {} /\ HeldPtrs' = HeldPtrs
    BY <1>5, NothingReplaced DEF HeldPtrs
  <2>8. /\ Lost' = Used' \ (HeldPtrs' \cup CallPtrs')
        /\ Lost = Used \ (HeldPtrs \cup CallPtrs)
    BY DEF Lost, Used, HeldPtrs, CallPtrs
  <2>9. nullptr \notin Used /\ p # nullptr
    BY SysAllocatorAssumption DEF Used
  <2> QED BY <2>4, <2>5, <2>6, <2>7, <2>8, <2>9
<1>6. ASSUME NEW p \in Addresses, memory[p] = Unused, call[t] # None,
             memory' = [memory EXCEPT ![p] = PoolBlock(call[t].request)],
             held' = held \cup {[ptr |-> p, bytes |-> call[t].request.bytes,
                                 alignment |-> call[t].request.alignment]},
             call' = [call EXCEPT ![t] = None]
      PROVE  Lost' = Lost \cup ({call[u].ptr : u \in Finishing} \ {nullptr}) \cup Replaced
  <2>1. Used' = Used \cup {p} /\ Used \cap {p} = {}
    BY <1>6 DEF Used, Inv, Shape, PoolBlock, Unused
  <2>2. HeldPtrs' = HeldPtrs \cup {p}
    <3>1. held' = held \cup {[ptr |-> p, bytes |-> call[t].request.bytes,
                              alignment |-> call[t].request.alignment]}
      BY <1>6
    <3> QED BY <3>1, AddedPtr DEF HeldPtrs
  <2> DEFINE new == {p}
  <2>3. /\ new \in SUBSET Addresses /\ held \subseteq held'
        /\ Used' = Used \cup new /\ HeldPtrs' = HeldPtrs \cup new /\ Used \cap new = {}
    BY <1>6, <2>1, <2>2
  <2> HIDE DEF new
  <2> QED BY <1>6, <2>3, LossEnds
<1> QED
  BY <1>1, <1>3, <1>4, <1>5, <1>6 DEF FirstAllocate, SecondAllocate, Doing

(* Calls of Free and Realloc: what Realloc is given stays used.            *)
LEMMA LossClient ==
    ASSUME Inv, HeldInv, Inv', OwnInv, NEW b \in held, fault' = "none",
           Free(b) \/ \E count \in Counts : Realloc(b, count)
    PROVE  Lost' = Lost \cup ({call[u].ptr : u \in Finishing} \ {nullptr}) \cup Replaced
<1>1. UNCHANGED call /\ Finishing = {} /\ CallPtrs' = CallPtrs
  BY DEF Free, Realloc, Finishing, CallPtrs
<1>2. /\ Lost' = Used' \ (HeldPtrs' \cup CallPtrs')
      /\ Lost = Used \ (HeldPtrs \cup CallPtrs)
  BY DEF Lost, Used, HeldPtrs, CallPtrs
<1>3. b.ptr \in Used \cap HeldPtrs
  BY DEF Used, HeldPtrs, Inv, HeldUsed, Unused
<1>4. b.ptr \notin CallPtrs
  BY SysAllocatorAssumption DEF CallPtrs, Inv, HeldUsed, OwnInv, Unseen, Unclaimed
<1>5. CASE Free(b)
  <2>1. held' = held \ {b} /\ memory' = [memory EXCEPT ![b.ptr] = Unused]
    BY <1>5 DEF Free
  <2>2. Used' = Used \ {b.ptr}
    BY <2>1 DEF Used, Inv, Shape
  <2>3. HeldPtrs' = HeldPtrs \ {b.ptr}
    BY <2>1 DEF HeldPtrs, Inv, HeldUsed
  <2>4. Replaced = {}
    BY <1>3, <2>1, FreedNotReplaced DEF Used
  <2> QED BY <1>1, <1>2, <1>3, <2>2, <2>3, <2>4
<1>6. ASSUME NEW count \in Counts, Realloc(b, count)
      PROVE  Lost' = Lost \cup ({call[u].ptr : u \in Finishing} \ {nullptr}) \cup Replaced
  <2>1. Replaced = {b.ptr}
    BY <1>6, OneReplaced DEF Inv
  <2>2. PICK new \in SUBSET Addresses :
           /\ Used' = Used \cup new /\ new \cap Used = {}
           /\ HeldPtrs' = (HeldPtrs \ {b.ptr}) \cup new
    <3>1. ASSUME NEW p \in Addresses, memory[p] = Unused,
                 memory' = [memory EXCEPT ![p] = [from |-> "malloc", size |-> 1]],
                 held' = (held \ {b}) \cup
                         {[ptr |-> p, bytes |-> count, alignment |-> b.alignment]}
          PROVE  \E new \in SUBSET Addresses :
                    /\ Used' = Used \cup new /\ new \cap Used = {}
                    /\ HeldPtrs' = (HeldPtrs \ {b.ptr}) \cup new
      <4>1. Used' = Used \cup {p} /\ {p} \cap Used = {}
        BY <3>1 DEF Used, Inv, Shape, Unused
      <4>2. {c.ptr : c \in held \ {b}} = HeldPtrs \ {b.ptr}
        BY DEF HeldPtrs, Inv, HeldUsed
      <4>3. HeldPtrs' = {c.ptr : c \in held \ {b}} \cup {p}
        BY <3>1, AddedPtr DEF HeldPtrs
      <4> QED BY <4>1, <4>2, <4>3
    <3> QED BY <1>6, <3>1 DEF Realloc
  <2>3. Lost' = Lost \cup {b.ptr}
    BY <1>1, <1>2, <1>3, <1>4, <2>2
  <2>4. {call[u].ptr : u \in Finishing} = {}
    BY <1>1
  <2> QED BY <2>1, <2>3, <2>4
<1> QED BY <1>5, <1>6

(* OnlyFirstBlocksLost of Malloc, Free and Realloc: blocks are lost where  *)
(* Malloc returns or throws and where Realloc returns, and nowhere else.   *)
THEOREM FirstBlocksAreLost == Spec => OnlyFirstBlocksLost
<1> DEFINE Loss == fault' = "none" =>
                      Lost' \subseteq Lost \cup {call[t].ptr : t \in Finishing}
                                           \cup Replaced
<1>1. ASSUME Inv, HeldInv, OwnInv, Inv', Next PROVE Loss \/ UNCHANGED vars
  <2>1. fault' = "none" =>
           \/ Lost' = Lost \cup ({call[t].ptr : t \in Finishing} \ {nullptr}) \cup Replaced
           \/ UNCHANGED vars
    BY <1>1, LossCall, LossClient DEF Next, Step, Ended
  <2> QED BY <2>1
<1>2. (Inv /\ HeldInv /\ OwnInv) /\ Inv' /\ [Next]_vars => [Loss]_vars
  BY <1>1
<1> QED BY <1>2, Invariance2, PTL DEF Spec, OnlyFirstBlocksLost

-------------------------------------------------------------------------------
(* The blocks clients have of the pool are those of an allocator.          *)

(* What module BlockStore sees of an address.                              *)
Granted(p) ==
    IF memory[p].from = "pool" /\ \E b \in held : b.ptr = p
    THEN [asked |-> (CHOOSE b \in held : b.ptr = p).bytes, room |-> memory[p].size]
    ELSE None

(* There is one block to choose.                                           *)
LEMMA OneHeld ==
    ASSUME NEW S, \A b, c \in S : b.ptr = c.ptr => b = c, NEW b \in S
    PROVE  (CHOOSE c \in S : c.ptr = b.ptr) = b
OBVIOUS

(* An address whose memory and whose holders stay looks the same.          *)
LEMMA GrantedSame ==
    ASSUME HeldUsed, HeldUsed', NEW p, memory'[p] = memory[p],
           \A b \in held \cup held' : b.ptr = p => b \in held /\ b \in held'
    PROVE  Granted(p)' = Granted(p)
<1>1. CASE \E b \in held : b.ptr = p
  <2>1. PICK b \in held : b.ptr = p
    BY <1>1
  <2>2. b \in held'
    BY <2>1
  <2>3. \A c, d \in held : c.ptr = d.ptr => c = d
    BY DEF HeldUsed
  <2>4. \A c, d \in held' : c.ptr = d.ptr => c = d
    BY DEF HeldUsed
  <2>5. (CHOOSE c \in held : c.ptr = p) = b
    BY <2>1, <2>3, OneHeld
  <2>6. (CHOOSE c \in held' : c.ptr = p) = b
    BY <2>1, <2>2, <2>4, OneHeld
  <2> QED BY <2>1, <2>2, <2>5, <2>6 DEF Granted
<1>2. CASE ~ \E b \in held : b.ptr = p
  BY <1>2 DEF Granted
<1> QED BY <1>1, <1>2

(* A block taken from a client who held it alone is granted no more.       *)
LEMMA StoreReturns ==
    ASSUME Inv, Inv', HeldInv, NEW b \in held, \A c \in held' : c.ptr # b.ptr,
           \A p \in Addresses \ {b.ptr} : Granted(p)' = Granted(p)
    PROVE  Store!Next \/ UNCHANGED [p \in Addresses |-> Granted(p)]
<1> DEFINE grant == [p \in Addresses |-> Granted(p)]
<1>1. Granted(b.ptr)' = None /\ b.ptr \in Addresses
  BY DEF Granted, Inv, HeldUsed
<1>2. grant' = [grant EXCEPT ![b.ptr] = None]
  BY <1>1
<1>3. CASE grant[b.ptr] = None
  BY <1>2, <1>3
<1>4. CASE grant[b.ptr] # None
  BY <1>1, <1>2, <1>4 DEF Store!Next, Store!Return, Granted
<1> QED BY <1>3, <1>4

(* The block that Malloc returns has the room that was asked for.          *)
LEMMA StoreGrants ==
    ASSUME Inv, Inv', NEW p \in Addresses, memory[p] = Unused,
           NEW r \in [bytes : 0 .. Limit, alignment : 1 .. Limit],
           memory' = [memory EXCEPT ![p] = PoolBlock(r)],
           held' = held \cup {[ptr |-> p, bytes |-> r.bytes, alignment |-> r.alignment]}
    PROVE  Store!Next
<1> DEFINE grant == [q \in Addresses |-> Granted(q)]
           b == [ptr |-> p, bytes |-> r.bytes, alignment |-> r.alignment]
<1>1. b \in held' /\ b.ptr = p /\ b.bytes = r.bytes
  OBVIOUS
<1>2. \A c, d \in held' : c.ptr = d.ptr => c = d
  BY DEF Inv, HeldUsed
<1> HIDE DEF b
<1>3. (CHOOSE c \in held' : c.ptr = p) = b
  BY <1>1, <1>2, OneHeld
<1> DEFINE size == BlockSize(r.bytes, r.alignment)
<1>4. memory'[p].from = "pool" /\ memory'[p].size = size
  <2>1. memory'[p] = PoolBlock(r)
    BY DEF Inv, Shape
  <2> QED BY <2>1 DEF PoolBlock
<1>5. Granted(p)' = [asked |-> r.bytes, room |-> size]
  <2>1. Granted(p)' = [asked |-> (CHOOSE c \in held' : c.ptr = p).bytes,
                       room |-> memory'[p].size]
    BY <1>1, <1>4 DEF Granted
  <2> QED BY <1>1, <1>3, <1>4, <2>1
<1>6. r.bytes \in Nat /\ size \in Nat /\ r.bytes <= size /\ r.bytes <= Limit
  BY BlockSizeFits, SysAllocatorAssumption
<1> HIDE DEF size
<1>7. Granted(p)' \in Store!Grants
  BY <1>5, <1>6 DEF Store!Grants
<1>8. Granted(p) = None
  BY DEF Granted, Unused
<1>9. ASSUME NEW q \in Addresses \ {p} PROVE Granted(q)' = Granted(q)
  <2>1. memory'[q] = memory[q]
    BY DEF Inv, Shape
  <2> QED BY <2>1, <1>1, GrantedSame DEF Inv, b
<1>10. grant[p] = None /\ grant'[p] = Granted(p)' /\ grant' = [grant EXCEPT ![p] = Granted(p)']
  BY <1>8, <1>9
<1> QED BY <1>7, <1>10 DEF Store!Next, Store!Grant, Granted

(* A step grants one block, returns one, or neither.                       *)
LEMMA StoreStep ==
    ASSUME Inv, Inv', HeldInv, [Next]_vars
    PROVE  Store!Next \/ UNCHANGED [p \in Addresses |-> Granted(p)]
<1>1. CASE UNCHANGED <<memory, held>>
  BY <1>1 DEF Granted
<1>2. ASSUME NEW t \in Threads, NEW p \in Addresses, memory[p] = Unused, UNCHANGED held,
             memory' = [memory EXCEPT ![p] = PoolBlock(call[t].request)]
      PROVE  UNCHANGED [q \in Addresses |-> Granted(q)]
  <2>1. \A b \in held : b.ptr # p
    BY <1>2 DEF Inv, HeldUsed, Unused
  <2>2. Granted(p)' = None /\ Granted(p) = None
    BY <1>2, <2>1 DEF Granted
  <2>3. ASSUME NEW q \in Addresses \ {p} PROVE Granted(q)' = Granted(q)
    BY <1>2 DEF Granted, Inv, Shape
  <2> QED BY <2>2, <2>3
<1>3. ASSUME NEW t \in Threads, NEW p \in Addresses, memory[p] = Unused,
             Doing(t, "second"),
             memory' = [memory EXCEPT ![p] = PoolBlock(call[t].request)],
             held' = held \cup {[ptr |-> p, bytes |-> call[t].request.bytes,
                                 alignment |-> call[t].request.alignment]}
      PROVE  Store!Next
  <2>1. call[t].request \in [bytes : 0 .. Limit, alignment : 1 .. Limit]
    BY <1>3, InCall, SysAllocatorAssumption DEF Inv, Doing, Calls
  <2> QED BY <1>3, <2>1, StoreGrants
<1>4. ASSUME NEW b \in held, held' = held \ {b},
             memory' = memory \/ memory' = [memory EXCEPT ![b.ptr] = Unused]
      PROVE  Store!Next \/ UNCHANGED [p \in Addresses |-> Granted(p)]
  <2>1. \A c \in held' : c.ptr # b.ptr
    BY <1>4 DEF Inv, HeldUsed
  <2>2. ASSUME NEW p \in Addresses \ {b.ptr} PROVE Granted(p)' = Granted(p)
    <3>1. memory'[p] = memory[p]
      BY <1>4 DEF Inv, Shape
    <3> QED BY <1>4, <3>1, GrantedSame DEF Inv
  <2> QED BY <2>1, <2>2, StoreReturns
<1>5. ASSUME NEW b \in held, NEW count, NEW p \in Addresses, memory[p] = Unused,
             memory' = [memory EXCEPT ![p] = [from |-> "malloc", size |-> 1]],
             held' = (held \ {b}) \cup
                     {[ptr |-> p, bytes |-> count, alignment |-> b.alignment]}
      PROVE  Store!Next \/ UNCHANGED [q \in Addresses |-> Granted(q)]
  <2>1. \A c \in held : c.ptr # p
    BY <1>5 DEF Inv, HeldUsed, Unused
  <2>2. \A c \in held' : c.ptr # b.ptr
    BY <1>5, <2>1 DEF Inv, HeldUsed
  <2>3. memory'[p].from = "malloc"
    BY <1>5 DEF Inv, Shape
  <2>4. Granted(p)' = None /\ Granted(p) = None
    BY <1>5, <2>3 DEF Granted, Unused
  <2>5. ASSUME NEW q \in Addresses \ {b.ptr, p} PROVE Granted(q)' = Granted(q)
    <3>1. memory'[q] = memory[q]
      BY <1>5 DEF Inv, Shape
    <3> QED BY <1>5, <3>1, GrantedSame DEF Inv
  <2> QED BY <2>2, <2>4, <2>5, StoreReturns
<1>6. ASSUME NEW t \in Threads, FirstAllocate(t) \/ SecondAllocate(t)
      PROVE  Store!Next \/ UNCHANGED [p \in Addresses |-> Granted(p)]
  BY <1>1, <1>2, <1>3, <1>6 DEF FirstAllocate, SecondAllocate, Throw
<1>7. ASSUME NEW b \in held, Free(b) \/ \E count \in Counts : Realloc(b, count)
      PROVE  Store!Next \/ UNCHANGED [p \in Addresses |-> Granted(p)]
  BY <1>4, <1>5, <1>7 DEF Free, Realloc
<1> QED
  BY <1>1, <1>6, <1>7
     DEF Next, Step, Ended, vars, CallMalloc, Now, Register, PrintRecords

(* ImplementsBlockStore of Malloc, Free and Realloc: a block of the pool   *)
(* has the room its client asked for, until that client gives it back, and *)
(* is nobody else's meanwhile.                                             *)
THEOREM SysAllocatorImplementsBlockStore == Spec => ImplementsBlockStore
<1>1. Init => Store!Init
  BY DEF Init, Store!Init
<1>2. (Inv /\ HeldInv) /\ Inv' /\ [Next]_vars
      => [Store!Next]_([p \in Addresses |-> Granted(p)])
  BY StoreStep
<1>3. Spec => Store!Init /\ [][Store!Next]_([p \in Addresses |-> Granted(p)])
  BY <1>1, <1>2, Invariance2, PTL DEF Spec
<1> QED BY <1>3, PTL DEF ImplementsBlockStore, Store!Spec, Granted

===============================================================================
