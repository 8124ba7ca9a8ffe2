----------------------------- MODULE ArenaProofs ------------------------------
(***************************************************************************)
(* Proofs about module Arena, for every set of threads, chunks and         *)
(* requests and all sizes that satisfy the assumptions of that module.     *)
(***************************************************************************)
EXTENDS ArenaInvariant, AlignmentProofs, FiniteSetTheorems, FunctionTheorems

(* The contract of SAllocator's callers: n * sizeof(T) fits in a size_t.   *)
NoWrap == \A r \in Requests : Bytes(r) = Asked(r)

(* No call asks for zero bytes.                                            *)
NoEmptyRequest == \A r \in Requests : Bytes(r) # 0

-------------------------------------------------------------------------------
(* The size of a request is a natural number.                              *)
LEMMA BytesNat == ASSUME NEW r \in Requests PROVE Bytes(r) \in Nat /\ Asked(r) \in Nat
<1>1. r.n \in Nat /\ r.elem \in Nat
  BY NamesAssumption
<1>2. r.n * r.elem \in Nat
  BY <1>1, ProductNat
<1>3. SIZE_RANGE \in Nat \ {0}
  BY ConstantsAssumption
<1> QED
  BY <1>2, <1>3, DivMod DEF Bytes, Asked

(* align_up gives a multiple of ALIGNMENT, and size_to_index its number.   *)
LEMMA IndexFacts ==
    ASSUME NEW s \in Nat, size_to_index(s) \in Bins
    PROVE  /\ align_up(s) = ALIGNMENT * (size_to_index(s) + 1)
           /\ s <= ALIGNMENT * (size_to_index(s) + 1)
<1> DEFINE u == AlignUp(s, ALIGNMENT) \div ALIGNMENT
<1>1. ALIGNMENT \in Nat \ {0} /\ SIZE_RANGE \in Nat /\ MAX_FAST_SIZE \in Nat
      /\ MAX_FAST_SIZE < SIZE_RANGE
  BY ConstantsAssumption
<1>2. u \in Nat /\ AlignUp(s, ALIGNMENT) = ALIGNMENT * u /\ s <= AlignUp(s, ALIGNMENT)
  BY <1>1, AlignUpFacts
<1>3. NUM_FAST_BINS \in Nat /\ NUM_FAST_BINS <= MAX_FAST_SIZE
  BY <1>1 DEF NUM_FAST_BINS
<1>4. u # 0
  BY <1>1, <1>2, <1>3 DEF size_to_index, align_up, Bins
<1>5. size_to_index(s) + 1 = u
  BY <1>2, <1>4 DEF size_to_index, align_up
<1> QED
  BY <1>2, <1>5 DEF align_up

(* Every size from 1 to MAX_FAST_SIZE has a list.                          *)
LEMMA IndexInBins ==
    ASSUME NEW s \in Nat, s # 0, s <= MAX_FAST_SIZE
    PROVE  size_to_index(s) \in Bins
<1> DEFINE u == AlignUp(s, ALIGNMENT) \div ALIGNMENT
<1>1. ALIGNMENT \in Nat \ {0} /\ MAX_FAST_SIZE \in Nat /\ MAX_FAST_SIZE % ALIGNMENT = 0
  BY ConstantsAssumption
<1>2. u \in Nat /\ AlignUp(s, ALIGNMENT) = ALIGNMENT * u /\ s <= AlignUp(s, ALIGNMENT)
  BY <1>1, AlignUpFacts
<1>3. u <= NUM_FAST_BINS
  BY <1>1, AlignUpBelow DEF NUM_FAST_BINS
<1>4. u # 0
  BY <1>1, <1>2
<1>5. NUM_FAST_BINS \in Nat
  BY <1>1 DEF NUM_FAST_BINS
<1> QED
  BY <1>2, <1>3, <1>4, <1>5 DEF size_to_index, align_up, Bins

(* What allocate asks malloc or mmap for has room for the header and size. *)
LEMMA TotalSize ==
    ASSUME NEW s \in Nat
    PROVE  /\ total_size(s) \in Nat
           /\ s + SizeofChunk <= total_size(s)
           /\ size_to_index(s) \in Bins =>
                 total_size(s) = ALIGNMENT * (size_to_index(s) + 1) + SizeofChunk
<1>1. ALIGNMENT \in Nat \ {0} /\ SizeofChunk \in Nat /\ SizeofChunk % ALIGNMENT = 0
  BY ConstantsAssumption
<1>2. total_size(s) = AlignUp(s + SizeofChunk, ALIGNMENT)
  BY DEF total_size, align_up
<1>3. total_size(s) = align_up(s) + SizeofChunk
  BY <1>1, <1>2, AlignUpOfSum DEF align_up
<1>4. AlignUp(s, ALIGNMENT) \in Nat /\ s <= AlignUp(s, ALIGNMENT)
  BY <1>1, AlignUpFacts
<1>5. total_size(s) \in Nat /\ s + SizeofChunk <= total_size(s)
  BY <1>1, <1>3, <1>4 DEF align_up
<1>6. ASSUME size_to_index(s) \in Bins
      PROVE  total_size(s) = ALIGNMENT * (size_to_index(s) + 1) + SizeofChunk
  BY <1>3, <1>6, IndexFacts
<1> QED
  BY <1>5, <1>6

(* Lists of different classes hold chunks of different lengths.            *)
LEMMA BinChunkInjective ==
    ASSUME NEW i \in Bins, NEW j \in Bins, BinChunk(i) = BinChunk(j)
    PROVE  i = j
<1>1. ALIGNMENT \in Nat \ {0} /\ SizeofChunk \in Nat /\ i \in Int /\ j \in Int
  BY ConstantsAssumption DEF Bins
<1>2. BinChunk(i).length = BinChunk(j).length
  OBVIOUS
<1>3. ALIGNMENT * (i + 1) \in Int /\ ALIGNMENT * (j + 1) \in Int
  BY <1>1
<1>4. ALIGNMENT * (i + 1) = ALIGNMENT * (j + 1)
  BY <1>1, <1>2, <1>3 DEF BinChunk
<1>5. i + 1 = j + 1
  BY <1>1, <1>4, ProductMonotone
<1> QED
  BY <1>1, <1>5

-------------------------------------------------------------------------------
(* TypeOK is inductive by itself.                                          *)

(* It holds of empty arenas.                                               *)
LEMMA TypeInit == Init => TypeOK
BY DEF Init, TypeOK, EmptyBins, NoHeader, Unmapped

(* Every action keeps it.                                                  *)
LEMMA TypeNext == TypeOK /\ [Next]_vars => TypeOK'
<1> SUFFICES ASSUME TypeOK, [Next]_vars PROVE TypeOK'
  OBVIOUS
<1> USE DEF TypeOK
<1>1. CASE UNCHANGED vars
  BY <1>1 DEF vars
<1>2. ASSUME NEW t \in Threads, ThreadStart(t) \/ ThreadExit(t) PROVE TypeOK'
  BY <1>2 DEF ThreadStart, ThreadExit, EmptyBins
<1>3. ASSUME NEW t \in Threads, NEW r \in Requests, AllocCached(t, r) PROVE TypeOK'
  BY <1>3 DEF AllocCached, Pop
<1>4. ASSUME NEW t \in Threads, NEW r \in Requests, NEW c \in Chunks, AllocFresh(t, r, c)
      PROVE  TypeOK'
  <2>1. Bytes(r) \in Nat /\ total_size(Bytes(r)) \in Nat
    BY BytesNat, TotalSize
  <2>2. header' \in [Chunks -> [size : Nat, next : Chunks \cup {NULL}]]
    BY <1>4, <2>1 DEF AllocFresh, SystemAlloc, NewHeader
  <2>3. memory' \in [Chunks -> [from : {"none", "malloc", "mmap"}, length : Nat]]
    BY <1>4, <2>1 DEF AllocFresh, SystemAlloc
  <2> QED
    BY <1>4, <2>2, <2>3 DEF AllocFresh
<1>5. ASSUME NEW t \in Threads, NEW r \in Requests, WildIndex(t, r) PROVE TypeOK'
  BY <1>5 DEF WildIndex
<1>6. ASSUME NEW t \in Threads, NEW c \in Chunks, DeallocCached(t, c) PROVE TypeOK'
  BY <1>6 DEF DeallocCached, Push
<1>7. ASSUME NEW t \in Threads, NEW c \in Chunks, DeallocReleased(t, c) PROVE TypeOK'
  <2>1. \/ /\ memory' = [memory EXCEPT ![c] = Unmapped]
           /\ header' = [header EXCEPT ![c] = NoHeader]
           /\ UNCHANGED fault
        \/ fault' = "release" /\ UNCHANGED <<memory, header>>
    BY <1>7 DEF DeallocReleased, SystemFree
  <2>2. UNCHANGED <<running, fastbins>> /\ held' = [held EXCEPT ![c] = NoRequest]
    BY <1>7 DEF DeallocReleased
  <2>3. memory' \in [Chunks -> [from : {"none", "malloc", "mmap"}, length : Nat]]
    <3>1. CASE memory' = [memory EXCEPT ![c] = Unmapped]
      BY <3>1 DEF Unmapped
    <3>2. CASE UNCHANGED memory
      BY <3>2
    <3> QED
      BY <2>1, <3>1, <3>2
  <2>4. header' \in [Chunks -> [size : Nat, next : Chunks \cup {NULL}]]
    <3>1. CASE header' = [header EXCEPT ![c] = NoHeader]
      BY <3>1 DEF NoHeader
    <3>2. CASE UNCHANGED header
      BY <3>2
    <3> QED
      BY <2>1, <3>1, <3>2
  <2> QED
    BY <2>1, <2>2, <2>3, <2>4
<1> QED
  BY <1>1, <1>2, <1>3, <1>4, <1>5, <1>6, <1>7
  DEF Next, Step, Ended, AllocRefused, AllocFailed

(* The variables keep their types in every behaviour of the arenas.        *)
THEOREM TypeCorrect == Spec => []TypeOK
BY TypeInit, TypeNext, PTL DEF Spec

-------------------------------------------------------------------------------
(* IInv is inductive, given TypeOK: one lemma for each action, one step    *)
(* for each conjunct the action can disturb.                               *)

(* It holds of empty arenas.                                               *)
LEMMA InvInit == Init => IInv
BY DEF Init, IInv, HeaderInv, HeldInv, HeadInv, LinkInv, SingleReferenceInv,
       StoppedInv, NoBadRelease, Idle, EmptyBins, Unmapped

(* A thread's start or exit only empties lists.                            *)
LEMMA InvThread ==
    ASSUME TypeOK, IInv, NEW t \in Threads, ThreadStart(t) \/ ThreadExit(t)
    PROVE  IInv'
<1>1. /\ UNCHANGED <<header, memory, held, fault>>
      /\ fastbins' = [fastbins EXCEPT ![t] = EmptyBins]
  BY DEF ThreadStart, ThreadExit
<1>2. (HeaderInv /\ HeldInv /\ LinkInv /\ NoBadRelease)'
  BY <1>1 DEF IInv, HeaderInv, HeldInv, LinkInv, NoBadRelease, Idle, BinChunk, MadeFor
<1>3. \A u \in Threads : \A i \in Bins :
         (fastbins'[u][i] = NULL) \/ (fastbins'[u][i] = fastbins[u][i])
  BY <1>1 DEF TypeOK, EmptyBins
<1>4. HeadInv'
  BY <1>1, <1>3 DEF IInv, HeadInv, Idle, BinChunk
<1>5. SingleReferenceInv'
  BY <1>1, <1>3 DEF IInv, SingleReferenceInv, Idle
<1>6. StoppedInv'
  BY DEF TypeOK, IInv, StoppedInv, ThreadStart, ThreadExit, EmptyBins
<1> QED
  BY <1>2, <1>4, <1>5, <1>6 DEF IInv

(* The popped chunk was led to by its list only, and its successor now     *)
(* takes its place.                                                        *)
LEMMA InvAllocCached ==
    ASSUME TypeOK, IInv, NEW t \in Threads, NEW r \in Requests, AllocCached(t, r)
    PROVE  IInv'
<1> DEFINE i == size_to_index(Bytes(r))
           head == fastbins[t][i]
           next == header[head].next
<1>1. /\ i \in Bins /\ DeallocIsFast(Bytes(r)) /\ head # NULL
      /\ fastbins' = [fastbins EXCEPT ![t][i] = next]
      /\ held' = [held EXCEPT ![head] = r]
      /\ UNCHANGED <<header, memory, fault>>
  BY DEF AllocCached, Pop, AllocIsFast, DeallocIsFast
<1>2. /\ head \in Chunks /\ Idle(head) /\ memory[head] = BinChunk(i)
      /\ DeallocIsFast(header[head].size)
      /\ next \in Chunks \cup {NULL}
      /\ next # NULL => Idle(next) /\ memory[next] = BinChunk(i) /\ next # head
  BY <1>1, NamesAssumption
  DEF TypeOK, IInv, HeadInv, LinkInv, SingleReferenceInv
<1> HIDE DEF i, next
<1>3. \A c \in Chunks : Idle(c)' <=> Idle(c) /\ c # head
  BY <1>1, <1>2, NamesAssumption DEF TypeOK, Idle
<1>4. \A u \in Threads : \A j \in Bins :
         fastbins'[u][j] = IF u = t /\ j = i THEN next ELSE fastbins[u][j]
  BY <1>1 DEF TypeOK
<1>5. HeaderInv' /\ NoBadRelease'
  BY <1>1 DEF IInv, HeaderInv, NoBadRelease, BinChunk, MadeFor
<1>6. HeldInv'
  <2>1. Bytes(r) <= MAX_ALLOC_SIZE
    BY <1>1, BytesNat, ConstantsAssumption DEF DeallocIsFast
  <2>2. ASSUME NEW c \in Chunks, held'[c] # NoRequest
        PROVE  (c = head /\ held'[c] = r) \/ (held'[c] = held[c] /\ held[c] # NoRequest)
    BY <1>1, <2>2 DEF TypeOK
  <2> QED
    BY <1>1, <1>2, <2>1, <2>2 DEF IInv, HeldInv, Idle, BinChunk, i
<1>7. HeadInv'
  <2>1. \A u \in Threads : \A j \in Bins :
           <<u, j>> # <<t, i>> /\ fastbins[u][j] # NULL => fastbins[u][j] # head
    BY <1>1 DEF IInv, SingleReferenceInv
  <2>2. \A u \in Threads : \A j \in Bins : fastbins[u][j] \in Chunks \cup {NULL}
    BY DEF TypeOK
  <2> HIDE DEF head
  <2> QED
    BY <1>1, <1>2, <1>3, <1>4, <2>1, <2>2 DEF IInv, HeadInv, BinChunk
<1>8. LinkInv'
  <2>1. \A c \in Chunks : Idle(c) => header[c].next # head
    BY <1>1 DEF IInv, SingleReferenceInv
  <2>2. \A c \in Chunks : header[c].next \in Chunks \cup {NULL}
    BY DEF TypeOK
  <2> HIDE DEF head
  <2> QED
    BY <1>1, <1>3, <2>1, <2>2 DEF IInv, LinkInv
<1>9. SingleReferenceInv'
  <2> HIDE DEF head
  <2>1. \A u \in Threads : \A j \in Bins :
           fastbins[u][j] # NULL /\ next # NULL => fastbins[u][j] # next
    BY <1>2 DEF IInv, SingleReferenceInv, next
  <2>2. \A c \in Chunks : Idle(c) /\ c # head /\ next # NULL => header[c].next # next
    BY <1>2 DEF IInv, SingleReferenceInv, next
  <2> QED
    BY <1>1, <1>3, <1>4, <2>1, <2>2 DEF IInv, SingleReferenceInv
<1>10. StoppedInv'
  BY DEF AllocCached, Pop, TypeOK, IInv, StoppedInv, EmptyBins
<1> QED
  BY <1>5, <1>6, <1>7, <1>8, <1>9, <1>10 DEF IInv

(* The new chunk was allocated to nobody, so no list leads to it.          *)
LEMMA InvAllocFresh ==
    ASSUME TypeOK, IInv, NEW t \in Threads, NEW r \in Requests, NEW new \in Chunks,
           AllocFresh(t, r, new)
    PROVE  IInv'
<1> DEFINE size == Bytes(r)
           from == IF AllocIsHuge(size) THEN "mmap" ELSE "malloc"
<1>1. /\ memory[new] = Unmapped
      /\ memory' = [memory EXCEPT ![new] = [from |-> from, length |-> total_size(size)]]
      /\ header' = [header EXCEPT ![new] = NewHeader(size)]
      /\ held' = [held EXCEPT ![new] = r]
      /\ UNCHANGED <<fastbins, fault>>
      /\ size <= MAX_ALLOC_SIZE
      /\ DeallocIsFast(size) => size_to_index(size) \in Bins
  BY DEF AllocFresh, NotCached, SystemAlloc, AllocIsFast, DeallocIsFast
<1>2. memory'[new] = MadeFor(size) /\ header'[new].size = size
  <2>1. size \in Nat
    BY BytesNat
  <2>2. CASE DeallocIsFast(size)
    <3>1. total_size(size) = ALIGNMENT * (size_to_index(size) + 1) + SizeofChunk
      BY <1>1, <2>1, <2>2, TotalSize
    <3>2. from = "malloc"
      BY <2>1, <2>2, ConstantsAssumption DEF DeallocIsFast, AllocIsHuge
    <3> QED
      BY <1>1, <2>2, <3>1, <3>2 DEF TypeOK, MadeFor, BinChunk, NewHeader
  <2>3. CASE ~DeallocIsFast(size)
    BY <1>1, <2>3 DEF TypeOK, MadeFor, AllocIsHuge, DeallocIsHuge, NewHeader
  <2> QED
    BY <2>2, <2>3
<1>3. \A c \in Chunks : c # new =>
         memory'[c] = memory[c] /\ header'[c] = header[c] /\ held'[c] = held[c]
  BY <1>1 DEF TypeOK
<1>4. memory'[new] # Unmapped /\ held'[new] = r
  BY <1>1 DEF TypeOK, Unmapped
<1>5. \A c \in Chunks : Idle(c)' => Idle(c) /\ c # new
  BY <1>3, <1>4, NamesAssumption DEF Idle
<1>6. \A c \in Chunks : Idle(c) => Idle(c)' /\ c # new
  BY <1>1, <1>3 DEF Idle
<1> HIDE DEF size, from
<1>7. HeaderInv' /\ NoBadRelease'
  BY <1>1, <1>2, <1>3 DEF IInv, HeaderInv, NoBadRelease, BinChunk, MadeFor
<1>8. HeldInv'
  BY <1>1, <1>2, <1>3, <1>4 DEF IInv, HeldInv, MadeFor, BinChunk, size
<1>9. HeadInv'
  BY <1>1, <1>3, <1>6 DEF TypeOK, IInv, HeadInv, BinChunk
<1>10. LinkInv'
  BY <1>1, <1>3, <1>5, <1>6 DEF TypeOK, IInv, LinkInv
<1>11. SingleReferenceInv'
  BY <1>1, <1>3, <1>5 DEF IInv, SingleReferenceInv
<1>12. StoppedInv'
  BY DEF AllocFresh, IInv, StoppedInv, EmptyBins
<1> QED
  BY <1>7, <1>8, <1>9, <1>10, <1>11, <1>12 DEF IInv

(* The chunk given back was held, so no list leads to it: it becomes the   *)
(* only predecessor of the old head.                                       *)
LEMMA InvDeallocCached ==
    ASSUME TypeOK, IInv, NEW t \in Threads, NEW freed \in Chunks, DeallocCached(t, freed)
    PROVE  IInv'
<1> DEFINE i == size_to_index(Bytes(held[freed]))
           head == fastbins[t][i]
<1>1. /\ i \in Bins /\ DeallocIsFast(Bytes(held[freed])) /\ held[freed] # NoRequest
      /\ header' = [header EXCEPT ![freed].next = head]
      /\ fastbins' = [fastbins EXCEPT ![t][i] = freed]
      /\ held' = [held EXCEPT ![freed] = NoRequest]
      /\ UNCHANGED <<memory, fault>>
  BY DEF DeallocCached, Push
<1>2. /\ memory[freed] # Unmapped /\ memory[freed] = BinChunk(i)
      /\ DeallocIsFast(header[freed].size) /\ ~Idle(freed)
  BY <1>1 DEF IInv, HeldInv, Idle
<1>3. head \in Chunks \cup {NULL} /\ (head # NULL => Idle(head) /\ memory[head] = BinChunk(i))
  BY <1>1 DEF TypeOK, IInv, HeadInv
<1>4. \A u \in Threads : \A j \in Bins :
         fastbins[u][j] \in Chunks \cup {NULL} /\ fastbins[u][j] # freed
  BY <1>2, NamesAssumption DEF TypeOK, IInv, HeadInv
<1>5. \A c \in Chunks :
         /\ header[c].next \in Chunks \cup {NULL}
         /\ Idle(c) => header[c].next # freed
  BY <1>2, NamesAssumption DEF TypeOK, IInv, LinkInv
<1>6. \A u \in Threads : \A j \in Bins :
         (u # t \/ j # i) /\ head # NULL => fastbins[u][j] # head
  BY <1>1 DEF IInv, SingleReferenceInv
<1>7. \A c \in Chunks : Idle(c) /\ head # NULL => header[c].next # head
  BY <1>1 DEF IInv, SingleReferenceInv
<1>8. \A u \in Threads : \A j \in Bins :
         fastbins'[u][j] = IF u = t /\ j = i THEN freed ELSE fastbins[u][j]
  BY <1>1 DEF TypeOK
<1>9. \A c \in Chunks :
         /\ header'[c].size = header[c].size
         /\ header'[c].next = IF c = freed THEN head ELSE header[c].next
  BY <1>1 DEF TypeOK
<1> HIDE DEF i, head
<1>10. \A c \in Chunks : held'[c] = IF c = freed THEN NoRequest ELSE held[c]
  BY <1>1 DEF TypeOK
<1>11. \A c \in Chunks : Idle(c)' <=> Idle(c) \/ c = freed
  BY <1>1, <1>2, <1>10 DEF Idle
<1>12. HeaderInv' /\ NoBadRelease'
  BY <1>1, <1>9 DEF IInv, HeaderInv, NoBadRelease, BinChunk, MadeFor
<1>13. HeldInv'
  BY <1>1, <1>9, <1>10 DEF IInv, HeldInv, BinChunk
<1>14. HeadInv'
  BY <1>1, <1>2, <1>4, <1>8, <1>11 DEF IInv, HeadInv, BinChunk
<1>15. LinkInv'
  BY <1>1, <1>2, <1>3, <1>5, <1>9, <1>11 DEF IInv, LinkInv
<1>16. SingleReferenceInv'
  <2>1. \A u, v \in Threads : \A j, k \in Bins :
           fastbins'[u][j] # NULL /\ fastbins'[u][j] = fastbins'[v][k] => u = v /\ j = k
    BY <1>4, <1>8 DEF IInv, SingleReferenceInv
  <2>2. \A c, d \in Chunks :
           /\ Idle(c)' /\ Idle(d)'
           /\ header'[c].next # NULL /\ header'[c].next = header'[d].next
           => c = d
    BY <1>7, <1>9, <1>11 DEF IInv, SingleReferenceInv
  <2>3. \A u \in Threads : \A j \in Bins : \A c \in Chunks :
           fastbins'[u][j] # NULL /\ Idle(c)' => header'[c].next # fastbins'[u][j]
    BY <1>2, <1>3, <1>4, <1>5, <1>6, <1>8, <1>9, <1>11 DEF IInv, SingleReferenceInv
  <2> QED
    BY <2>1, <2>2, <2>3 DEF SingleReferenceInv
<1>17. StoppedInv'
  BY DEF DeallocCached, Push, TypeOK, IInv, StoppedInv, EmptyBins
<1> QED
  BY <1>12, <1>13, <1>14, <1>15, <1>16, <1>17 DEF IInv

(* The system call that deallocate chooses by the size of the client is    *)
(* the one that undoes what allocate did, so nothing goes wrong in it.     *)
LEMMA InvDeallocReleased ==
    ASSUME TypeOK, IInv, NEW t \in Threads, NEW freed \in Chunks, DeallocReleased(t, freed)
    PROVE  IInv'
<1> DEFINE size == Bytes(held[freed])
           expected == IF DeallocIsHuge(size)
                       THEN [from |-> "mmap", length |-> total_size(size)]
                       ELSE [memory[freed] EXCEPT !.from = "malloc"]
<1>1. /\ held[freed] # NoRequest /\ ~DeallocIsFast(size)
      /\ SystemFree(freed, expected)
      /\ held' = [held EXCEPT ![freed] = NoRequest]
      /\ UNCHANGED fastbins
  BY DEF DeallocReleased
<1>2. memory[freed] # Unmapped /\ memory[freed] = MadeFor(size) /\ ~Idle(freed)
  BY <1>1 DEF IInv, HeldInv, HeaderInv, Idle
<1>3. memory[freed] = expected
  <2>1. memory[freed] \in [from : {"none", "malloc", "mmap"}, length : Nat]
    BY DEF TypeOK
  <2>2. CASE DeallocIsHuge(size)
    BY <1>1, <1>2, <2>2 DEF MadeFor
  <2>3. CASE ~DeallocIsHuge(size)
    <3>1. memory[freed].from = "malloc"
      BY <1>1, <1>2, <2>3 DEF MadeFor
    <3>2. [memory[freed] EXCEPT !.from = "malloc"] = memory[freed]
      BY <2>1, <3>1
    <3> QED
      BY <2>3, <3>2
  <2> QED
    BY <2>2, <2>3
<1>4. /\ memory' = [memory EXCEPT ![freed] = Unmapped]
      /\ header' = [header EXCEPT ![freed] = NoHeader]
      /\ UNCHANGED fault
  BY <1>1, <1>3 DEF SystemFree
<1>5. \A c \in Chunks :
         /\ c # freed => memory'[c] = memory[c] /\ header'[c] = header[c] /\ held'[c] = held[c]
         /\ c = freed => memory'[c] = Unmapped /\ held'[c] = NoRequest
  BY <1>1, <1>4 DEF TypeOK
<1>6. \A c \in Chunks : (Idle(c)' => c # freed) /\ (Idle(c)' <=> Idle(c))
  BY <1>2, <1>5 DEF Idle
<1>7. HeaderInv' /\ NoBadRelease'
  BY <1>4, <1>5 DEF IInv, HeaderInv, NoBadRelease, BinChunk, MadeFor
<1>8. HeldInv'
  BY <1>5 DEF IInv, HeldInv, BinChunk
<1>9. HeadInv'
  BY <1>1, <1>5, <1>6 DEF TypeOK, IInv, HeadInv, BinChunk
<1>10. LinkInv'
  BY <1>5, <1>6 DEF TypeOK, IInv, LinkInv
<1>11. SingleReferenceInv'
  BY <1>1, <1>5, <1>6 DEF IInv, SingleReferenceInv
<1>12. StoppedInv'
  BY DEF DeallocReleased, IInv, StoppedInv, EmptyBins
<1> QED
  BY <1>7, <1>8, <1>9, <1>10, <1>11, <1>12 DEF IInv

(* A step of any thread is one of these actions.                           *)
LEMMA InvNext == TypeOK /\ IInv /\ [Next]_vars => IInv'
<1> SUFFICES ASSUME TypeOK, IInv, [Next]_vars PROVE IInv'
  OBVIOUS
<1>1. CASE UNCHANGED vars
  BY <1>1 DEF vars, IInv, HeaderInv, HeldInv, HeadInv, LinkInv, SingleReferenceInv,
              StoppedInv, EmptyBins, NoBadRelease, Idle, BinChunk, MadeFor
<1>2. ASSUME NEW t \in Threads, NEW r \in Requests, WildIndex(t, r) PROVE IInv'
  BY <1>2 DEF WildIndex, IInv, HeaderInv, HeldInv, HeadInv, LinkInv, SingleReferenceInv,
              StoppedInv, EmptyBins, NoBadRelease, Idle, BinChunk, MadeFor
<1> QED
  BY <1>1, <1>2, InvThread, InvAllocCached, InvAllocFresh, InvDeallocCached,
     InvDeallocReleased
  DEF Next, Step, Ended, AllocRefused, AllocFailed

(* The inductive invariant of the arenas holds in every behaviour.         *)
THEOREM Invariance == Spec => [](TypeOK /\ IInv)
<1>1. Init => TypeOK /\ IInv
  BY TypeInit, InvInit
<1>2. (TypeOK /\ IInv) /\ [Next]_vars => (TypeOK /\ IInv)'
  BY TypeNext, InvNext
<1> QED
  BY <1>1, <1>2, PTL DEF Spec

-------------------------------------------------------------------------------
(* What follows for the free lists.                                        *)

(* A list holds only idle chunks of the length its class was made with.    *)
LEMMA ListedChunks ==
    ASSUME TypeOK, IInv, NEW t \in Threads, NEW i \in Bins, NEW c \in FreeList(t, i)
    PROVE  c \in Chunks /\ Idle(c) /\ memory[c] = BinChunk(i)
<1> DEFINE S == {d \in Chunks : Idle(d) /\ memory[d] = BinChunk(i)}
           head == fastbins[t][i]
<1>1. head # NULL /\ head \in Chunks \cup {NULL}
  BY DEF TypeOK, FreeList, ReachableFrom
<1>2. head \in S
  BY <1>1 DEF IInv, HeadInv
<1>3. ClosedUnderNext(S)
  BY DEF ClosedUnderNext, TypeOK, IInv, LinkInv
<1>4. c \in S
  BY <1>2, <1>3 DEF FreeList, ReachableFrom
<1> QED
  BY <1>4

(* The lists are closed under next.                                        *)
LEMMA ListClosed ==
    ASSUME TypeOK, IInv, NEW t \in Threads, NEW i \in Bins
    PROVE  /\ ClosedUnderNext(FreeList(t, i))
           /\ fastbins[t][i] # NULL => fastbins[t][i] \in FreeList(t, i)
<1>1. fastbins[t][i] \in Chunks \cup {NULL}
  BY DEF TypeOK
<1>2. \A c \in Chunks : header[c].next \in Chunks \cup {NULL}
  BY DEF TypeOK
<1> QED
  BY <1>1, <1>2 DEF FreeList, ReachableFrom, ClosedUnderNext

(* Two lists of one class have no chunk in common: the first chunk of one  *)
(* that is on the other would be referred to twice.                        *)
LEMMA ListsDisjoint ==
    ASSUME TypeOK, IInv, NEW t \in Threads, NEW u \in Threads, t # u, NEW i \in Bins
    PROVE  FreeList(t, i) \cap FreeList(u, i) = {}
<1> DEFINE A == FreeList(t, i)
           B == FreeList(u, i)
           hA == fastbins[t][i]
           hB == fastbins[u][i]
<1> SUFFICES ASSUME NEW c \in A, c \in B PROVE FALSE
  OBVIOUS
<1>1. hA # NULL /\ hB # NULL /\ hA # hB /\ hA \in Chunks /\ hB \in Chunks
  BY DEF FreeList, ReachableFrom, TypeOK, IInv, SingleReferenceInv
<1>2. /\ ClosedUnderNext(A) /\ ClosedUnderNext(B)
      /\ hA \in A /\ hB \in B
      /\ A \subseteq Chunks /\ B \subseteq Chunks
      /\ \A d \in A \cup B : Idle(d)
  BY <1>1, ListClosed, ListedChunks DEF FreeList, ReachableFrom
<1>3. \A S \in SUBSET Chunks : hA \in S /\ ClosedUnderNext(S) => A \subseteq S
  BY DEF FreeList, ReachableFrom
<1>4. \A S \in SUBSET Chunks : hB \in S /\ ClosedUnderNext(S) => B \subseteq S
  BY DEF FreeList, ReachableFrom
<1>5. \A d \in A \cup B : header[d].next # hA /\ header[d].next # hB
  BY <1>1, <1>2 DEF IInv, SingleReferenceInv
<1>6. \A d, e \in A \cup B :
         header[d].next # NULL /\ header[d].next = header[e].next => d = e
  BY <1>2 DEF IInv, SingleReferenceInv
<1> HIDE DEF A, B, hA, hB
<1>7. hA \notin B
  <2>1. ClosedUnderNext(B \ {hA})
    BY <1>2, <1>5 DEF ClosedUnderNext
  <2> QED
    BY <1>1, <1>2, <1>4, <2>1
<1>8. ClosedUnderNext(A \ B)
  <2> SUFFICES ASSUME NEW d \in A \ B, header[d].next \in B, header[d].next # NULL
               PROVE  FALSE
    BY <1>2 DEF ClosedUnderNext
  <2> DEFINE shared == header[d].next
  <2>1. hB \in B \ {shared}
    BY <1>2, <1>5
  <2>2. \A e \in B : header[e].next # shared
    BY <1>6
  <2>3. ClosedUnderNext(B \ {shared})
    BY <1>2, <2>2 DEF ClosedUnderNext
  <2>4. B \subseteq B \ {shared}
    BY <1>2, <1>4, <2>1, <2>3
  <2> QED
    BY <2>4
<1>9. A \subseteq A \ B
  BY <1>2, <1>3, <1>7, <1>8
<1> QED
  BY <1>9

(* No chunk is served twice: what lists hold is idle, and held once.       *)
THEOREM FreeListsAreSound == Spec => []FreeListsSound
<1>1. TypeOK /\ IInv => FreeListsSound
  <2> SUFFICES ASSUME TypeOK, IInv PROVE FreeListsSound
    OBVIOUS
  <2>1. \A c \in Cached : held[c] = NoRequest /\ memory[c] # Unmapped
    BY ListedChunks DEF Cached, Idle
  <2>2. ASSUME NEW t \in Threads, NEW u \in Threads, NEW i \in Bins, NEW j \in Bins,
               <<t, i>> # <<u, j>>
        PROVE  FreeList(t, i) \cap FreeList(u, j) = {}
    <3>1. CASE i # j
      <4> SUFFICES ASSUME NEW c \in FreeList(t, i), c \in FreeList(u, j) PROVE FALSE
        OBVIOUS
      <4>1. BinChunk(i) = BinChunk(j)
        BY ListedChunks
      <4> QED
        BY <3>1, <4>1, BinChunkInjective
    <3>2. CASE i = j
      BY <2>2, <3>2, ListsDisjoint
    <3> QED
      BY <3>1, <3>2
  <2> QED
    BY <2>1, <2>2 DEF FreeListsSound
<1> QED
  BY <1>1, Invariance, PTL

(* A chunk on a list has room for every size the list serves.              *)
THEOREM CachedChunksAreLargeEnough == Spec => []CachedChunksFit
<1>1. TypeOK /\ IInv => CachedChunksFit
  <2> SUFFICES ASSUME TypeOK, IInv,
                      NEW t \in Threads, NEW i \in Bins, NEW c \in FreeList(t, i),
                      NEW size \in 1 .. MAX_FAST_SIZE, size_to_index(size) = i
               PROVE  size <= Room(c)
    BY DEF CachedChunksFit
  <2>1. memory[c] = BinChunk(i)
    BY ListedChunks
  <2>2. size \in Nat /\ size <= ALIGNMENT * (i + 1)
    BY IndexFacts, ConstantsAssumption
  <2>3. ALIGNMENT * (i + 1) \in Int /\ SizeofChunk \in Nat
    BY ConstantsAssumption DEF Bins
  <2>4. Room(c) = ALIGNMENT * (i + 1)
    BY <2>1, <2>3 DEF BinChunk, Room
  <2> QED
    BY <2>2, <2>4
<1> QED
  BY <1>1, Invariance, PTL

(* There are finitely many chunks, and next leads no two of a list to one  *)
(* chunk and none to the head: so next is nullptr in one of them.          *)
THEOREM FreeListsDoEnd == Spec => []FreeListsEnd
<1>1. TypeOK /\ IInv => FreeListsEnd
  <2> SUFFICES ASSUME TypeOK, IInv, NEW t \in Threads, NEW i \in Bins,
                      FreeList(t, i) # {},
                      \A c \in FreeList(t, i) : header[c].next # NULL
               PROVE  FALSE
    BY DEF FreeListsEnd
  <2> DEFINE L == FreeList(t, i)
             head == fastbins[t][i]
             f == [c \in L |-> header[c].next]
  <2>1. head # NULL /\ head \in L /\ ClosedUnderNext(L)
    BY ListClosed DEF FreeList, ReachableFrom
  <2>2. \A c \in L : c \in Chunks /\ Idle(c)
    BY ListedChunks
  <2>3. f \in [L -> L \ {head}]
    BY <2>1, <2>2 DEF ClosedUnderNext, IInv, SingleReferenceInv
  <2>4. \A c, d \in L : f[c] = f[d] => c = d
    BY <2>2 DEF IInv, SingleReferenceInv
  <2>5. f \in Injection(L, L \ {head})
    BY <2>3, <2>4 DEF Injection, IsInjective
  <2>6. IsFiniteSet(L) /\ Cardinality(L) \in Nat
    BY <2>2, NamesAssumption, FS_Subset, FS_CardinalityType
  <2> HIDE DEF f, L
  <2>7. IsFiniteSet(L \ {head}) /\ Cardinality(L \ {head}) = Cardinality(L) - 1
    BY <2>1, <2>6, FS_RemoveElement
  <2>8. Cardinality(L) <= Cardinality(L \ {head})
    BY <2>5, <2>7, FS_Injection
  <2> QED
    BY <2>6, <2>7, <2>8
<1> QED
  BY <1>1, Invariance, PTL

(* Memory goes back to the system the way it came.                         *)
THEOREM NoReleaseIsBad == Spec => []NoBadRelease
<1>1. TypeOK /\ IInv => NoBadRelease
  BY DEF IInv
<1> QED
  BY <1>1, Invariance, PTL

(* As long as nobody asks for zero bytes, fastbins is indexed within its   *)
(* bounds.                                                                 *)
THEOREM NoIndexIsWild == ASSUME NoEmptyRequest PROVE Spec => []NoWildIndex
<1>1. Init => NoWildIndex
  BY DEF Init, NoWildIndex
<1>2. ASSUME NEW t \in Threads, NEW r \in Requests, WildIndex(t, r) PROVE FALSE
  <2>1. Bytes(r) \in Nat /\ Bytes(r) # 0
    BY BytesNat, NoEmptyRequest DEF NoEmptyRequest
  <2> QED
    BY <1>2, <2>1, IndexInBins DEF WildIndex, AllocIsFast
<1>3. ASSUME NoWildIndex, NEW t \in Threads, NEW c \in Chunks, DeallocReleased(t, c)
      PROVE  NoWildIndex'
  BY <1>3 DEF DeallocReleased, SystemFree, NoWildIndex
<1>4. NoWildIndex /\ [Next]_vars => NoWildIndex'
  BY <1>2, <1>3 DEF NoWildIndex, Next, Step, Ended, vars, ThreadStart, ThreadExit,
     AllocRefused, AllocCached, AllocFresh, AllocFailed, DeallocCached
<1> QED
  BY <1>1, <1>4, PTL DEF Spec

-------------------------------------------------------------------------------
(* What clients get, when n * sizeof(T) fits in a size_t.                  *)

(* A held block has room for the bytes its client asked for.               *)
LEMMA HeldFit == ASSUME NoWrap, TypeOK, IInv PROVE HeldBlocksFit
<1> SUFFICES ASSUME NEW c \in Chunks, held[c] # NoRequest
             PROVE  Asked(held[c]) <= Room(c) /\ Asked(held[c]) <= MAX_ALLOC_SIZE
  BY DEF HeldBlocksFit
<1> DEFINE size == Bytes(held[c])
           i == size_to_index(size)
<1>1. size = Asked(held[c]) /\ size \in Nat
  BY BytesNat DEF NoWrap, TypeOK
<1>2. size <= MAX_ALLOC_SIZE
  BY DEF IInv, HeldInv
<1>3. CASE DeallocIsFast(size)
  <2>1. i \in Bins /\ memory[c] = BinChunk(i)
    BY <1>3 DEF IInv, HeldInv
  <2>2. size <= ALIGNMENT * (i + 1)
    BY <1>1, <2>1, IndexFacts
  <2>3. ALIGNMENT * (i + 1) \in Int /\ SizeofChunk \in Nat
    BY <2>1, ConstantsAssumption DEF Bins
  <2>4. Room(c) = ALIGNMENT * (i + 1)
    BY <2>1, <2>3 DEF BinChunk, Room
  <2> QED
    BY <1>1, <1>2, <2>2, <2>4
<1>4. CASE ~DeallocIsFast(size)
  <2>1. memory[c].length = total_size(size)
    <3>1. memory[c] = MadeFor(size)
      BY <1>4 DEF IInv, HeldInv, HeaderInv
    <3> QED
      BY <1>4, <3>1 DEF MadeFor
  <2>2. total_size(size) \in Nat /\ size + SizeofChunk <= total_size(size)
    BY <1>1, TotalSize
  <2>3. size <= Room(c)
    BY <1>1, <2>1, <2>2, ConstantsAssumption DEF Room
  <2> QED
    BY <1>1, <1>2, <2>3
<1> QED
  BY <1>3, <1>4

(* No client gets less than it asked for, nor more than the limit.         *)
THEOREM HeldBlocksDoFit == ASSUME NoWrap PROVE Spec => []HeldBlocksFit
BY HeldFit, Invariance, PTL

(* What module BlockStore sees of a block.                                 *)
Seen(c) ==
    IF held[c] = NoRequest THEN NoRequest
    ELSE [asked |-> Asked(held[c]), room |-> Room(c)]

(* No block is granted at the beginning.                                   *)
LEMMA StoreInit == Init => Store!Init
BY DEF Init, Store!Init

(* Steps that leave every block as it is for its client.                   *)
LEMMA StoreStutter ==
    ASSUME UNCHANGED held, \A c \in Chunks : held[c] # NoRequest => Room(c)' = Room(c)
    PROVE  UNCHANGED [c \in Chunks |-> Seen(c)]
BY DEF Seen, Asked

(* allocate grants one block, large enough, that nobody had.               *)
LEMMA StoreGrant ==
    ASSUME NEW b \in Chunks, NEW r \in Requests, TypeOK, TypeOK', HeldBlocksFit',
           held[b] = NoRequest,
           held' = [held EXCEPT ![b] = r],
           \A c \in Chunks : c # b => memory'[c] = memory[c]
    PROVE  Store!Grant(b)
<1> DEFINE grant == [c \in Chunks |-> Seen(c)]
<1>1. held'[b] = r /\ r # NoRequest
  BY NamesAssumption DEF TypeOK
<1>2. Seen(b)' = [asked |-> Asked(r), room |-> Room(b)']
  BY <1>1 DEF Seen, Asked
<1>3. Asked(r) \in Nat /\ Asked(r) <= Room(b)' /\ Asked(r) <= MAX_ALLOC_SIZE
  BY <1>1, BytesNat DEF HeldBlocksFit, Asked
<1>4. Room(b)' \in Nat
  <2>1. memory'[b].length \in Nat
    BY DEF TypeOK
  <2>2. Room(b)' \in Int
    BY <2>1, ConstantsAssumption DEF Room
  <2> QED
    BY <1>3, <2>2
<1>5. Seen(b)' \in Store!Grants
  BY <1>2, <1>3, <1>4 DEF Store!Grants
<1>6. \A c \in Chunks : c # b => Seen(c)' = Seen(c)
  BY DEF TypeOK, Seen, Room, Asked
<1>7. grant[b] = NoRequest /\ grant'[b] = Seen(b)' /\ grant' = [grant EXCEPT ![b] = Seen(b)']
  BY <1>6 DEF Seen
<1> QED
  BY <1>5, <1>7 DEF Store!Grant, Seen

(* deallocate takes back one block.                                        *)
LEMMA StoreReturn ==
    ASSUME NEW b \in Chunks, TypeOK,
           held' = [held EXCEPT ![b] = NoRequest],
           \A c \in Chunks : c # b => memory'[c] = memory[c]
    PROVE  Store!Return(b) \/ UNCHANGED [c \in Chunks |-> Seen(c)]
<1> DEFINE grant == [c \in Chunks |-> Seen(c)]
<1>1. Seen(b)' = NoRequest
  BY DEF TypeOK, Seen
<1>2. \A c \in Chunks : c # b => Seen(c)' = Seen(c)
  BY DEF TypeOK, Seen, Room, Asked
<1>3. grant' = [grant EXCEPT ![b] = NoRequest]
  BY <1>1, <1>2
<1>4. CASE grant[b] = NoRequest
  BY <1>3, <1>4
<1>5. CASE grant[b] # NoRequest
  BY <1>3, <1>5 DEF Store!Return, Seen
<1> QED
  BY <1>4, <1>5

(* Every step of the arenas grants one block, returns one, or neither.     *)
LEMMA StoreNext ==
    ASSUME TypeOK, IInv, TypeOK', HeldBlocksFit', [Next]_vars
    PROVE  Store!Next \/ UNCHANGED [c \in Chunks |-> Seen(c)]
<1> DEFINE grant == [c \in Chunks |-> Seen(c)]
<1>1. CASE UNCHANGED <<held, memory>>
  BY <1>1, StoreStutter DEF Room
<1>2. ASSUME NEW t \in Threads, NEW r \in Requests, AllocCached(t, r)
      PROVE  Store!Next
  <2> DEFINE head == fastbins[t][size_to_index(Bytes(r))]
  <2>1. head \in Chunks /\ held[head] = NoRequest
    BY <1>2 DEF AllocCached, TypeOK, IInv, HeadInv, Idle
  <2>2. held' = [held EXCEPT ![head] = r] /\ UNCHANGED memory
    BY <1>2 DEF AllocCached
  <2> QED
    BY <2>1, <2>2, StoreGrant DEF Store!Next
<1>3. ASSUME NEW t \in Threads, NEW r \in Requests, NEW c \in Chunks, AllocFresh(t, r, c)
      PROVE  Store!Next
  <2>1. held[c] = NoRequest
    BY <1>3 DEF AllocFresh, SystemAlloc, IInv, HeldInv
  <2>2. /\ held' = [held EXCEPT ![c] = r]
        /\ \A d \in Chunks : d # c => memory'[d] = memory[d]
    BY <1>3 DEF AllocFresh, SystemAlloc, TypeOK
  <2> QED
    BY <2>1, <2>2, StoreGrant DEF Store!Next
<1>4. ASSUME NEW t \in Threads, NEW c \in Chunks,
             DeallocCached(t, c) \/ DeallocReleased(t, c)
      PROVE  Store!Next \/ UNCHANGED grant
  <2>1. held' = [held EXCEPT ![c] = NoRequest]
    BY <1>4 DEF DeallocCached, DeallocReleased
  <2>2. \A d \in Chunks : d # c => memory'[d] = memory[d]
    BY <1>4 DEF DeallocCached, DeallocReleased, SystemFree, TypeOK
  <2> QED
    BY <2>1, <2>2, StoreReturn DEF Store!Next
<1> QED
  BY <1>1, <1>2, <1>3, <1>4
  DEF Next, Step, Ended, vars, ThreadStart, ThreadExit, AllocRefused, AllocFailed, WildIndex

(* The arenas implement the allocator of module BlockStore.                *)
THEOREM ArenasImplementBlockStore == ASSUME NoWrap PROVE Spec => ImplementsBlockStore
<1>1. /\ TypeOK /\ IInv /\ HeldBlocksFit /\ (TypeOK /\ IInv /\ HeldBlocksFit)'
      /\ [Next]_vars
      => [Store!Next]_([c \in Chunks |-> Seen(c)])
  BY StoreNext
<1>2. Spec => Store!Init /\ [][Store!Next]_([c \in Chunks |-> Seen(c)])
  BY <1>1, StoreInit, Invariance, HeldBlocksDoFit, PTL DEF Spec
<1> QED
  BY <1>2, PTL DEF ImplementsBlockStore, Store!Spec, Seen
===============================================================================
