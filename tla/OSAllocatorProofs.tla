-------------------------- MODULE OSAllocatorProofs ---------------------------
(***************************************************************************)
(* Proofs about module OSAllocator, for every size of pages and pointers   *)
(* and every choice the system makes.  As long as every alignment divides  *)
(* the page size, OS_Alloc places block and header where they should be    *)
(* (PagesPlacement), and what is mapped, allocated and handed out stays    *)
(* apart (LayoutInv).  If alignments divide the size of the header too,    *)
(* OS_Free finds every header (FoundInv) and nothing is lost (KeptInv).    *)
(***************************************************************************)
EXTENDS OSAllocator, AlignmentProofs

(* What SysApi.h asks of callers: alignments of at most a page; and sizes  *)
(* that leave a size_t room for header and alignment.                      *)
AlignmentsFitPages ==
    \A r \in Requests \cup BigRequests :
        /\ PAGE_SIZE % alignment_of(r) = 0
        /\ r.size + alignment_of(r) + header_size(alignment_of(r)) < SIZE_RANGE

(* An address that is a multiple already is its own AlignUp.               *)
LEMMA AlignUpOfMultiple ==
    ASSUME NEW x \in Nat, NEW a \in Nat \ {0}, x % a = 0
    PROVE  AlignUp(x, a) = x
<1>1. AlignUp(0, a) = 0
  <2>1. (a * 0 + (a - 1)) % a = a - 1
    BY DivModUnique
  <2>2. a * 0 + (a - 1) = 0 + a - 1
    OBVIOUS
  <2> QED
    BY <2>1, <2>2 DEF AlignUp
<1>2. AlignUp(0 + x, a) = AlignUp(0, a) + x
  BY AlignUpOfSum
<1> QED
  BY <1>1, <1>2

(* Multiples of multiples are multiples.                                   *)
LEMMA MultipleOfMultiple ==
    ASSUME NEW x \in Nat, NEW y \in Nat \ {0}, NEW z \in Nat \ {0}, x % y = 0, y % z = 0
    PROVE  x % z = 0
<1> DEFINE p == x \div y
           q == y \div z
<1>1. p \in Nat /\ q \in Nat /\ x = y * p /\ y = z * q
  BY DivMod
<1> HIDE DEF p, q
<1>2. q * p \in Nat /\ x = z * (q * p)
  BY <1>1, ProductNat
<1>3. (z * (q * p) + 0) % z = 0
  BY <1>2, DivModUnique
<1> QED
  BY <1>2, <1>3

(* So are sums of them.                                                    *)
LEMMA SumOfMultiples ==
    ASSUME NEW x \in Nat, NEW y \in Nat, NEW a \in Nat \ {0}, x % a = 0, y % a = 0
    PROVE  (x + y) % a = 0
<1> DEFINE p == x \div a
           q == y \div a
<1>1. p \in Nat /\ q \in Nat /\ x = a * p /\ y = a * q
  BY DivMod
<1> HIDE DEF p, q
<1>2. p + q \in Nat /\ x + y = a * (p + q) + 0
  BY <1>1, ProductOfSum
<1>3. (a * (p + q) + 0) % a = 0
  BY <1>2, DivModUnique
<1> QED
  BY <1>2, <1>3

(* A request's alignment is at least that of a pointer.                    *)
LEMMA AlignmentNat ==
    ASSUME NEW r \in Requests \cup BigRequests
    PROVE  /\ r.size \in Nat /\ r.alignment \in Nat \ {0}
           /\ alignment_of(r) \in Nat \ {0}
           /\ sizeofAllocHeader \in Nat \ {0}
BY SizesAssumption, RequestsAssumption DEF alignment_of, sizeofAllocHeader

(* The header begins the mapping and the block begins right behind it, at  *)
(* a multiple of the alignment, and ends before the mapping does.          *)
THEOREM PagesPlacement ==
    ASSUME AlignmentsFitPages, NEW r \in Requests \cup BigRequests, r.size # 0,
           NEW base \in Nat, base % PAGE_SIZE = 0
    PROVE  LET a   == alignment_of(r)
               ptr == aligned_addr(base, a)
           IN  /\ ptr = base + header_size(a)
               /\ ptr % a = 0
               /\ WrittenHeader(r, base, ptr).at = base
               /\ ptr + r.size <= base + total_size(r)
<1> DEFINE a == alignment_of(r)
           ptr == aligned_addr(base, a)
<1>1. /\ r.size \in Nat /\ a \in Nat \ {0} /\ sizeofAllocHeader \in Nat \ {0}
      /\ PAGE_SIZE \in Nat \ {0} /\ PAGE_SIZE % a = 0
  BY AlignmentNat, SizesAssumption DEF AlignmentsFitPages
<1>2. base % a = 0
  BY <1>1, MultipleOfMultiple
<1>3. AlignUp(base, a) = base
  BY <1>1, <1>2, AlignUpOfMultiple
<1>4. AlignUp(sizeofAllocHeader + base, a) = AlignUp(sizeofAllocHeader, a) + base
  BY <1>1, <1>2, AlignUpOfSum
<1>5. header_size(a) \in Nat /\ header_size(a) % a = 0
  <2>1. /\ AlignUp(sizeofAllocHeader, a) = a * (AlignUp(sizeofAllocHeader, a) \div a)
        /\ AlignUp(sizeofAllocHeader, a) \div a \in Nat
        /\ AlignUp(sizeofAllocHeader, a) \in Nat
    BY <1>1, AlignUpFacts
  <2> DEFINE k == AlignUp(sizeofAllocHeader, a) \div a
  <2> HIDE DEF a, k
  <2>2. (a * k + 0) % a = 0
    BY <1>1, <2>1, DivModUnique DEF k
  <2> QED
    BY <1>1, <2>1, <2>2 DEF header_size, k
<1>6. ptr = base + header_size(a)
  BY <1>1, <1>3, <1>4, <1>5 DEF aligned_addr, header_size
<1>7. ptr % a = 0
  BY <1>1, <1>2, <1>5, <1>6, SumOfMultiples
<1>8. total_size(r) = r.size + a + header_size(a)
  <2>1. r.size + a + header_size(a) \in 0 .. SIZE_RANGE - 1
    BY <1>1, <1>5, SizesAssumption DEF AlignmentsFitPages
  <2> HIDE DEF a
  <2> QED
    BY <2>1, SizesAssumption DEF total_size, a
<1> QED
  BY <1>1, <1>5, <1>6, <1>7, <1>8 DEF WrittenHeader

-------------------------------------------------------------------------------
(* What OS_Alloc obtains for a request of a page or more, in these terms.  *)
LEMMA PageOutcomeFits ==
    ASSUME AlignmentsFitPages, NEW r \in Requests \cup BigRequests, r.size >= PAGE_SIZE,
           NEW o \in PageOutcomes(r)
    PROVE  HeaderFits(o) /\ o.ptr % alignment_of(r) = 0
<1>1. PICK base \in PAGE_SIZE .. PAGES_END - 1 :
         /\ CanMap(Mapping(base, total_size(r), PAGE_SIZE), PAGE_SIZE, mappings)
         /\ o = PageOutcome(r, base)
  BY DEF PageOutcomes
<1> DEFINE m == Mapping(base, total_size(r), PAGE_SIZE)
           ptr == aligned_addr(base, alignment_of(r))
<1>2. base \in Nat /\ base % PAGE_SIZE = 0
  BY <1>1, SizesAssumption DEF CanMap, Mapping
<1>3. r.size \in Nat /\ r.size # 0
  BY AlignmentNat, SizesAssumption
<1>4. /\ ptr = base + header_size(alignment_of(r))
      /\ ptr % alignment_of(r) = 0
      /\ WrittenHeader(r, base, ptr).at = base
      /\ ptr + r.size <= base + total_size(r)
  BY <1>2, <1>3, PagesPlacement
<1>5. m.length \in Nat /\ 0 < m.length
  <2> DEFINE h == header_size(alignment_of(r))
             total == total_size(r)
  <2>1. alignment_of(r) \in Nat \ {0} /\ sizeofAllocHeader \in Nat
    BY AlignmentNat
  <2>2. h \in Nat
    BY <2>1, AlignUpFacts DEF header_size
  <2>3. total \in Nat
    <3> DEFINE sum == r.size + alignment_of(r) + h
    <3>1. sum \in Nat /\ SIZE_RANGE \in Nat \ {0}
      BY <1>3, <2>1, <2>2, SizesAssumption
    <3>2. total = sum % SIZE_RANGE
      BY DEF total_size
    <3> HIDE DEF sum, total
    <3> QED
      BY <3>1, <3>2, DivMod
  <2>4. ptr + r.size <= base + total /\ ptr = base + h
    BY <1>4
  <2> HIDE DEF h, ptr, total
  <2>5. 0 < total
    BY <1>2, <1>3, <2>2, <2>3, <2>4
  <2>6. m.length = AlignUp(total, PAGE_SIZE) /\ PAGE_SIZE \in Nat \ {0}
    BY SizesAssumption DEF Mapping, total
  <2>7. AlignUp(total, PAGE_SIZE) \in Nat /\ total <= AlignUp(total, PAGE_SIZE)
    BY <2>3, <2>6, AlignUpFacts
  <2> QED
    BY <2>3, <2>5, <2>6, <2>7
<1>6. base \in Range(m.base, m.length)
  BY <1>2, <1>5 DEF Range, Mapping
<1>7. o.mapped = {m} /\ o.written = {WrittenHeader(r, base, ptr)} /\ o.ptr = ptr
  BY <1>1 DEF PageOutcome
<1> QED
  BY <1>4, <1>6, <1>7 DEF HeaderFits, MemoryOf

(* So it is for every request.                                             *)
LEMMA OutcomeFits ==
    ASSUME AlignmentsFitPages, NEW r \in Requests \cup BigRequests, NEW o \in OS_Alloc(r)
    PROVE  HeaderFits(o) /\ (o # Nullptr => o.ptr % alignment_of(r) = 0)
<1>1. CASE o = Nullptr
  BY <1>1 DEF Nullptr, HeaderFits
<1>2. CASE o \in SmallOutcomes(r)
  BY <1>2 DEF SmallOutcomes, CanAllocate, SmallBlock, HeaderFits
<1>3. CASE r.size >= PAGE_SIZE /\ o \in PageOutcomes(r)
  BY <1>3, PageOutcomeFits
<1> QED
  BY <1>1, <1>2, <1>3, AlignmentNat, SizesAssumption DEF OS_Alloc

(* Pointers are addresses.                                                 *)
LEMMA OutcomePtr ==
    ASSUME AlignmentsFitPages, NEW r \in Requests \cup BigRequests, NEW o \in OS_Alloc(r),
           o # Nullptr
    PROVE  o.ptr \in Nat
<1>1. CASE o \in SmallOutcomes(r)
  BY <1>1, SizesAssumption DEF SmallOutcomes
<1>2. CASE r.size >= PAGE_SIZE /\ o \in PageOutcomes(r)
  <2>1. PICK base \in PAGE_SIZE .. PAGES_END - 1 :
           base % PAGE_SIZE = 0 /\ o = PageOutcome(r, base)
    BY <1>2 DEF PageOutcomes, CanMap, Mapping
  <2>2. base \in Nat /\ r.size # 0
    BY <1>2, AlignmentNat, SizesAssumption
  <2>3. o.ptr = base + header_size(alignment_of(r))
    BY <2>1, <2>2, PagesPlacement DEF PageOutcome
  <2>4. header_size(alignment_of(r)) \in Nat
    <3>1. alignment_of(r) \in Nat \ {0} /\ sizeofAllocHeader \in Nat
      BY AlignmentNat
    <3> QED
      BY <3>1, AlignUpFacts DEF header_size
  <2> QED
    BY <2>2, <2>3, <2>4
<1> QED
  BY <1>1, <1>2, AlignmentNat, SizesAssumption DEF OS_Alloc

(* No header is written outside of the memory obtained for it.             *)
THEOREM HeadersStayInside == ASSUME AlignmentsFitPages PROVE Spec => []HeadersInside
<1>1. Init => HeadersInside
  BY DEF Init, HeadersInside
<1>2. HeadersInside /\ [Next]_vars => HeadersInside'
  <2> SUFFICES ASSUME HeadersInside, [Next]_vars PROVE HeadersInside'
    OBVIOUS
  <2>1. ASSUME NEW r \in Requests, Alloc(r) PROVE HeadersInside'
    BY <2>1, OutcomeFits DEF Alloc, Obtain, HeadersInside
  <2>2. ASSUME NEW r \in BigRequests, AllocBig(r) PROVE HeadersInside'
    <3>1. PICK o \in OS_Alloc(r) \cup {Nullptr} :
             \E mapped, got : Obtain(o, mapped, got)
      BY <2>2 DEF AllocBig
    <3>2. HeaderFits(o)
      BY OutcomeFits DEF Nullptr, HeaderFits
    <3> QED
      BY <3>1, <3>2 DEF Obtain, HeadersInside
  <2>3. ASSUME NEW b \in blocks, FreeSmall(b) \/ FreePages(b)
        PROVE  HeadersInside'
    BY <2>3 DEF FreeSmall, FreePages, HeadersInside
  <2> QED
    BY <2>1, <2>2, <2>3 DEF Next, Step, Ended, vars, AssertFails, HeadersInside
<1> QED
  BY <1>1, <1>2, PTL DEF Spec

(* A multiple of the alignment used is one of the alignment asked for.     *)
LEMMA AlignedAsAsked ==
    ASSUME NEW r \in Requests \cup BigRequests, NEW x \in Nat, x % alignment_of(r) = 0
    PROVE  x % r.alignment = 0
<1>1. /\ r.alignment \in Nat \ {0} /\ PTR_SIZE \in Nat \ {0}
      /\ PTR_SIZE % r.alignment = 0 \/ r.alignment % PTR_SIZE = 0
  BY SizesAssumption, RequestsAssumption
<1>2. CASE r.alignment > PTR_SIZE
  BY <1>2 DEF alignment_of
<1>3. CASE r.alignment <= PTR_SIZE
  <2>1. alignment_of(r) = PTR_SIZE
    BY <1>1, <1>3 DEF alignment_of
  <2>2. PTR_SIZE % r.alignment = 0
    <3>1. CASE r.alignment = PTR_SIZE
      <4>1. (r.alignment * 1 + 0) % r.alignment = 0
        BY <1>1, DivModUnique
      <4> QED
        BY <1>1, <3>1, <4>1
    <3>2. CASE r.alignment < PTR_SIZE
      <4>1. (PTR_SIZE * 0 + r.alignment) % PTR_SIZE = r.alignment
        BY <1>1, <3>2, DivModUnique
      <4> QED
        BY <1>1, <4>1
    <3> QED
      BY <1>1, <1>3, <3>1, <3>2
  <2> QED
    BY <1>1, <2>1, <2>2, MultipleOfMultiple
<1> QED
  BY <1>1, <1>2, <1>3

(* Every pointer has the alignment its client asked for.                   *)
THEOREM BlocksAreAligned == ASSUME AlignmentsFitPages PROVE Spec => []BlocksAligned
<1>1. Init => BlocksAligned
  BY DEF Init, BlocksAligned
<1>2. BlocksAligned /\ [Next]_vars => BlocksAligned'
  <2> SUFFICES ASSUME BlocksAligned, [Next]_vars PROVE BlocksAligned'
    OBVIOUS
  <2>1. ASSUME NEW r \in Requests, Alloc(r) PROVE BlocksAligned'
    <3>1. PICK o \in OS_Alloc(r) :
             Obtain(o, {}, IF o = Nullptr THEN {} ELSE {Block(r, o.ptr)})
      BY <2>1 DEF Alloc
    <3>2. CASE o = Nullptr
      BY <3>1, <3>2 DEF Obtain, BlocksAligned
    <3>3. CASE o # Nullptr
      <4>1. o.ptr % alignment_of(r) = 0
        BY <3>3, OutcomeFits
      <4>2. o.ptr \in Nat
        BY <3>3, OutcomePtr
      <4>3. o.ptr % r.alignment = 0
        BY <4>1, <4>2, AlignedAsAsked
      <4> QED
        BY <3>1, <3>3, <4>3 DEF Obtain, BlocksAligned, Block
    <3> QED
      BY <3>2, <3>3
  <2>2. ASSUME NEW r \in BigRequests, AllocBig(r) PROVE BlocksAligned'
    <3>1. PICK o \in OS_Alloc(r) \cup {Nullptr} :
             \/ Obtain(o, {}, {})
             \/ \E base \in PAGE_SIZE .. PAGES_END - 1 :
                  /\ base % HUGE_PAGE_THRESHOLD = 0
                  /\ \E mapped : Obtain(o, mapped, {Block(r, base)})
      BY <2>2 DEF AllocBig, CanMap, Mapping
    <3>2. ASSUME NEW base \in PAGE_SIZE .. PAGES_END - 1, base % HUGE_PAGE_THRESHOLD = 0
          PROVE  base % r.alignment = 0
      <4>1. /\ base \in Nat /\ PAGE_SIZE \in Nat \ {0} /\ HUGE_PAGE_THRESHOLD \in Nat \ {0}
            /\ HUGE_PAGE_THRESHOLD % PAGE_SIZE = 0 /\ alignment_of(r) \in Nat \ {0}
            /\ PAGE_SIZE % alignment_of(r) = 0
        BY SizesAssumption, AlignmentNat DEF AlignmentsFitPages
      <4>2. base % PAGE_SIZE = 0
        BY <3>2, <4>1, MultipleOfMultiple
      <4>3. base % alignment_of(r) = 0
        BY <4>1, <4>2, MultipleOfMultiple
      <4> QED
        BY <4>1, <4>3, AlignedAsAsked
    <3>3. CASE Obtain(o, {}, {})
      BY <3>3 DEF Obtain, BlocksAligned
    <3>4. ASSUME NEW base \in PAGE_SIZE .. PAGES_END - 1, base % HUGE_PAGE_THRESHOLD = 0,
                 NEW mapped, Obtain(o, mapped, {Block(r, base)})
          PROVE  BlocksAligned'
      BY <3>2, <3>4 DEF Obtain, BlocksAligned, Block
    <3> QED
      BY <3>1, <3>3, <3>4
  <2>3. ASSUME NEW b \in blocks, FreeSmall(b) \/ FreePages(b)
        PROVE  BlocksAligned'
    BY <2>3 DEF FreeSmall, FreePages, BlocksAligned
  <2> QED
    BY <2>1, <2>2, <2>3 DEF Next, Step, Ended, vars, AssertFails, BlocksAligned
<1> QED
  BY <1>1, <1>2, PTL DEF Spec
-------------------------------------------------------------------------------
(* What lies where.  The invariant speaks of sets, so that a call that     *)
(* obtains memory twice, as OS_AllocBigPage does, is two of its steps.     *)

(* What the system gives: so many bytes, from there on.                    *)
Place == [base : Nat, length : Nat]
(* Two of them that share no byte.                                         *)
Apart(m, n) == m.base + m.length <= n.base \/ n.base + n.length <= m.base

(* The place that b lies in begins at or before it, and ends after it.     *)
Inside(b, m) == m.base <= b.ptr /\ b.ptr + b.size <= m.base + m.length
Holds(m, b) == m.base <= b.ptr /\ b.ptr < m.base + m.length

(* The mapping that begins with the header h and is as long as it says.    *)
MappingOf(h) == Mapping(h.at, h.total_size, PAGE_SIZE)

(* Mappings and heap blocks are apart.                                     *)
PlacesInv(M, P) ==
    /\ \A m \in M : /\ m \in Place /\ 0 < m.length
                    /\ PAGE_SIZE <= m.base /\ m.base + m.length <= PAGES_END
    /\ \A m \in P : /\ m \in Place /\ 0 < m.length
                    /\ PAGES_END <= m.base /\ m.base + m.length <= HEAP_END
    /\ \A m, n \in M \cup P : m # n => Apart(m, n)

(* A header begins the mapping it names, which has room for a block too.   *)
HeadersInv(M, H) ==
    /\ \A h \in H : /\ h \in [at : Nat, base_ptr : Nat, total_size : Nat]
                    /\ h.base_ptr = h.at /\ sizeofAllocHeader < h.total_size
                    /\ MappingOf(h) \in M /\ h.total_size <= MappingOf(h).length
    /\ \A h, g \in H : h.at = g.at => h = g

(* A block lies in one place, alone, behind the header if there is one.    *)
BlocksInv(M, H, P, B) ==
    /\ \A b \in B : /\ b \in [ptr : Nat, size : Nat, alignment : Nat] /\ 0 < b.size
                    /\ \E m \in M \cup P : Inside(b, m)
    /\ \A m \in M \cup P : \A b, c \in B : Holds(m, b) /\ Holds(m, c) => b = c
    /\ \A h \in H : \A b \in B : Holds(MappingOf(h), b) => h.at + sizeofAllocHeader <= b.ptr

(* All of it, for mappings M, headers H, heap blocks P and blocks B.       *)
Layout(M, H, P, B) == PlacesInv(M, P) /\ HeadersInv(M, H) /\ BlocksInv(M, H, P, B)

(* The inductive invariant: the layout of what is there.                   *)
LayoutInv == Layout(mappings, headers, heap, blocks)

(* Ranges without a common address are apart.                              *)
LEMMA RangesApart ==
    ASSUME NEW m \in Place, NEW n \in Place, 0 < m.length, 0 < n.length,
           Range(m.base, m.length) \cap Range(n.base, n.length) = {}
    PROVE  Apart(m, n)
<1>1. m.base \in Nat /\ n.base \in Nat /\ m.length \in Nat /\ n.length \in Nat
  BY DEF Place
<1>2. ASSUME m.base < n.base + n.length, n.base < m.base + m.length PROVE FALSE
  <2>1. CASE m.base <= n.base
    <3>1. n.base \in Range(m.base, m.length) /\ n.base \in Range(n.base, n.length)
      BY <1>1, <1>2, <2>1 DEF Range
    <3> QED BY <3>1
  <2>2. CASE n.base <= m.base
    <3>1. m.base \in Range(m.base, m.length) /\ m.base \in Range(n.base, n.length)
      BY <1>1, <1>2, <2>2 DEF Range
    <3> QED BY <3>1
  <2> QED BY <1>1, <2>1, <2>2
<1> QED BY <1>1, <1>2 DEF Apart

(* A range within bounds, arithmetically.                                  *)
LEMMA RangeBounds ==
    ASSUME NEW m \in Place, 0 < m.length, NEW lo \in Nat, NEW hi \in Nat,
           Range(m.base, m.length) \subseteq lo .. hi - 1
    PROVE  lo <= m.base /\ m.base + m.length <= hi
<1>1. m.base \in Nat /\ m.length \in Nat
  BY DEF Place
<1>2. m.base \in Range(m.base, m.length) /\ m.base + m.length - 1 \in Range(m.base, m.length)
  BY <1>1 DEF Range
<1>3. m.base \in lo .. hi - 1 /\ m.base + m.length - 1 \in lo .. hi - 1
  BY <1>2
<1> QED BY <1>1, <1>3

(* A place that the system chose is apart from those it had given away.    *)
LEMMA NewPlaceApart ==
    ASSUME NEW M, NEW P, PlacesInv(M, P), NEW n \in Place, 0 < n.length,
           \/ /\ PAGE_SIZE <= n.base /\ n.base + n.length <= PAGES_END
              /\ Range(n.base, n.length) \cap MemoryOf(M) = {}
           \/ /\ PAGES_END <= n.base /\ n.base + n.length <= HEAP_END
              /\ Range(n.base, n.length) \cap MemoryOf(P) = {}
    PROVE  \A m \in M \cup P : Apart(m, n) /\ Apart(n, m)
<1>1. ASSUME NEW m \in M \cup P, Range(n.base, n.length) \cap Range(m.base, m.length) = {}
      PROVE  Apart(m, n)
  BY <1>1, RangesApart DEF PlacesInv
<1>2. \A S : \A m \in S : Range(m.base, m.length) \subseteq MemoryOf(S)
  BY DEF MemoryOf
<1>3. ASSUME NEW m \in M \cup P PROVE Apart(m, n)
  <2>1. /\ m.base \in Nat /\ m.length \in Nat /\ n.base \in Nat /\ n.length \in Nat
        /\ PAGES_END \in Nat
    BY SizesAssumption DEF PlacesInv, Place
  <2>2. CASE m \in M /\ Range(n.base, n.length) \cap MemoryOf(M) = {}
    BY <1>1, <1>2, <2>2
  <2>3. CASE m \in P /\ Range(n.base, n.length) \cap MemoryOf(P) = {}
    BY <1>1, <1>2, <2>3
  <2>4. CASE m \in M /\ PAGES_END <= n.base
    BY <2>1, <2>4 DEF PlacesInv, Apart
  <2>5. CASE m \in P /\ n.base + n.length <= PAGES_END
    BY <2>1, <2>5 DEF PlacesInv, Apart
  <2> QED BY <2>2, <2>3, <2>4, <2>5
<1> QED BY <1>3 DEF Apart

(* There is a new place, perhaps with a header and with a block in it.     *)
GrowsBy(M, P, n, M2, P2, W, G) ==
    /\ n \in Place /\ 0 < n.length /\ \A m \in M \cup P : Apart(m, n) /\ Apart(n, m)
    /\ \/ M2 = M \cup {n} /\ P2 = P /\ PAGE_SIZE <= n.base /\ n.base + n.length <= PAGES_END
       \/ M2 = M /\ P2 = P \cup {n} /\ PAGES_END <= n.base /\ n.base + n.length <= HEAP_END
    /\ \A w \in W : /\ w \in [at : Nat, base_ptr : Nat, total_size : Nat]
                    /\ w.at = n.base /\ w.base_ptr = n.base /\ n \in M2
                    /\ MappingOf(w) = n /\ w.total_size <= n.length
                    /\ sizeofAllocHeader < w.total_size
    /\ \A v, w \in W : v = w
    /\ \A b \in G : /\ b \in [ptr : Nat, size : Nat, alignment : Nat]
                    /\ 0 < b.size /\ Inside(b, n)
                    /\ \A w \in W : w.at + sizeofAllocHeader <= b.ptr
    /\ \A b, c \in G : b = c

(* Such a place leaves the layout as it should be.                         *)
LEMMA LayoutGrows ==
    ASSUME NEW M, NEW H, NEW P, NEW B, Layout(M, H, P, B),
           NEW n, NEW M2, NEW P2, NEW W, NEW G, GrowsBy(M, P, n, M2, P2, W, G)
    PROVE  Layout(M2, H \cup W, P2, B \cup G)
<1> USE DEF GrowsBy
<1>1. M2 \cup P2 = (M \cup P) \cup {n} /\ M \subseteq M2
  OBVIOUS
<1>2. PlacesInv(M2, P2)
  BY <1>1 DEF Layout, PlacesInv
<1>3. n.base \in Nat /\ n.length \in Nat /\ \A m \in M \cup P : m.base \in Nat /\ m.length \in Nat
  BY DEF Layout, PlacesInv, Place
<1>4. \A h \in H : h.at # n.base
  <2> SUFFICES ASSUME NEW h \in H, h.at = n.base PROVE FALSE
    OBVIOUS
  <2>1. MappingOf(h) \in M /\ MappingOf(h).base = n.base /\ 0 < MappingOf(h).length
    BY DEF Layout, HeadersInv, PlacesInv, MappingOf, Mapping
  <2> HIDE DEF MappingOf
  <2> QED BY <1>3, <2>1 DEF Apart
<1>5. HeadersInv(M2, H \cup W)
  <2>1. \A h \in H \cup W : /\ h \in [at : Nat, base_ptr : Nat, total_size : Nat]
                            /\ h.base_ptr = h.at /\ sizeofAllocHeader < h.total_size
                            /\ MappingOf(h) \in M2 /\ h.total_size <= MappingOf(h).length
    BY <1>1 DEF Layout, HeadersInv
  <2>2. \A h, g \in H \cup W : h.at = g.at => h = g
    BY <1>4 DEF Layout, HeadersInv
  <2> QED BY <2>1, <2>2 DEF HeadersInv
<1>6. \A b \in B : ~Holds(n, b)
  <2> SUFFICES ASSUME NEW b \in B, Holds(n, b) PROVE FALSE
    OBVIOUS
  <2>1. PICK m \in M \cup P : Inside(b, m)
    BY DEF Layout, BlocksInv
  <2>2. b.ptr \in Nat /\ b.size \in Nat /\ 0 < b.size
    BY DEF Layout, BlocksInv
  <2> QED BY <1>3, <2>1, <2>2 DEF Inside, Holds, Apart
<1>7. \A b \in G : \A m \in M \cup P : ~Holds(m, b)
  <2> SUFFICES ASSUME NEW b \in G, NEW m \in M \cup P, Holds(m, b) PROVE FALSE
    OBVIOUS
  <2>1. b.ptr \in Nat /\ b.size \in Nat /\ 0 < b.size /\ Inside(b, n)
    OBVIOUS
  <2> QED BY <1>3, <2>1 DEF Inside, Holds, Apart
<1>8. BlocksInv(M2, H \cup W, P2, B \cup G)
  <2>1. \A b \in B \cup G : /\ b \in [ptr : Nat, size : Nat, alignment : Nat] /\ 0 < b.size
                            /\ \E m \in M2 \cup P2 : Inside(b, m)
    BY <1>1 DEF Layout, BlocksInv
  <2>2. \A m \in M2 \cup P2 : \A b, c \in B \cup G : Holds(m, b) /\ Holds(m, c) => b = c
    BY <1>1, <1>6, <1>7 DEF Layout, BlocksInv
  <2>3. \A h \in H \cup W : \A b \in B \cup G :
           Holds(MappingOf(h), b) => h.at + sizeofAllocHeader <= b.ptr
    <3>1. \A h \in H : MappingOf(h) \in M
      BY DEF Layout, HeadersInv
    <3>2. \A w \in W : MappingOf(w) = n
      OBVIOUS
    <3> HIDE DEF MappingOf
    <3> QED BY <1>6, <1>7, <3>1, <3>2 DEF Layout, BlocksInv
  <2> QED BY <2>1, <2>2, <2>3 DEF BlocksInv
<1> QED BY <1>2, <1>5, <1>8 DEF Layout

(* A block is given back, with the places that hold it or without.         *)
LEMMA LayoutShrinks ==
    ASSUME NEW M, NEW H, NEW P, NEW B, Layout(M, H, P, B), NEW b \in B,
           NEW M2 \in SUBSET M, NEW P2 \in SUBSET P, NEW H2 \in SUBSET H,
           \A m \in (M \cup P) \ (M2 \cup P2) : Holds(m, b),
           \A h \in H2 : MappingOf(h) \in M2
    PROVE  Layout(M2, H2, P2, B \ {b})
<1>1. PlacesInv(M2, P2)
  BY DEF Layout, PlacesInv
<1>2. HeadersInv(M2, H2)
  BY DEF Layout, HeadersInv
<1>3. ASSUME NEW c \in B \ {b} PROVE \E m \in M2 \cup P2 : Inside(c, m)
  <2>1. PICK m \in M \cup P : Inside(c, m)
    BY DEF Layout, BlocksInv
  <2>2. c.ptr \in Nat /\ c.size \in Nat /\ 0 < c.size /\ m.base \in Nat /\ m.length \in Nat
    BY DEF Layout, BlocksInv, PlacesInv, Place
  <2>3. Holds(m, c)
    BY <2>1, <2>2 DEF Inside, Holds
  <2>4. ~Holds(m, b)
    BY <2>3 DEF Layout, BlocksInv
  <2> QED BY <2>1, <2>4
<1>4. BlocksInv(M2, H2, P2, B \ {b})
  BY <1>3 DEF Layout, BlocksInv
<1> QED BY <1>1, <1>2, <1>4 DEF Layout


(* The header of a mapping is as large as AllocHeader at least, and is     *)
(* counted in full in the length that OS_Alloc asks for.                   *)
LEMMA TotalFits ==
    ASSUME AlignmentsFitPages, NEW r \in Requests \cup BigRequests
    PROVE  /\ header_size(alignment_of(r)) \in Nat
           /\ sizeofAllocHeader <= header_size(alignment_of(r))
           /\ total_size(r) \in Nat
           /\ total_size(r) = r.size + alignment_of(r) + header_size(alignment_of(r))
<1> DEFINE a == alignment_of(r)
<1>1. r.size \in Nat /\ a \in Nat \ {0} /\ sizeofAllocHeader \in Nat \ {0}
  BY AlignmentNat
<1>2. header_size(a) \in Nat /\ sizeofAllocHeader <= header_size(a)
  BY <1>1, AlignUpFacts DEF header_size
<1>3. r.size + a + header_size(a) \in 0 .. SIZE_RANGE - 1
  BY <1>1, <1>2, SizesAssumption DEF AlignmentsFitPages
<1>4. total_size(r) = (r.size + a + header_size(a)) % SIZE_RANGE
  BY DEF total_size
<1> HIDE DEF a
<1>5. total_size(r) = r.size + a + header_size(a)
  BY <1>3, <1>4, SizesAssumption
<1> QED BY <1>1, <1>2, <1>5 DEF a

(* A block of OS_Alloc is in a new place of its own: from aligned_alloc at *)
(* the beginning, from mmap behind the header.                             *)
SmallPlace(r, o, n) ==
    /\ r.size < PAGE_SIZE /\ o.mapped = {} /\ o.written = {} /\ o.taken = {n}
    /\ n.base = o.ptr
    /\ PAGES_END <= n.base /\ n.base + n.length <= HEAP_END
    /\ Range(n.base, n.length) \cap MemoryOf(heap) = {}
PagePlace(r, o, n) ==
    /\ r.size >= PAGE_SIZE /\ o.mapped = {n} /\ o.taken = {}
    /\ PAGE_SIZE <= n.base /\ n.base + n.length <= PAGES_END
    /\ Range(n.base, n.length) \cap MemoryOf(mappings) = {}
    /\ o.ptr = n.base + header_size(alignment_of(r))
    /\ \E w \in [at : Nat, base_ptr : Nat, total_size : Nat] :
          /\ o.written = {w} /\ w.at = n.base /\ w.base_ptr = n.base
          /\ MappingOf(w) = n /\ w.total_size <= n.length
          /\ sizeofAllocHeader < w.total_size
          /\ o.ptr + r.size <= n.base + w.total_size

(* There is no third kind, and the block is inside.                        *)
LEMMA OutcomeShape ==
    ASSUME AlignmentsFitPages, NEW r \in Requests \cup BigRequests, NEW o \in OS_Alloc(r),
           o # Nullptr
    PROVE  /\ HeaderFits(o)
           /\ Block(r, o.ptr) \in [ptr : Nat, size : Nat, alignment : Nat]
           /\ 0 < r.size
           /\ \E n \in Place : /\ 0 < n.length /\ Inside(Block(r, o.ptr), n)
                               /\ SmallPlace(r, o, n) \/ PagePlace(r, o, n)
<1>1. /\ r.size \in Nat /\ r.alignment \in Nat /\ alignment_of(r) \in Nat \ {0}
      /\ sizeofAllocHeader \in Nat \ {0} /\ PAGE_SIZE \in Nat \ {0} /\ PAGES_END \in Nat
      /\ HEAP_END \in Nat
  BY AlignmentNat, SizesAssumption
<1>2. 0 < r.size
  BY <1>1 DEF OS_Alloc
<1>3. o.ptr \in Nat /\ HeaderFits(o)
  BY OutcomePtr, OutcomeFits
<1>4. Block(r, o.ptr) \in [ptr : Nat, size : Nat, alignment : Nat]
  BY <1>1, <1>3 DEF Block
<1>5. CASE r.size < PAGE_SIZE
  <2>1. PICK p \in PAGES_END .. HEAP_END - 1 :
           /\ CanAllocate(SmallBlock(r, p), alignment_of(r))
           /\ o = [mapped |-> {}, written |-> {}, taken |-> {SmallBlock(r, p)}, ptr |-> p]
    BY <1>2, <1>5 DEF OS_Alloc, SmallOutcomes
  <2> DEFINE n == SmallBlock(r, p)
  <2>2. /\ n.base = p /\ n.length = AlignUp(r.size, alignment_of(r))
        /\ n = [base |-> p, length |-> AlignUp(r.size, alignment_of(r))]
    BY DEF SmallBlock
  <2>3. n.length \in Nat /\ r.size <= n.length
    BY <1>1, <2>2, AlignUpFacts
  <2>4. p \in Nat /\ n \in Place /\ 0 < n.length
    BY <1>1, <1>2, <2>2, <2>3 DEF Place
  <2>5. /\ Range(n.base, n.length) \subseteq PAGES_END .. HEAP_END - 1
        /\ Range(n.base, n.length) \cap MemoryOf(heap) = {}
    BY <2>1 DEF CanAllocate
  <2> HIDE DEF n
  <2>6. PAGES_END <= n.base /\ n.base + n.length <= HEAP_END
    BY <1>1, <2>4, <2>5, RangeBounds
  <2>7. Inside(Block(r, o.ptr), n)
    BY <1>1, <2>1, <2>2, <2>3, <2>4 DEF Inside, Block
  <2>8. SmallPlace(r, o, n)
    BY <1>5, <2>1, <2>2, <2>5, <2>6 DEF SmallPlace, n
  <2> QED BY <1>2, <1>3, <1>4, <2>4, <2>7, <2>8
<1>6. CASE r.size >= PAGE_SIZE
  <2>1. PICK base \in PAGE_SIZE .. PAGES_END - 1 :
           /\ CanMap(Mapping(base, total_size(r), PAGE_SIZE), PAGE_SIZE, mappings)
           /\ o = PageOutcome(r, base)
    BY <1>1, <1>2, <1>6 DEF OS_Alloc, PageOutcomes
  <2> DEFINE n == Mapping(base, total_size(r), PAGE_SIZE)
             w == WrittenHeader(r, base, o.ptr)
             total == total_size(r)
  <2>2. base \in Nat /\ base % PAGE_SIZE = 0
    BY <1>1, <2>1 DEF CanMap, Mapping
  <2>3. o.mapped = {n} /\ o.taken = {} /\ o.written = {w}
        /\ o.ptr = aligned_addr(base, alignment_of(r))
    BY <2>1 DEF PageOutcome
  <2>4. /\ o.ptr = base + header_size(alignment_of(r)) /\ w.at = base
        /\ o.ptr + r.size <= base + total
    BY <1>1, <1>2, <2>2, <2>3, PagesPlacement
  <2>5. /\ header_size(alignment_of(r)) \in Nat /\ total \in Nat
        /\ sizeofAllocHeader <= header_size(alignment_of(r))
        /\ total = r.size + alignment_of(r) + header_size(alignment_of(r))
    BY TotalFits
  <2>6. sizeofAllocHeader < total
    BY <1>1, <1>2, <2>5
  <2>7. /\ n.base = base /\ n.length = AlignUp(total, PAGE_SIZE)
        /\ n = [base |-> base, length |-> AlignUp(total, PAGE_SIZE)]
    BY DEF Mapping
  <2>8. n.length \in Nat /\ total <= n.length
    BY <1>1, <2>5, <2>7, AlignUpFacts
  <2> HIDE DEF n, total
  <2>9. n \in Place /\ 0 < n.length
    BY <1>1, <2>2, <2>5, <2>6, <2>7, <2>8 DEF Place
  <2>10. /\ Range(n.base, n.length) \subseteq PAGE_SIZE .. PAGES_END - 1
         /\ Range(n.base, n.length) \cap MemoryOf(mappings) = {}
    BY <2>1 DEF CanMap, n, total
  <2>11. /\ w.base_ptr = base /\ w.total_size = total
         /\ w \in [at : Nat, base_ptr : Nat, total_size : Nat]
    BY <2>2, <2>4, <2>5 DEF WrittenHeader, total
  <2>12. MappingOf(w) = n
    BY <2>4, <2>11 DEF MappingOf, n, total
  <2> HIDE DEF w
  <2>13. PAGE_SIZE <= n.base /\ n.base + n.length <= PAGES_END
    BY <1>1, <2>9, <2>10, RangeBounds
  <2>14. Inside(Block(r, o.ptr), n)
    BY <1>1, <2>2, <2>4, <2>5, <2>7, <2>8 DEF Inside, Block
  <2>15. PagePlace(r, o, n)
    BY <1>6, <2>3, <2>4, <2>6, <2>7, <2>8, <2>10, <2>11, <2>12, <2>13 DEF PagePlace
  <2> QED BY <1>2, <1>3, <1>4, <2>9, <2>14, <2>15
<1> QED BY <1>1, <1>5, <1>6

(* OS_Alloc keeps the layout, whether its caller takes the block or not.   *)
LEMMA AllocLayout ==
    ASSUME AlignmentsFitPages, LayoutInv, NEW r \in Requests \cup BigRequests,
           NEW o \in OS_Alloc(r) \cup {Nullptr},
           NEW G, G = {} \/ (o # Nullptr /\ G = {Block(r, o.ptr)})
    PROVE  Layout(mappings \cup o.mapped, headers \cup o.written, heap \cup o.taken, blocks \cup G)
<1>1. CASE o = Nullptr
  BY <1>1 DEF LayoutInv, Nullptr
<1>2. CASE o # Nullptr
  <2> DEFINE b == Block(r, o.ptr)
  <2>1. PICK n \in Place : /\ 0 < n.length /\ Inside(b, n)
                           /\ SmallPlace(r, o, n) \/ PagePlace(r, o, n)
    BY <1>2, OutcomeShape
  <2>2. b \in [ptr : Nat, size : Nat, alignment : Nat] /\ 0 < b.size /\ b.ptr = o.ptr
    BY <1>2, OutcomeShape DEF Block
  <2> HIDE DEF b
  <2>3. \A m \in mappings \cup heap : Apart(m, n) /\ Apart(n, m)
    BY <2>1, NewPlaceApart DEF LayoutInv, Layout, SmallPlace, PagePlace
  <2>4. CASE SmallPlace(r, o, n)
    <3>1. /\ mappings \cup o.mapped = mappings /\ headers \cup o.written = headers \cup {}
          /\ heap \cup o.taken = heap \cup {n}
          /\ PAGES_END <= n.base /\ n.base + n.length <= HEAP_END
      BY <2>4 DEF SmallPlace
    <3>2. \A c \in G : c = b
      BY <1>2 DEF b
    <3>3. GrowsBy(mappings, heap, n, mappings, heap \cup {n}, {}, G)
      BY <2>1, <2>2, <2>3, <3>1, <3>2 DEF GrowsBy
    <3>4. Layout(mappings, headers \cup {}, heap \cup {n}, blocks \cup G)
      BY <3>3, LayoutGrows DEF LayoutInv
    <3> QED BY <3>1, <3>4
  <2>5. CASE PagePlace(r, o, n)
    <3>1. PICK w \in [at : Nat, base_ptr : Nat, total_size : Nat] :
             /\ o.written = {w} /\ w.at = n.base /\ w.base_ptr = n.base
             /\ MappingOf(w) = n /\ w.total_size <= n.length
             /\ sizeofAllocHeader < w.total_size
      BY <2>5 DEF PagePlace
    <3>2. w.at + sizeofAllocHeader <= b.ptr
      <4>1. /\ n.base \in Nat /\ sizeofAllocHeader \in Nat
            /\ header_size(alignment_of(r)) \in Nat
            /\ sizeofAllocHeader <= header_size(alignment_of(r))
        BY TotalFits, AlignmentNat DEF Place
      <4> QED BY <2>2, <2>5, <3>1, <4>1 DEF PagePlace
    <3>3. /\ o.mapped = {n} /\ o.taken = {} /\ heap \cup o.taken = heap
          /\ PAGE_SIZE <= n.base /\ n.base + n.length <= PAGES_END
      BY <2>5 DEF PagePlace
    <3>4. \A c \in G : c = b
      BY <1>2 DEF b
    <3>5. n \in mappings \cup {n}
      OBVIOUS
    <3>6. \A c \in G : /\ c \in [ptr : Nat, size : Nat, alignment : Nat]
                       /\ 0 < c.size /\ Inside(c, n)
                       /\ \A v \in {w} : v.at + sizeofAllocHeader <= c.ptr
      BY <2>1, <2>2, <3>2, <3>4
    <3>7. GrowsBy(mappings, heap, n, mappings \cup {n}, heap, {w}, G)
      BY <2>1, <2>3, <3>1, <3>3, <3>4, <3>5, <3>6 DEF GrowsBy
    <3>8. Layout(mappings \cup {n}, headers \cup {w}, heap, blocks \cup G)
      BY <3>7, LayoutGrows DEF LayoutInv
    <3> QED BY <3>1, <3>3, <3>8
  <2> QED BY <2>1, <2>4, <2>5
<1> QED BY <1>1, <1>2


(* OS_AllocBigPage keeps it too: the huge pages are mapped besides what    *)
(* OS_Alloc obtained and nobody took.                                      *)
LEMMA BigLayout ==
    ASSUME AlignmentsFitPages, LayoutInv, NEW r \in BigRequests, AllocBig(r)
    PROVE  /\ LayoutInv'
           /\ \A b \in blocks' : b \in blocks \/ b.size = r.size
<1>1. PICK o \in OS_Alloc(r) \cup {Nullptr} :
         \/ Obtain(o, {}, {})
         \/ \E base \in PAGE_SIZE .. PAGES_END - 1 :
               LET m == Mapping(base, r.size, HUGE_PAGE_THRESHOLD)
               IN  /\ CanMap(m, HUGE_PAGE_THRESHOLD, mappings \cup o.mapped)
                   /\ Obtain(o, {m}, {Block(r, base)})
  BY DEF AllocBig
<1>2. HeaderFits(o)
  BY OutcomeFits DEF Nullptr, HeaderFits
<1> DEFINE M == mappings \cup o.mapped
           H == headers \cup o.written
           P == heap \cup o.taken
<1>3. Layout(M, H, P, blocks \cup {})
  BY AllocLayout
<1> HIDE DEF M, H, P
<1>4. CASE Obtain(o, {}, {})
  BY <1>2, <1>3, <1>4 DEF Obtain, LayoutInv, M, H, P
<1>5. ASSUME NEW base \in PAGE_SIZE .. PAGES_END - 1,
             CanMap(Mapping(base, r.size, HUGE_PAGE_THRESHOLD), HUGE_PAGE_THRESHOLD, M),
             Obtain(o, {Mapping(base, r.size, HUGE_PAGE_THRESHOLD)}, {Block(r, base)})
      PROVE  LayoutInv' /\ \A b \in blocks' : b \in blocks \/ b.size = r.size
  <2> DEFINE n == Mapping(base, r.size, HUGE_PAGE_THRESHOLD)
             b == Block(r, base)
  <2>1. /\ r.size \in Nat /\ r.alignment \in Nat /\ PAGE_SIZE \in Nat \ {0}
        /\ PAGES_END \in Nat /\ HUGE_PAGE_THRESHOLD \in Nat \ {0} /\ base \in Nat
    BY AlignmentNat, SizesAssumption
  <2>2. n = [base |-> base, length |-> AlignUp(r.size, HUGE_PAGE_THRESHOLD)]
    BY DEF Mapping
  <2>3. AlignUp(r.size, HUGE_PAGE_THRESHOLD) \in Nat /\ r.size <= AlignUp(r.size, HUGE_PAGE_THRESHOLD)
    BY <2>1, AlignUpFacts
  <2>4. /\ n.length # 0 /\ Range(n.base, n.length) \subseteq PAGE_SIZE .. PAGES_END - 1
        /\ Range(n.base, n.length) \cap MemoryOf(M) = {}
    BY <1>5 DEF CanMap
  <2>5. b.ptr = base /\ b.size = r.size /\ b \in [ptr : Nat, size : Nat, alignment : Nat]
    BY <2>1 DEF Block
  <2> HIDE DEF n, b
  <2>6. n \in Place /\ 0 < n.length /\ n.base = base /\ r.size <= n.length
    BY <2>1, <2>2, <2>3, <2>4 DEF Place
  <2>7. PAGE_SIZE <= n.base /\ n.base + n.length <= PAGES_END
    BY <2>1, <2>4, <2>6, RangeBounds
  <2>8. \A m \in M \cup P : Apart(m, n) /\ Apart(n, m)
    BY <1>3, <2>4, <2>6, <2>7, NewPlaceApart DEF Layout
  <2>9. r.size # 0
    <3>1. AlignUp(0, HUGE_PAGE_THRESHOLD) = 0
      <4>1. (HUGE_PAGE_THRESHOLD * 0 + 0) % HUGE_PAGE_THRESHOLD = 0
        BY <2>1, DivModUnique
      <4>2. 0 % HUGE_PAGE_THRESHOLD = 0
        BY <2>1, <4>1
      <4> QED BY <2>1, <4>2, AlignUpOfMultiple
    <3> QED BY <2>2, <2>4, <3>1
  <2>10. Inside(b, n)
    BY <2>1, <2>5, <2>6 DEF Inside, Place
  <2>11. GrowsBy(M, P, n, M \cup {n}, P, {}, {b})
    BY <2>1, <2>5, <2>6, <2>7, <2>8, <2>9, <2>10 DEF GrowsBy
  <2>12. Layout(M \cup {n}, H \cup {}, P, (blocks \cup {}) \cup {b})
    BY <1>3, <2>11, LayoutGrows
  <2>13. /\ mappings' = M \cup {n} /\ headers' = H /\ heap' = P
         /\ blocks' = blocks \cup {b}
    BY <1>2, <1>5 DEF Obtain, M, H, P, n, b
  <2>14. H \cup {} = H /\ (blocks \cup {}) \cup {b} = blocks \cup {b}
    OBVIOUS
  <2> QED BY <2>5, <2>12, <2>13, <2>14 DEF LayoutInv
<1> QED BY <1>1, <1>4, <1>5 DEF M, Obtain

(* What OS_Free reads is a header at that place, or zero.                  *)
LEMMA HeaderRead ==
    ASSUME NEW at
    PROVE  \/ ReadHeader(at) \in headers /\ ReadHeader(at).at = at
           \/ ReadHeader(at) = Zero(at) /\ \A g \in headers : g.at # at
<1>1. \E h \in headers \cup {Zero(at)} :
         h.at = at /\ (h \in headers \/ \A g \in headers : g.at # at)
  <2>1. CASE \E g \in headers : g.at = at
    BY <2>1
  <2>2. CASE \A g \in headers : g.at # at
    <3>1. Zero(at).at = at
      BY DEF Zero
    <3> QED BY <2>2, <3>1
  <2> QED BY <2>1, <2>2
<1>2. /\ ReadHeader(at) \in headers \cup {Zero(at)} /\ ReadHeader(at).at = at
      /\ ReadHeader(at) \in headers \/ \A g \in headers : g.at # at
  BY <1>1 DEF ReadHeader
<1> QED BY <1>2

(* OS_Free unmaps the block's own mapping or, when it does not find the    *)
(* header, none.                                                           *)
LEMMA UnmapGone ==
    ASSUME LayoutInv, NEW b \in blocks, NEW h, h = ReadHeader(header_addr(b.ptr))
    PROVE  LET gone == {m \in mappings : m = Mapping(h.base_ptr, h.total_size, PAGE_SIZE)}
           IN  /\ \A m \in gone : Holds(m, b)
               /\ h \in headers => gone = {MappingOf(h)}
<1>1. /\ b.ptr \in Nat /\ sizeofAllocHeader \in Nat \ {0}
      /\ PAGE_SIZE \in Nat \ {0} /\ PTR_SIZE \in Nat
  BY SizesAssumption DEF LayoutInv, Layout, BlocksInv, sizeofAllocHeader
<1>2. CASE h \in headers /\ h.at = header_addr(b.ptr)
  <2>1. /\ h \in [at : Nat, base_ptr : Nat, total_size : Nat] /\ h.base_ptr = h.at
        /\ sizeofAllocHeader < h.total_size
        /\ MappingOf(h) \in mappings /\ h.total_size <= MappingOf(h).length
    BY <1>2 DEF LayoutInv, Layout, HeadersInv
  <2>2. MappingOf(h) = Mapping(h.base_ptr, h.total_size, PAGE_SIZE) /\ MappingOf(h).base = h.at
    BY <2>1 DEF MappingOf, Mapping
  <2>3. MappingOf(h).length \in Nat
    BY <2>1 DEF LayoutInv, Layout, PlacesInv, Place
  <2> DEFINE m == MappingOf(h)
  <2> HIDE DEF m
  <2>4. m.base = h.at /\ m.length \in Nat /\ h.total_size <= m.length
    BY <2>1, <2>2, <2>3 DEF m
  <2>5. h.at \in Nat /\ h.total_size \in Nat /\ h.at = b.ptr - sizeofAllocHeader
    BY <1>2, <2>1 DEF header_addr
  <2>6. Holds(m, b)
    BY <1>1, <2>1, <2>4, <2>5 DEF Holds
  <2> QED BY <2>1, <2>2, <2>6 DEF m
<1>3. CASE h = Zero(header_addr(b.ptr)) /\ h \notin headers
  <2>1. Mapping(h.base_ptr, h.total_size, PAGE_SIZE).base = 0
    BY <1>3 DEF Zero, Mapping
  <2>2. \A m \in mappings : m.base # 0
    BY <1>1 DEF LayoutInv, Layout, PlacesInv, Place
  <2> QED BY <1>3, <2>1, <2>2
<1> QED BY <1>2, <1>3, HeaderRead DEF Zero


(* free takes the heap block that begins where the block does.             *)
LEMMA FreeSmallLayout ==
    ASSUME LayoutInv, NEW b \in blocks, FreeSmall(b)
    PROVE  LayoutInv'
<1> DEFINE mine == {m \in heap : m.base = b.ptr}
<1>1. /\ blocks' = blocks \ {b} /\ heap' = heap \ mine /\ UNCHANGED <<mappings, headers>>
  BY DEF FreeSmall
<1>2. \A m \in mine : Holds(m, b)
  BY DEF LayoutInv, Layout, PlacesInv, Place, Holds
<1>3. \A h \in headers : MappingOf(h) \in mappings
  BY DEF LayoutInv, Layout, HeadersInv
<1>4. \A m \in (mappings \cup heap) \ (mappings \cup (heap \ mine)) : Holds(m, b)
  BY <1>2
<1> HIDE DEF mine
<1>5. Layout(mappings, headers, heap \ mine, blocks \ {b})
  BY <1>3, <1>4, LayoutShrinks DEF LayoutInv
<1> QED BY <1>1, <1>5 DEF LayoutInv

(* munmap takes the mapping of the block with the header in it, or none.   *)
LEMMA FreePagesLayout ==
    ASSUME LayoutInv, NEW b \in blocks, FreePages(b)
    PROVE  LayoutInv'
<1>1. blocks' = blocks \ {b} /\ heap' = heap
  BY DEF FreePages
<1>2. CASE UNCHANGED <<mappings, headers>>
  <2>1. \A h \in headers : MappingOf(h) \in mappings
    BY DEF LayoutInv, Layout, HeadersInv
  <2>2. \A m \in (mappings \cup heap) \ (mappings \cup heap) : Holds(m, b)
    OBVIOUS
  <2>3. Layout(mappings, headers, heap, blocks \ {b})
    BY <2>1, <2>2, LayoutShrinks DEF LayoutInv
  <2> QED BY <1>1, <1>2, <2>3 DEF LayoutInv
<1>3. CASE Unmap(ReadHeader(header_addr(b.ptr)))
  <2>1. PICK h : h = ReadHeader(header_addr(b.ptr))
    OBVIOUS
  <2> DEFINE gone == {m \in mappings : m = Mapping(h.base_ptr, h.total_size, PAGE_SIZE)}
             rest == {g \in headers : g.at \notin MemoryOf(gone)}
  <2>2. mappings' = mappings \ gone /\ headers' = rest
    BY <1>3, <2>1 DEF Unmap
  <2>3. \A m \in gone : Holds(m, b)
    BY <2>1, UnmapGone
  <2>4. \A g \in rest : MappingOf(g) \in mappings \ gone
    <3> SUFFICES ASSUME NEW g \in headers, MappingOf(g) \in gone PROVE g.at \in MemoryOf(gone)
      BY DEF LayoutInv, Layout, HeadersInv
    <3>1. MappingOf(g).base = g.at
      BY DEF MappingOf, Mapping
    <3>2. g.at \in Nat /\ MappingOf(g).length \in Nat /\ 0 < MappingOf(g).length
      BY DEF LayoutInv, Layout, HeadersInv, PlacesInv, Place
    <3> DEFINE m == MappingOf(g)
    <3> HIDE DEF m
    <3>3. g.at \in Range(m.base, m.length)
      BY <3>1, <3>2 DEF m, Range
    <3> QED BY <3>3 DEF MemoryOf, m
  <2>5. \A m \in (mappings \cup heap) \ ((mappings \ gone) \cup heap) : Holds(m, b)
    BY <2>3
  <2>6. rest \in SUBSET headers /\ mappings \ gone \in SUBSET mappings
    OBVIOUS
  <2> HIDE DEF gone, rest
  <2>7. Layout(mappings \ gone, rest, heap, blocks \ {b})
    BY <2>4, <2>5, <2>6, LayoutShrinks DEF LayoutInv
  <2> QED BY <1>1, <2>2, <2>7 DEF LayoutInv
<1> QED BY <1>2, <1>3 DEF FreePages

(* What a call of OS_Alloc adds.                                           *)
LEMMA AllocEffect ==
    ASSUME AlignmentsFitPages, LayoutInv, NEW r \in Requests, Alloc(r)
    PROVE  /\ LayoutInv' /\ UNCHANGED fault
           /\ \/ UNCHANGED <<mappings, headers, heap, blocks>>
              \/ \E o \in OS_Alloc(r) :
                    /\ o # Nullptr
                    /\ mappings' = mappings \cup o.mapped /\ headers' = headers \cup o.written
                    /\ heap' = heap \cup o.taken /\ blocks' = blocks \cup {Block(r, o.ptr)}
<1>1. PICK o \in OS_Alloc(r) : Obtain(o, {}, IF o = Nullptr THEN {} ELSE {Block(r, o.ptr)})
  BY DEF Alloc
<1>2. HeaderFits(o)
  BY OutcomeFits
<1>3. CASE o = Nullptr
  <2>1. UNCHANGED vars
    BY <1>1, <1>2, <1>3 DEF Obtain, Nullptr, vars
  <2> QED BY <2>1 DEF vars, LayoutInv
<1>4. CASE o # Nullptr
  <2>1. /\ mappings' = mappings \cup o.mapped /\ headers' = headers \cup o.written
        /\ heap' = heap \cup o.taken /\ blocks' = blocks \cup {Block(r, o.ptr)}
        /\ UNCHANGED fault
    BY <1>1, <1>2, <1>4 DEF Obtain
  <2>2. Layout(mappings \cup o.mapped, headers \cup o.written, heap \cup o.taken,
               blocks \cup {Block(r, o.ptr)})
    BY <1>4, AllocLayout
  <2> QED BY <1>4, <2>1, <2>2 DEF LayoutInv
<1> QED BY <1>3, <1>4

(* One step, whichever function it is of.                                  *)
LEMMA LayoutNext == ASSUME AlignmentsFitPages, LayoutInv, [Next]_vars PROVE LayoutInv'
<1>1. CASE UNCHANGED <<mappings, headers, heap, blocks>>
  BY <1>1 DEF LayoutInv
<1> QED
  BY <1>1, AllocEffect, BigLayout, FreeSmallLayout, FreePagesLayout
     DEF Next, Step, Ended, vars, AssertFails

(* Whatever is obtained and given back in whatever order, no two clients   *)
(* share memory and no header lies in a block.                             *)
THEOREM LayoutInvariance == ASSUME AlignmentsFitPages PROVE Spec => []LayoutInv
<1>1. Init => LayoutInv
  BY DEF Init, LayoutInv, Layout, PlacesInv, HeadersInv, BlocksInv
<1> QED BY <1>1, LayoutNext, PTL DEF Spec

(* BlocksUsable of OS_Alloc, OS_AllocBigPage and OS_Free: a client may     *)
(* write all of its block, for every alignment up to a page.               *)
THEOREM BlocksAreUsable == ASSUME AlignmentsFitPages PROVE Spec => []BlocksUsable
<1>1. LayoutInv => BlocksUsable
  <2> SUFFICES ASSUME LayoutInv, NEW b \in blocks
               PROVE  /\ \E m \in mappings \cup heap :
                            Range(b.ptr, b.size) \subseteq Range(m.base, m.length)
                      /\ \A c \in blocks \ {b} : Range(b.ptr, b.size) \cap Range(c.ptr, c.size) = {}
                      /\ \A h \in headers :
                            Range(h.at, sizeofAllocHeader) \cap Range(b.ptr, b.size) = {}
    BY DEF BlocksUsable
  <2>1. \A c \in blocks : c.ptr \in Nat /\ c.size \in Nat /\ 0 < c.size
    BY DEF LayoutInv, Layout, BlocksInv
  <2>2. \A m \in mappings \cup heap : m.base \in Nat /\ m.length \in Nat /\ 0 < m.length
    BY DEF LayoutInv, Layout, PlacesInv, Place
  <2>3. PICK n \in mappings \cup heap : Inside(b, n)
    BY DEF LayoutInv, Layout, BlocksInv
  <2>4. Range(b.ptr, b.size) \subseteq Range(n.base, n.length)
    BY <2>1, <2>2, <2>3 DEF Inside, Range
  <2>5. Holds(n, b)
    BY <2>1, <2>2, <2>3 DEF Inside, Holds
  <2>6. ASSUME NEW c \in blocks \ {b} PROVE Range(b.ptr, b.size) \cap Range(c.ptr, c.size) = {}
    <3>1. PICK m \in mappings \cup heap : Inside(c, m)
      BY DEF LayoutInv, Layout, BlocksInv
    <3>2. Holds(m, c)
      BY <2>1, <2>2, <3>1 DEF Inside, Holds
    <3>3. m # n
      BY <2>5, <3>2 DEF LayoutInv, Layout, BlocksInv
    <3>4. Apart(m, n)
      BY <3>3 DEF LayoutInv, Layout, PlacesInv
    <3> QED BY <2>1, <2>2, <2>3, <3>1, <3>4 DEF Apart, Inside, Range
  <2>7. ASSUME NEW h \in headers
        PROVE  Range(h.at, sizeofAllocHeader) \cap Range(b.ptr, b.size) = {}
    <3>1. /\ h.at \in Nat /\ h.total_size \in Nat /\ sizeofAllocHeader < h.total_size
          /\ MappingOf(h) \in mappings /\ h.total_size <= MappingOf(h).length
          /\ sizeofAllocHeader \in Nat
      BY SizesAssumption DEF LayoutInv, Layout, HeadersInv, sizeofAllocHeader
    <3>2. PICK m \in mappings : m = MappingOf(h)
      BY <3>1
    <3>3. m.base = h.at /\ h.total_size <= m.length
      BY <3>1, <3>2 DEF MappingOf, Mapping
    <3>4. CASE m = n
      <4>1. h.at + sizeofAllocHeader <= b.ptr
        BY <2>5, <3>2, <3>4 DEF LayoutInv, Layout, BlocksInv
      <4> QED BY <2>1, <3>1, <4>1 DEF Range
    <3>5. CASE m # n
      <4>1. Apart(m, n)
        BY <3>5 DEF LayoutInv, Layout, PlacesInv
      <4> QED BY <2>1, <2>2, <2>3, <3>1, <3>3, <4>1 DEF Apart, Inside, Range
    <3> QED BY <3>4, <3>5
  <2> QED BY <2>4, <2>6, <2>7
<1> QED BY <1>1, LayoutInvariance, PTL


(* How a run may end.                                                      *)
Faults == {"none", "assert", "header", "free", "read"}

(* It ends in no other way.                                                *)
LEMMA FaultsNext == ASSUME fault \in Faults, [Next]_vars PROVE fault' \in Faults
BY DEF Faults, Next, Step, Ended, vars, AssertFails, Alloc, AllocBig, Obtain, FreeSmall, FreePages

(* TypeOK: every pointer that a client holds is one of the system's pages  *)
(* or of the C heap, and never null.                                       *)
THEOREM OSAllocatorTypeOK == ASSUME AlignmentsFitPages PROVE Spec => []TypeOK
<1>1. Init => fault \in Faults
  BY DEF Init, Faults
<1>2. LayoutInv /\ fault \in Faults => TypeOK
  <2> SUFFICES ASSUME LayoutInv, fault \in Faults PROVE TypeOK
    OBVIOUS
  <2>1. \A m \in mappings \cup heap : /\ m.base \in Nat /\ m.length \in Nat
                                      /\ PAGE_SIZE <= m.base /\ m.base + m.length <= HEAP_END
    <3>1. /\ PAGE_SIZE \in Nat /\ PAGES_END \in Nat /\ HEAP_END \in Nat
          /\ PAGE_SIZE <= PAGES_END /\ PAGES_END <= HEAP_END
      BY SizesAssumption
    <3>2. ASSUME NEW m \in mappings
          PROVE  /\ m.base \in Nat /\ m.length \in Nat
                 /\ PAGE_SIZE <= m.base /\ m.base + m.length <= HEAP_END
      BY <3>1 DEF LayoutInv, Layout, PlacesInv, Place
    <3>3. ASSUME NEW m \in heap
          PROVE  /\ m.base \in Nat /\ m.length \in Nat
                 /\ PAGE_SIZE <= m.base /\ m.base + m.length <= HEAP_END
      BY <3>1 DEF LayoutInv, Layout, PlacesInv, Place
    <3> QED BY <3>2, <3>3
  <2>2. ASSUME NEW b \in blocks
        PROVE  b \in [ptr : PAGE_SIZE .. HEAP_END - 1, size : Nat, alignment : Nat]
    <3>1. PICK m \in mappings \cup heap : Inside(b, m)
      BY DEF LayoutInv, Layout, BlocksInv
    <3>2. b \in [ptr : Nat, size : Nat, alignment : Nat] /\ 0 < b.size
      BY DEF LayoutInv, Layout, BlocksInv
    <3>3. b.ptr \in PAGE_SIZE .. HEAP_END - 1
      BY <2>1, <3>1, <3>2, SizesAssumption DEF Inside
    <3> QED BY <3>2, <3>3
  <2> QED BY <2>2 DEF TypeOK, Faults, LayoutInv, Layout, PlacesInv, HeadersInv, Place
<1>3. fault \in Faults /\ [Next]_vars => (fault \in Faults)'
  BY FaultsNext
<1> QED BY <1>1, <1>2, <1>3, LayoutInvariance, PTL DEF Spec

-------------------------------------------------------------------------------
(* What OS_Free gives back.                                                *)

(* Places are apart, so that only one of them holds a block.               *)
LEMMA OneHolder ==
    ASSUME LayoutInv, NEW b \in blocks, NEW m \in mappings \cup heap,
           NEW n \in mappings \cup heap, Holds(m, b), Holds(n, b)
    PROVE  m = n
<1>1. b.ptr \in Nat /\ m.base \in Nat /\ m.length \in Nat /\ n.base \in Nat /\ n.length \in Nat
  BY DEF LayoutInv, Layout, PlacesInv, Place, BlocksInv
<1>2. m # n => Apart(m, n)
  BY DEF LayoutInv, Layout, PlacesInv
<1> QED BY <1>1, <1>2 DEF Holds, Apart

(* OS_AllocBigPage is not asked for less than a page: OS_Free would call   *)
(* free for it.                                                            *)
BigPagesArePages == \A r \in BigRequests : r.size >= PAGE_SIZE

(* A block of less than a page begins where one of aligned_alloc does.     *)
SmallInv ==
    /\ fault # "free"
    /\ \A b \in blocks : b.size < PAGE_SIZE => \E m \in heap : m.base = b.ptr

(* aligned_alloc gives what free will take, and mmap is not asked for less *)
(* than a page.                                                            *)
LEMMA SmallNext ==
    ASSUME AlignmentsFitPages, BigPagesArePages, LayoutInv, SmallInv, [Next]_vars
    PROVE  SmallInv'
<1>1. CASE UNCHANGED <<heap, blocks>> /\ fault' # "free"
  BY <1>1 DEF SmallInv
<1>2. ASSUME NEW r \in Requests, Alloc(r) PROVE SmallInv'
  <2>1. CASE UNCHANGED <<mappings, headers, heap, blocks>>
    BY <1>2, <2>1, AllocEffect DEF SmallInv
  <2>2. ASSUME NEW o \in OS_Alloc(r), o # Nullptr,
               heap' = heap \cup o.taken, blocks' = blocks \cup {Block(r, o.ptr)}
        PROVE  SmallInv'
    <3>1. r.size \in Nat /\ PAGE_SIZE \in Nat
      BY AlignmentNat, SizesAssumption
    <3>2. r.size >= PAGE_SIZE \/ \E n : o.taken = {n} /\ n.base = o.ptr
      BY <2>2, OutcomeShape DEF SmallPlace, PagePlace
    <3>3. fault' # "free"
      BY <1>2, AllocEffect DEF SmallInv
    <3> QED BY <2>2, <3>1, <3>2, <3>3 DEF SmallInv, Block
  <2> QED BY <1>2, <2>1, <2>2, AllocEffect
<1>3. ASSUME NEW r \in BigRequests, AllocBig(r) PROVE SmallInv'
  <2>1. /\ r.size \in Nat /\ PAGE_SIZE \in Nat /\ r.size >= PAGE_SIZE
    BY AlignmentNat, SizesAssumption DEF BigPagesArePages
  <2>2. \A b \in blocks' : b \in blocks \/ b.size = r.size
    BY <1>3, BigLayout
  <2>3. heap \subseteq heap' /\ fault' # "free"
    BY <1>3 DEF AllocBig, Obtain, SmallInv
  <2> QED BY <2>1, <2>2, <2>3 DEF SmallInv
<1>4. ASSUME NEW b \in blocks, FreeSmall(b) PROVE SmallInv'
  <2>1. PICK n \in heap : n.base = b.ptr
    BY <1>4 DEF FreeSmall, SmallInv
  <2>2. fault' # "free"
    BY <1>4, <2>1 DEF FreeSmall, SmallInv
  <2>3. ASSUME NEW c \in blocks \ {b}, c.size < PAGE_SIZE
        PROVE  \E m \in heap' : m.base = c.ptr
    <3>1. PICK m \in heap : m.base = c.ptr
      BY <2>3 DEF SmallInv
    <3>2. m.base # b.ptr
      <4> SUFFICES ASSUME m.base = b.ptr PROVE FALSE
        OBVIOUS
      <4>1. Holds(m, b) /\ Holds(m, c)
        BY <3>1 DEF Holds, LayoutInv, Layout, PlacesInv, Place
      <4> QED BY <4>1 DEF LayoutInv, Layout, BlocksInv
    <3> QED BY <1>4, <3>1, <3>2 DEF FreeSmall
  <2> QED BY <1>4, <2>2, <2>3 DEF FreeSmall, SmallInv
<1>5. ASSUME NEW b \in blocks, FreePages(b) PROVE SmallInv'
  BY <1>5 DEF FreePages, SmallInv
<1> QED
  BY <1>1, <1>2, <1>3, <1>4, <1>5 DEF Next, Step, Ended, vars, AssertFails, SmallInv

(* NoBadFree of OS_Free: free is called for blocks of aligned_alloc only,  *)
(* if OS_AllocBigPage is not asked for less than a page.                   *)
THEOREM NoFreeIsBad ==
    ASSUME AlignmentsFitPages, BigPagesArePages PROVE Spec => []NoBadFree
<1>1. Init => SmallInv
  BY DEF Init, SmallInv
<1>2. SmallInv => NoBadFree
  BY DEF SmallInv, NoBadFree
<1> QED BY <1>1, <1>2, SmallNext, LayoutInvariance, PTL DEF Spec

(* Alignments up to that of AllocHeader, such as operator new asks for,    *)
(* and no call of OS_AllocBigPage: then OS_Free finds every header.        *)
HeadersAdjoin ==
    /\ BigRequests = {}
    /\ \A r \in Requests : sizeofAllocHeader % alignment_of(r) = 0

(* The header of a block made of pages lies right before it.               *)
FoundInv ==
    \A b \in blocks : b.size >= PAGE_SIZE =>
        \E h \in headers : /\ h.at = header_addr(b.ptr) /\ Holds(MappingOf(h), b)
                           /\ b.ptr < h.at + h.total_size

(* All that was obtained holds a block.                                    *)
KeptInv == fault = "none" => \A m \in mappings \cup heap : \E b \in blocks : Holds(m, b)

(* A header of the size of its alignment ends where the block begins.      *)
LEMMA FoundAlloc ==
    ASSUME AlignmentsFitPages, HeadersAdjoin, LayoutInv, FoundInv, NEW r \in Requests, Alloc(r)
    PROVE  FoundInv'
<1>1. CASE UNCHANGED <<mappings, headers, heap, blocks>>
  BY <1>1 DEF FoundInv
<1>2. ASSUME NEW o \in OS_Alloc(r), o # Nullptr, headers' = headers \cup o.written,
             blocks' = blocks \cup {Block(r, o.ptr)}
      PROVE  FoundInv'
  <2> DEFINE b == Block(r, o.ptr)
  <2>1. b.ptr = o.ptr /\ b.size = r.size /\ r.size \in Nat /\ PAGE_SIZE \in Nat /\ 0 < r.size
    BY <1>2, AlignmentNat, SizesAssumption, OutcomeShape DEF Block
  <2> HIDE DEF b
  <2>2. ASSUME r.size >= PAGE_SIZE
        PROVE  \E h \in o.written : /\ h.at = header_addr(b.ptr) /\ Holds(MappingOf(h), b)
                                    /\ b.ptr < h.at + h.total_size
    <3>1. PICK n \in Place : PagePlace(r, o, n) /\ Inside(b, n)
      BY <1>2, <2>1, <2>2, OutcomeShape DEF SmallPlace, b
    <3>2. PICK w \in [at : Nat, base_ptr : Nat, total_size : Nat] :
             /\ o.written = {w} /\ w.at = n.base /\ MappingOf(w) = n
             /\ o.ptr + r.size <= n.base + w.total_size
      BY <3>1 DEF PagePlace
    <3>3. header_size(alignment_of(r)) = sizeofAllocHeader /\ sizeofAllocHeader \in Nat
      BY AlignmentNat, AlignUpOfMultiple DEF header_size, HeadersAdjoin
    <3>4. o.ptr = n.base + sizeofAllocHeader /\ n.base \in Nat /\ n.length \in Nat
      BY <3>1, <3>3 DEF PagePlace, Place
    <3>5. w.at = header_addr(b.ptr)
      BY <2>1, <3>2, <3>3, <3>4 DEF header_addr
    <3>6. Holds(n, b) /\ b.ptr < w.at + w.total_size
      BY <2>1, <3>1, <3>2, <3>3, <3>4 DEF Inside, Holds
    <3> QED BY <3>2, <3>5, <3>6
  <2> QED BY <1>2, <2>1, <2>2 DEF FoundInv, b
<1> QED BY <1>1, <1>2, AllocEffect

(* What is given back with one block is not the header of another.         *)
LEMMA FoundFree ==
    ASSUME LayoutInv, FoundInv, NEW b \in blocks, FreeSmall(b) \/ FreePages(b)
    PROVE  FoundInv'
<1>1. blocks' = blocks \ {b}
  BY DEF FreeSmall, FreePages
<1>2. CASE UNCHANGED headers
  BY <1>1, <1>2 DEF FoundInv
<1>3. CASE Unmap(ReadHeader(header_addr(b.ptr)))
  <2>1. PICK h : h = ReadHeader(header_addr(b.ptr))
    OBVIOUS
  <2> DEFINE gone == {m \in mappings : m = Mapping(h.base_ptr, h.total_size, PAGE_SIZE)}
  <2>2. headers' = {g \in headers : g.at \notin MemoryOf(gone)}
    BY <1>3, <2>1 DEF Unmap
  <2>3. \A m \in gone : Holds(m, b)
    BY <2>1, UnmapGone
  <2> HIDE DEF gone
  <2>4. ASSUME NEW c \in blocks \ {b}, NEW g \in headers, Holds(MappingOf(g), c)
        PROVE  g \in headers'
    <3> SUFFICES ASSUME g.at \in MemoryOf(gone) PROVE FALSE
      BY <2>2
    <3>1. PICK m \in gone : g.at \in Range(m.base, m.length)
      BY DEF MemoryOf
    <3>2. PICK n \in mappings : n = MappingOf(g) /\ n.base = g.at
      BY DEF LayoutInv, Layout, HeadersInv, MappingOf, Mapping
    <3>3. m \in mappings
      BY DEF gone
    <3>4. /\ m.base \in Nat /\ m.length \in Nat /\ n.base \in Nat /\ n.length \in Nat
          /\ 0 < n.length
      BY <3>3 DEF LayoutInv, Layout, PlacesInv, Place
    <3>5. m = n
      BY <3>1, <3>2, <3>3, <3>4 DEF Range, Apart, LayoutInv, Layout, PlacesInv
    <3> QED BY <2>3, <2>4, <3>2, <3>5 DEF LayoutInv, Layout, BlocksInv
  <2> QED BY <1>1, <2>4 DEF FoundInv
<1> QED BY <1>2, <1>3 DEF FreeSmall, FreePages

(* What is given back is all that was obtained for the block, unless the   *)
(* run ends.                                                               *)
LEMMA KeptFree ==
    ASSUME LayoutInv, FoundInv, KeptInv, fault = "none", NEW b \in blocks,
           FreeSmall(b) \/ FreePages(b)
    PROVE  KeptInv'
<1>1. blocks' = blocks \ {b}
  BY DEF FreeSmall, FreePages
<1>2. ASSUME NEW n \in mappings \cup heap, Holds(n, b),
             NEW m \in mappings \cup heap, m # n
      PROVE  \E c \in blocks' : Holds(m, c)
  <2>1. PICK c \in blocks : Holds(m, c)
    BY DEF KeptInv
  <2>2. c # b
    BY <1>2, <2>1, OneHolder
  <2> QED BY <1>1, <2>1, <2>2
<1>3. CASE FreeSmall(b) /\ fault' = "none"
  <2>1. PICK n \in heap : n.base = b.ptr
    BY <1>3 DEF FreeSmall
  <2>2. Holds(n, b)
    BY <2>1 DEF Holds, LayoutInv, Layout, PlacesInv, Place
  <2>3. \A m \in mappings' \cup heap' : m \in mappings \cup heap /\ m # n
    <3>1. mappings' = mappings /\ heap' = {m \in heap : m.base # b.ptr}
      BY <1>3 DEF FreeSmall
    <3>2. n \notin mappings
      BY SizesAssumption DEF LayoutInv, Layout, PlacesInv, Place
    <3> QED BY <2>1, <3>1, <3>2
  <2> QED BY <1>2, <2>1, <2>2, <2>3 DEF KeptInv
<1>4. CASE FreePages(b) /\ fault' = "none"
  <2>1. PICK h : h = ReadHeader(header_addr(b.ptr))
    OBVIOUS
  <2> DEFINE gone == {m \in mappings : m = Mapping(h.base_ptr, h.total_size, PAGE_SIZE)}
  <2>2. mappings' = mappings \ gone /\ heap' = heap
    BY <1>4, <2>1 DEF FreePages, Unmap
  <2>3. h \in headers /\ h.at = header_addr(b.ptr)
    BY <1>4, <2>1, HeaderRead DEF FreePages, FoundInv
  <2>4. gone = {MappingOf(h)} /\ \A m \in gone : Holds(m, b)
    BY <2>1, <2>3, UnmapGone
  <2> HIDE DEF gone
  <2>5. MappingOf(h) \in mappings
    BY <2>3 DEF LayoutInv, Layout, HeadersInv
  <2>6. MappingOf(h) \notin heap
    BY <2>5, SizesAssumption DEF LayoutInv, Layout, PlacesInv, Place
  <2>7. \A m \in mappings' \cup heap' : m \in mappings \cup heap /\ m # MappingOf(h)
    BY <2>2, <2>4, <2>6
  <2> QED BY <1>2, <2>4, <2>5, <2>7 DEF KeptInv
<1> QED BY <1>3, <1>4 DEF KeptInv

(* What is obtained holds the new block.                                   *)
LEMMA KeptAlloc ==
    ASSUME AlignmentsFitPages, LayoutInv, KeptInv, NEW r \in Requests, Alloc(r)
    PROVE  KeptInv'
<1>1. CASE UNCHANGED <<mappings, headers, heap, blocks>>
  BY <1>1, AllocEffect DEF KeptInv
<1>2. ASSUME NEW o \in OS_Alloc(r), o # Nullptr,
             mappings' = mappings \cup o.mapped, heap' = heap \cup o.taken,
             blocks' = blocks \cup {Block(r, o.ptr)}
      PROVE  KeptInv'
  <2> DEFINE b == Block(r, o.ptr)
  <2>1. b.ptr = o.ptr /\ b.size = r.size /\ r.size \in Nat /\ 0 < r.size
    BY <1>2, AlignmentNat, OutcomeShape DEF Block
  <2> HIDE DEF b
  <2>2. PICK n \in Place : /\ o.mapped \cup o.taken = {n}
                           /\ Inside(b, n)
    BY <1>2, OutcomeShape DEF SmallPlace, PagePlace, b
  <2>3. o.ptr \in Nat
    BY <1>2, OutcomePtr
  <2>4. Holds(n, b)
    BY <2>1, <2>2, <2>3 DEF Inside, Holds, Place
  <2>5. mappings' \cup heap' = (mappings \cup heap) \cup {n}
    BY <1>2, <2>2
  <2>6. fault' = "none" => fault = "none"
    BY AllocEffect
  <2> QED BY <1>2, <2>4, <2>5, <2>6 DEF KeptInv, b
<1> QED BY <1>1, <1>2, AllocEffect

(* Both invariants, which need each other's LayoutInv.                     *)
LEMMA FoundNext ==
    ASSUME AlignmentsFitPages, HeadersAdjoin, LayoutInv, FoundInv, KeptInv, [Next]_vars
    PROVE  FoundInv' /\ KeptInv'
<1>1. CASE UNCHANGED <<mappings, headers, heap, blocks>> /\ (fault' = "none" => fault = "none")
  BY <1>1 DEF FoundInv, KeptInv
<1>2. ASSUME NEW r \in Requests, Alloc(r) PROVE FoundInv' /\ KeptInv'
  BY <1>2, FoundAlloc, KeptAlloc
<1>3. ASSUME fault = "none", NEW b \in blocks, FreeSmall(b) \/ FreePages(b)
      PROVE  FoundInv' /\ KeptInv'
  BY <1>3, FoundFree, KeptFree
<1>4. BigRequests = {}
  BY DEF HeadersAdjoin
<1> QED BY <1>1, <1>2, <1>3, <1>4 DEF Next, Step, Ended, vars, AssertFails

(* The invariants hold together.                                           *)
LEMMA FoundInvariance ==
    ASSUME AlignmentsFitPages, HeadersAdjoin PROVE Spec => [](LayoutInv /\ FoundInv /\ KeptInv)
<1>1. Init => FoundInv /\ KeptInv
  BY DEF Init, FoundInv, KeptInv
<1>2. LayoutInv /\ FoundInv /\ KeptInv /\ [Next]_vars => FoundInv' /\ KeptInv'
  BY FoundNext
<1> QED BY <1>1, <1>2, LayoutInvariance, PTL DEF Spec

(* HeadersFound of OS_Free: for each block made of pages it reads the      *)
(* header that OS_Alloc wrote for it, and unmaps what the block lies in.   *)
THEOREM HeadersAreFound ==
    ASSUME AlignmentsFitPages, HeadersAdjoin PROVE Spec => []HeadersFound
<1>1. LayoutInv /\ FoundInv => HeadersFound
  <2> SUFFICES ASSUME LayoutInv, FoundInv, NEW b \in blocks, b.size >= PAGE_SIZE,
                      NEW h, h = ReadHeader(header_addr(b.ptr))
               PROVE  /\ Mapping(h.base_ptr, h.total_size, PAGE_SIZE) \in mappings
                      /\ b.ptr \in Range(h.base_ptr, h.total_size)
    BY DEF HeadersFound
  <2>1. PICK g \in headers : /\ g.at = header_addr(b.ptr) /\ Holds(MappingOf(g), b)
                             /\ b.ptr < g.at + g.total_size
    BY DEF FoundInv
  <2>2. h \in headers /\ h.at = header_addr(b.ptr)
    BY <2>1, HeaderRead
  <2>3. h = g
    BY <2>1, <2>2 DEF LayoutInv, Layout, HeadersInv
  <2>4. h.base_ptr = h.at /\ MappingOf(h) \in mappings /\ h.at \in Nat /\ h.total_size \in Nat
    BY <2>2 DEF LayoutInv, Layout, HeadersInv
  <2>5. b.ptr \in Nat /\ sizeofAllocHeader \in Nat
    BY SizesAssumption DEF LayoutInv, Layout, BlocksInv, sizeofAllocHeader
  <2>6. h.at <= b.ptr
    BY <2>2, <2>4, <2>5 DEF header_addr
  <2> QED BY <2>1, <2>3, <2>4, <2>5, <2>6 DEF MappingOf, Range
<1> QED BY <1>1, FoundInvariance, PTL

(* NothingLost of OS_Alloc and OS_Free: what the system gave belongs to a  *)
(* block that a client still holds.                                        *)
THEOREM NothingIsLost ==
    ASSUME AlignmentsFitPages, HeadersAdjoin PROVE Spec => []NothingLost
<1>1. LayoutInv /\ KeptInv => NothingLost
  <2> SUFFICES ASSUME LayoutInv, KeptInv, fault = "none", NEW m \in mappings \cup heap
               PROVE  \E b \in blocks : b.ptr \in Range(m.base, m.length)
    BY DEF NothingLost
  <2>1. PICK b \in blocks : Holds(m, b)
    BY DEF KeptInv
  <2>2. b.ptr \in Nat /\ m.base \in Nat /\ m.length \in Nat
    BY DEF LayoutInv, Layout, PlacesInv, Place, BlocksInv
  <2> QED BY <2>1, <2>2 DEF Holds, Range
<1> QED BY <1>1, FoundInvariance, PTL

===============================================================================
