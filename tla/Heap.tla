-------------------------------- MODULE Heap --------------------------------
(***************************************************************************)
(* The kernel heap of memory/heap.rs: a first-fit free list that lives in  *)
(* the free blocks themselves, and heap::init, which backs the region with *)
(* frames page by page before it arms the allocator.  ALLOCATOR is behind  *)
(* a SpinMutex, so alloc and dealloc are single steps.                     *)
(*                                                                         *)
(* Addresses are byte offsets from HEAP_START, which is page aligned.      *)
(* alloc_frame and paging::map are the modules FrameAllocator and Paging;  *)
(* here each may fail at any page.                                         *)
(***************************************************************************)
EXTENDS Naturals, Sequences, FiniteSets, SequencesExt

CONSTANTS
  HEAP_SIZE,   \* bytes, a multiple of PAGE_SIZE
  PAGE_SIZE,
  HEADER,      \* size_of::<FreeBlock>()
  ALIGN,       \* align_of::<FreeBlock>()
  Layouts,     \* the layouts callers ask for: [size, align]
  MaxLive      \* bound on the number of live allocations

HeapAssumption ==
  /\ HEAP_SIZE \in Nat /\ PAGE_SIZE \in Nat \ {0} /\ HEAP_SIZE % PAGE_SIZE = 0
  /\ HEAP_SIZE >= HEADER /\ HEADER % ALIGN = 0 /\ PAGE_SIZE % ALIGN = 0
LayoutAssumption == \A l \in Layouts : l.size > 0 /\ l.align > 0

VARIABLES
  phase,    \* "mapping", "armed" or "HeapMappingFailed"
  mapped,   \* bytes of the region backed so far
  free,     \* the free list from head on: [addr, size]
  live      \* history: [ptr, layout] handed out and not given back

vars == <<phase, mapped, free, live>>

InRegion(b) == b.addr \in Nat /\ b.size \in Nat /\ b.addr + b.size <= HEAP_SIZE

TypeOK ==
  /\ phase \in {"mapping", "armed", "HeapMappingFailed"}
  /\ mapped \in 0 .. HEAP_SIZE
  /\ \A i \in DOMAIN free : InRegion(free[i])
  /\ live \subseteq [ptr : 0 .. HEAP_SIZE, layout : Layouts]

Init == phase = "mapping" /\ mapped = 0 /\ free = <<>> /\ live = {}

add_free(list, addr, size) == <<[addr |-> addr, size |-> size]>> \o list

-----------------------------------------------------------------------------
(* heap::init *)

\* Every page is mapped: one free block covers the region.
arm ==
  /\ phase = "mapping" /\ mapped >= HEAP_SIZE
  /\ phase' = "armed"
  /\ free' = add_free(<<>>, 0, HEAP_SIZE)
  /\ UNCHANGED <<mapped, live>>

map_page ==
  /\ phase = "mapping" /\ mapped < HEAP_SIZE
  /\ \/ mapped' = mapped + PAGE_SIZE /\ UNCHANGED phase
     \/ phase' = "HeapMappingFailed" /\ UNCHANGED mapped
  /\ UNCHANGED <<free, live>>

-----------------------------------------------------------------------------
(* alloc and dealloc *)

align_up(a, align) == ((a + align - 1) \div align) * align

\* The layout raised to the alignment of a header, padded to its alignment and
\* raised to the size of a header.
size_align(layout) ==
  LET align == IF layout.align > ALIGN THEN layout.align ELSE ALIGN
      size == align_up(layout.size, align)
  IN  [size |-> IF size > HEADER THEN size ELSE HEADER, align |-> align]

alloc_start(b, sa) == align_up(b.addr, sa.align)
alloc_end(b, sa) == alloc_start(b, sa) + sa.size
prefix(b, sa) == alloc_start(b, sa) - b.addr
excess(b, sa) == b.addr + b.size - alloc_end(b, sa)

\* A block is taken only if what is left before and after the allocation is
\* nothing or a free block.
Fits(b, sa) ==
  /\ alloc_end(b, sa) <= b.addr + b.size
  /\ excess(b, sa) = 0 \/ excess(b, sa) >= HEADER
  /\ prefix(b, sa) = 0 \/ prefix(b, sa) >= HEADER

\* Bug: the prefix in front of an aligned allocation is dropped.
Republished_tail_only(list, b, sa) ==
  IF excess(b, sa) > 0 THEN add_free(list, alloc_end(b, sa), excess(b, sa)) ELSE list

\* The prefix, then the suffix, pushed on the list the block was taken from.
Republished(list, b, sa) ==
  LET front == IF prefix(b, sa) > 0 THEN add_free(list, b.addr, prefix(b, sa)) ELSE list
  IN  IF excess(b, sa) > 0 THEN add_free(front, alloc_end(b, sa), excess(b, sa)) ELSE front

\* Bug: the block is handed out at its own address, unaligned.
alloc_unaligned(layout) ==
  LET sa == size_align(layout)
  IN  \E i \in DOMAIN free :
        /\ Fits(free[i], sa) /\ \A j \in 1 .. i - 1 : ~Fits(free[j], sa)
        /\ free' = Republished(RemoveAt(free, i), free[i], sa)
        /\ live' = live \cup {[ptr |-> free[i].addr, layout |-> layout]}
        /\ UNCHANGED <<phase, mapped>>

alloc(layout) ==
  LET sa == size_align(layout)
  IN  \E i \in DOMAIN free :
        /\ Fits(free[i], sa) /\ \A j \in 1 .. i - 1 : ~Fits(free[j], sa)
        /\ free' = Republished(RemoveAt(free, i), free[i], sa)
        /\ live' = live \cup {[ptr |-> alloc_start(free[i], sa), layout |-> layout]}
        /\ UNCHANGED <<phase, mapped>>

\* The caller passes the layout it allocated with.  No coalescing.
dealloc(a) ==
  /\ free' = add_free(free, a.ptr, size_align(a.layout).size)
  /\ live' = live \ {a}
  /\ UNCHANGED <<phase, mapped>>

Next ==
  \/ map_page
  \/ arm
  \/ \E layout \in Layouts : Cardinality(live) < MaxLive /\ alloc(layout)
  \/ \E a \in live : dealloc(a)

Spec == Init /\ [][Next]_vars

-----------------------------------------------------------------------------
Within(byte, addr, size) == addr <= byte /\ byte < addr + size

\* Once armed, the region is backed in full and tiled by free blocks, each
\* with room for its header, and live allocations: every byte belongs to
\* exactly one of them, so no two callers share memory, no header is written
\* into an allocation, and no byte is lost, whatever the order of splits and
\* frees.  The contract of GlobalAlloc::alloc holds too: a pointer is aligned
\* as its layout asks, and the bytes the layout asks for are in the heap and
\* overlap no other allocation's.
HeapTiled ==
  phase = "armed" =>
    /\ mapped = HEAP_SIZE
    /\ \A a \in live :
         /\ a.ptr % a.layout.align = 0
         /\ a.ptr + a.layout.size <= HEAP_SIZE
         /\ \A b \in live \ {a} : \/ a.ptr + a.layout.size <= b.ptr
                                  \/ b.ptr + b.layout.size <= a.ptr
    /\ \A i \in DOMAIN free : free[i].size >= HEADER /\ free[i].addr % ALIGN = 0
    /\ \A byte \in 0 .. HEAP_SIZE - 1 :
         Cardinality({i \in DOMAIN free : Within(byte, free[i].addr, free[i].size)})
           + Cardinality({a \in live : Within(byte, a.ptr, size_align(a.layout).size)}) = 1
=============================================================================
