------------------------------ MODULE MCMemory ------------------------------
(***************************************************************************)
(* Memory: paging over the frame allocator ("paging"), memory::init over   *)
(* both ("bringup"), and the heap's free list ("heap").  The heap calls    *)
(* the other two only in heap::init, where the module Heap lets each call  *)
(* succeed or fail and MemoryBringUp makes it; a behaviour works on one.   *)
(*                                                                         *)
(* Paging has two threads and three pages: two that share the root's table *)
(* only, and one behind the huge page the bootloader mapped.  Three levels *)
(* instead of four: every level but the last is walked by the same code.   *)
(* Four usable frames hold one mapping and its tables plus one, so that    *)
(* frames run out half way through a walk; the bitmap has two words of     *)
(* three.  Bring-up may find all six: enough for a heap of two pages with  *)
(* their tables, or of one and a client's page beside it.                  *)
(*                                                                         *)
(* The heap has the code's header and alignment, a region of three pages,  *)
(* and layouts that need rounding (1 byte), leave an eight-byte tail (24   *)
(* bytes) or need an aligned start (16 and 32).                            *)
(***************************************************************************)
EXTENDS MemoryBringUp, TLC

CONSTANTS Part, HEAP_SIZE, PAGE_SIZE, HEADER, ALIGN, MaxLive

VARIABLES part, phase, mapped, free, live

OneRegion(kind, start, end) == [start |-> start, end |-> end, kind |-> kind]

\* Four frames; and maps with unaligned bounds, overlapping and empty usable
\* regions, a reserved region in the middle of a frame, and frames past the
\* bitmap.
MCMaps ==
  {<<OneRegion("Usable", 0, 8)>>,
   <<OneRegion("Usable", 1, 5), OneRegion("Usable", 3, 7)>>,
   <<OneRegion("Reserved", 0, 3), OneRegion("Usable", 3, 7)>>,
   <<OneRegion("Usable", 2, 2), OneRegion("Usable", 3, 6), OneRegion("Reserved", 6, 8)>>,
   <<OneRegion("Usable", 10, 14), OneRegion("Usable", 0, 2)>>}

Plain == [null |-> FALSE, magic |-> TRUE, null_regions |-> FALSE, offset |-> "set", map |-> <<>>]
MCHandoffs ==
  {[Plain EXCEPT !.null = TRUE], [Plain EXCEPT !.magic = FALSE], [Plain EXCEPT !.null_regions = TRUE],
   [Plain EXCEPT !.offset = "MAX"], Plain, [Plain EXCEPT !.map = <<OneRegion("Usable", 0, 12)>>]}
  \cup {[Plain EXCEPT !.map = m] : m \in MCMaps}
MCHeapRegions == {<<<<0, 0, 0>>>>, <<<<0, 0, 0>>, <<0, 1, 0>>>>, <<<<0, 1, 0>>, <<1, 1, 0>>>>}

MCPages == {<<0, 0, 0>>, <<0, 1, 0>>, <<1, 1, 0>>}
MCPagesUser == {<<0, 0, 0>>, <<0, 0, 1>>}

Layouts == {[size |-> 1, align |-> 1], [size |-> 24, align |-> 8],
            [size |-> 16, align |-> 16], [size |-> 20, align |-> 32]}

KernelHeap == INSTANCE Heap

ASSUME HeapParameters == KernelHeap!HeapAssumption /\ KernelHeap!LayoutAssumption

heapVars == <<phase, mapped, free, live>>

MemoryInit ==
  /\ part \in Part
  /\ BringUpInit /\ KernelHeap!Init
  /\ part = "bringup" \/ (info = Plain /\ Len(heap) = 1)

MemoryNext ==
  /\ UNCHANGED part
  /\ \/ part = "paging" /\ PagingNext /\ UNCHANGED <<bringUpVars, heapVars>>
     \/ part = "bringup" /\ BringUpNext /\ UNCHANGED heapVars
     \/ part = "heap" /\ KernelHeap!Next /\ UNCHANGED <<allVars, bringUpVars>>

MemorySpec == MemoryInit /\ [][MemoryNext]_<<part, allVars, bringUpVars, heapVars>>

\* Bring-up names one thread, but the others do not move in it: no two of its
\* states are permutations of each other, so nothing is identified wrongly.
ThreadSymmetry == Permutations(Thread)

-----------------------------------------------------------------------------
\* Heap: the armed region is backed, free blocks and live allocations tile
\* it, and every allocation is aligned and sized as its layout asks.
HeapTiled == KernelHeap!HeapTiled
=============================================================================
