---------------------------- MODULE MemoryBringUp ----------------------------
(***************************************************************************)
(* memory::init over the frame allocator and the page tables: the handoff  *)
(* block is checked, paging learns its offset, the bitmap is filled from   *)
(* the memory map, and heap::init backs the heap page by page with frames  *)
(* it maps through paging::map, before anything may allocate.  The boot    *)
(* thread runs alone until then; afterwards it maps and unmaps other pages *)
(* as any client of Paging.                                                *)
(***************************************************************************)
EXTENDS Paging

CONSTANTS
  Boot,       \* the thread that runs kernel_main
  Handoffs,   \* what boot may leave: [null, magic, null_regions, offset, map]
  HeapRegions \* the pages of the heap, in order: one sequence per configuration

VARIABLES
  at,         \* where init_from_info is, or the error it returned
  info,       \* the handoff it was called with
  heap,       \* the heap's pages
  backed      \* how many of them are mapped

bringUpVars == <<at, info, heap, backed>>

\* BadHandoff stands for the messages of init about the block itself;
\* AlreadyInitialized is returned nowhere.
MemoryInitError == {"BadHandoff", "PagingNotReady", "NoUsableRegions", "BitmapTooSmall", "HeapMappingFailed"}

BringUpInit ==
  /\ PagingInit
  /\ at = "entry"
  /\ info \in Handoffs
  /\ heap \in HeapRegions
  /\ backed = 0

BringUpTypeOK ==
  /\ PagingTypeOK
  /\ at \in {"entry", "paging", "allocator", "frame", "map", "mapping", "online"} \cup MemoryInitError
  /\ backed \in 0 .. Len(heap)

Goto(where) == at' = where /\ UNCHANGED <<info, heap, backed>>

\* The pointer, the magic number and the region array are checked in turn.
memory_init ==
  /\ at = "entry"
  /\ Goto(IF info.null \/ ~info.magic \/ info.null_regions THEN "BadHandoff" ELSE "paging")
  /\ UNCHANGED allVars

paging_init ==
  /\ at = "paging"
  /\ IF info.offset = "MAX" THEN Goto("PagingNotReady") /\ UNCHANGED allVars
     ELSE Goto("allocator") /\ init_paging /\ UNCHANGED seen

allocator_init_from_info ==
  /\ at = "allocator"
  /\ init(info.map)
  /\ Goto(IF init_result' = "Ok" THEN "frame" ELSE init_result')
  /\ UNCHANGED pagingVars

\* heap::init, once around its loop: a frame, the mapping, the result.
heap_frame ==
  /\ at = "frame" /\ backed < Len(heap)
  /\ \/ Goto("map") /\ AllocFrame(Boot) /\ UNCHANGED seen
     \/ Goto("HeapMappingFailed") /\ ReturnsNone /\ UNCHANGED allVars

heap_map ==
  /\ at = "map"
  /\ \E pa \in own[Boot] : lock(Boot, "map", heap[backed + 1], pa, FALSE)
  /\ Goto("mapping")
  /\ UNCHANGED seen

MapStep(t) == next_table(t) \/ create(t) \/ publish(t) \/ map_leaf(t) \/ flush_tlb(t)

heap_mapping == at = "mapping" /\ MapStep(Boot) /\ UNCHANGED <<bringUpVars, seen>>

\* Bug: the result of paging::map is not looked at.
heap_mapped_unchecked ==
  /\ at = "mapping" /\ th[Boot] = Idle
  /\ at' = "frame" /\ backed' = backed + 1 /\ own' = [own EXCEPT ![Boot] = {}]
  /\ UNCHANGED <<info, heap, frames, offset_known, tables, tlb, MAP_LOCK, th, seen>>

\* map returned: the frame is in the tables, or still with the caller.
heap_mapped ==
  /\ at = "mapping" /\ th[Boot] = Idle
  /\ IF own[Boot] = {} THEN at' = "frame" /\ backed' = backed + 1 /\ UNCHANGED <<info, heap>>
     ELSE Goto("HeapMappingFailed")
  /\ UNCHANGED allVars

heap_arm ==
  /\ at = "frame" /\ backed = Len(heap)
  /\ Goto("online")
  /\ UNCHANGED allVars

\* Once online: clients of Paging; nobody but heap::init maps heap pages.
Client ==
  /\ at = "online" /\ UNCHANGED bringUpVars
  /\ CpuAccess \/ Step(Boot)
  /\ th'[Boot].op \in {"map", "unmap"} => th'[Boot].v \notin {heap[i] : i \in DOMAIN heap}
  /\ Observe

BringUpNext ==
  \/ memory_init \/ paging_init \/ allocator_init_from_info
  \/ heap_frame \/ heap_map \/ heap_mapping \/ heap_mapped \/ heap_arm
  \/ Client

BringUpSpec == BringUpInit /\ [][BringUpNext]_<<allVars, bringUpVars>>

-----------------------------------------------------------------------------
\* The heap is memory: from the moment heap::init arms the allocator, every
\* page of it translates to a frame of its own that the frame allocator has
\* handed out and that is no page table and no client's, whatever is mapped
\* next to it later.
HeapBacked ==
  at = "online" =>
    \A i \in DOMAIN heap :
      LET f == Lookup(heap[i])
      IN  /\ f \in held /\ f \notin Linked
          /\ \A t \in Thread : f \notin own[t]
          /\ \A v \in Page \ {heap[i]} : Lookup(v) # f
=============================================================================
