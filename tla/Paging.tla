------------------------------- MODULE Paging -------------------------------
(***************************************************************************)
(* The page tables of memory/paging.rs over the frames of FrameAllocator:  *)
(* map and unmap, which hold MAP_LOCK and walk the tables entry by entry,  *)
(* and translate, which walks them without the lock.  Threads interleave   *)
(* between any two accesses to a table (the kernel is preempted, not       *)
(* parallel); a 64-bit entry is read and written in one step.              *)
(*                                                                         *)
(* A virtual page is the sequence of its table indices, the root's first.  *)
(* The tables are the contents of frames: a fresh frame holds garbage.     *)
(* The clients are the users of the API as heap::init is one: a frame from *)
(* alloc_frame is mapped at one page; unmap gives it back to the caller.   *)
(***************************************************************************)
EXTENDS FrameAllocator

CONSTANTS
  Thread,
  Levels,    \* 4: L4, L3, L2, L1
  Index,     \* the indices of a table used here
  Page,      \* the virtual pages used here
  UserFlag   \* the USER flag of the leaves mapped here: a subset of BOOLEAN

ASSUME PageAssumption == Page \subseteq [1 .. Levels -> Index] /\ UserFlag \subseteq BOOLEAN

\* Tables the bootloader built lie in reserved memory, outside Frame.
Root == MAX_FRAMES          \* the active L4, from CR3
BootL3 == MAX_FRAMES + 1    \* holds one huge page
Table == Frame \cup {Root, BootL3}
HugeRegion == MAX_FRAMES + 2
NoPa == MAX_FRAMES + 3      \* None

Empty == [present |-> FALSE, addr |-> 0, user |-> FALSE, huge |-> FALSE]
Garbage == [present |-> TRUE, addr |-> 0, user |-> TRUE, huge |-> FALSE]
Entry == [present : BOOLEAN, addr : 0 .. HugeRegion, user : BOOLEAN, huge : BOOLEAN]
Zeroed == [i \in Index |-> Empty]

VARIABLES
  offset_known,   \* PHYSICAL_MEMORY_OFFSET # u64::MAX
  tables,         \* the contents of every frame, read as a table
  tlb,            \* translations the CPU may have cached: <<page, frame>>
  MAP_LOCK,       \* {} or {its holder}
  th,             \* what each thread is doing
  own,            \* the frames each client holds unmapped
  seen            \* history: what v resolved to since a thread's walk began

pagingVars == <<offset_known, tables, tlb, MAP_LOCK, th, own, seen>>
allVars == <<vars, pagingVars>>
\* FrameAllocator's variables
frames == vars

Idle == [op |-> "idle", v |-> CHOOSE v \in Page : TRUE, pa |-> NoPa, user |-> FALSE,
         fresh |-> NoPa, table |-> Root, level |-> 1]

\* The translation the bootloader's tables give a page.
BootPa(v) == IF v[1] = 1 /\ v[2] = 1 THEN HugeRegion ELSE NoPa

\* The kernel runs on the bootloader's mappings, so the CPU has them cached.
PagingInit ==
  /\ Init
  /\ offset_known = FALSE
  /\ tables = [t \in Table |->
       CASE t = Root   -> [i \in Index |-> IF i = 1 THEN [Garbage EXCEPT !.addr = BootL3] ELSE Empty]
         [] t = BootL3 -> [i \in Index |-> IF i = 1 THEN [Garbage EXCEPT !.addr = HugeRegion, !.huge = TRUE]
                                                    ELSE Empty]
         [] OTHER      -> [i \in Index |-> Garbage]]
  /\ tlb = {<<v, BootPa(v)>> : v \in {w \in Page : BootPa(w) # NoPa}}
  /\ MAP_LOCK = {}
  /\ th = [t \in Thread |-> Idle]
  /\ own = [t \in Thread |-> {}]
  /\ seen = [t \in Thread |-> {}]

PagingTypeOK ==
  /\ TypeOK
  /\ offset_known \in BOOLEAN
  /\ tables \in [Table -> [Index -> Entry]]
  /\ tlb \subseteq Page \X (0 .. HugeRegion)
  /\ MAP_LOCK \subseteq Thread /\ Cardinality(MAP_LOCK) <= 1
  /\ \A t \in Thread : th[t].table \in Table /\ th[t].level \in 1 .. Levels
  /\ own \in [Thread -> SUBSET Frame]

-----------------------------------------------------------------------------
(* One walk in one step: what the hardware and an uninterrupted translate   *)
(* find.                                                                    *)

Walk[v \in Page, table \in Table, level \in 1 .. Levels] ==
  LET e == tables[table][v[level]]
  IN  IF ~e.present THEN NoPa
      ELSE IF e.huge \/ level = Levels THEN e.addr
      ELSE Walk[v, e.addr, level + 1]

Lookup(v) == Walk[v, Root, 1]

Entered(t) == tables[th[t].table][th[t].v[th[t].level]]

\* The history of what a lock-free walk could have resolved to.
Observe ==
  seen' = [t \in Thread |-> IF th'[t].op = "translate" THEN seen[t] \cup {Lookup(th[t].v)'}
                            ELSE IF th'[t].op = "translated" THEN seen[t] ELSE {}]

\* The guard is dropped and the call returns.
Return(t) ==
  /\ th' = [th EXCEPT ![t] = Idle]
  /\ MAP_LOCK' = MAP_LOCK \ {t}

Descend(t, table) == th' = [th EXCEPT ![t].table = table, ![t].level = @ + 1]

-----------------------------------------------------------------------------
(* map and unmap *)

init_paging == ~offset_known /\ offset_known' = TRUE
               /\ UNCHANGED <<frames, tables, tlb, MAP_LOCK, th, own>>

\* map(v, f, flags) and unmap(v) take the lock and read CR3.  Before
\* paging::init they return NotInitialized and change nothing.
lock(t, op, v, pa, user) ==
  /\ offset_known /\ th[t].op = "idle" /\ MAP_LOCK = {}
  /\ MAP_LOCK' = {t}
  /\ th' = [th EXCEPT ![t] = [Idle EXCEPT !.op = op, !.v = v, !.pa = pa, !.user = user]]
  /\ UNCHANGED <<frames, offset_known, tables, tlb, own>>

map(t) == \E v \in Page, pa \in own[t], user \in UserFlag : lock(t, "map", v, pa, user)
unmap(t) == \E v \in Page : lock(t, "unmap", v, NoPa, FALSE)

\* next_table, and next_table_or_create where the entry is present.
next_table(t) ==
  /\ th[t].op \in {"map", "unmap"} /\ th[t].level < Levels
  /\ Entered(t).present \/ th[t].op = "unmap"
  /\ IF ~Entered(t).present \/ Entered(t).huge
     THEN Return(t)                       \* NotMapped, HugePageConflict
     ELSE Descend(t, Entered(t).addr) /\ UNCHANGED MAP_LOCK
  /\ UNCHANGED <<frames, offset_known, tables, tlb, own>>

\* Bug: the new table is not cleared before it is linked.
create_dirty(t) ==
  /\ th[t].op = "map" /\ th[t].level < Levels /\ ~Entered(t).present
  /\ \/ ReturnsNone /\ Return(t) /\ UNCHANGED <<frames, tables>>
     \/ \E f \in Frame :
          /\ allocate_frame(f)
          /\ th' = [th EXCEPT ![t].op = "publish", ![t].fresh = f]
          /\ UNCHANGED <<tables, MAP_LOCK>>
  /\ UNCHANGED <<offset_known, tlb, own>>

\* next_table_or_create where there is no table yet: a frame is allocated and
\* zeroed, or the call fails with OutOfFrames.
create(t) ==
  /\ th[t].op = "map" /\ th[t].level < Levels /\ ~Entered(t).present
  /\ \/ ReturnsNone /\ Return(t) /\ UNCHANGED <<frames, tables>>
     \/ \E f \in Frame :
          /\ allocate_frame(f)
          /\ tables' = [tables EXCEPT ![f] = Zeroed]
          /\ th' = [th EXCEPT ![t].op = "publish", ![t].fresh = f]
          /\ UNCHANGED MAP_LOCK
  /\ UNCHANGED <<offset_known, tlb, own>>

\* entry.set links the zeroed table; only USER is taken from the leaf's flags.
publish(t) ==
  /\ th[t].op = "publish"
  /\ tables' = [tables EXCEPT ![th[t].table][th[t].v[th[t].level]] =
                  [present |-> TRUE, addr |-> th[t].fresh, user |-> th[t].user, huge |-> FALSE]]
  /\ th' = [th EXCEPT ![t].op = "map", ![t].table = th[t].fresh, ![t].level = @ + 1, ![t].fresh = NoPa]
  /\ UNCHANGED <<frames, offset_known, tlb, MAP_LOCK, own>>

\* Bug: a present leaf is overwritten instead of refused.
map_leaf_overwrites(t) ==
  /\ th[t].op = "map" /\ th[t].level = Levels
  /\ tables' = [tables EXCEPT ![th[t].table][th[t].v[Levels]] =
                  [present |-> TRUE, addr |-> th[t].pa, user |-> th[t].user, huge |-> FALSE]]
  /\ own' = [own EXCEPT ![t] = @ \ {th[t].pa}]
  /\ th' = [th EXCEPT ![t].op = "flush", ![t].pa = NoPa]
  /\ UNCHANGED <<frames, offset_known, tlb, MAP_LOCK>>

map_leaf(t) ==
  /\ th[t].op = "map" /\ th[t].level = Levels
  /\ IF Entered(t).present
     THEN Return(t) /\ UNCHANGED <<tables, own>>     \* AlreadyMapped
     ELSE /\ tables' = [tables EXCEPT ![th[t].table][th[t].v[Levels]] =
                 [present |-> TRUE, addr |-> th[t].pa, user |-> th[t].user, huge |-> FALSE]]
          /\ own' = [own EXCEPT ![t] = @ \ {th[t].pa}]
          /\ th' = [th EXCEPT ![t].op = "flush", ![t].pa = NoPa]
          /\ UNCHANGED MAP_LOCK
  /\ UNCHANGED <<frames, offset_known, tlb>>

unmap_leaf(t) ==
  /\ th[t].op = "unmap" /\ th[t].level = Levels
  /\ IF ~Entered(t).present
     THEN Return(t) /\ UNCHANGED tables              \* NotMapped
     ELSE /\ tables' = [tables EXCEPT ![th[t].table][th[t].v[Levels]] = Empty]
          /\ th' = [th EXCEPT ![t].op = "flush", ![t].pa = Entered(t).addr]
          /\ UNCHANGED MAP_LOCK
  /\ UNCHANGED <<frames, offset_known, tlb, own>>

\* Bug: the cached translation survives.
flush_tlb_none(t) ==
  /\ th[t].op = "flush"
  /\ own' = [own EXCEPT ![t] = @ \cup ({th[t].pa} \ {NoPa})]
  /\ Return(t)
  /\ UNCHANGED <<frames, offset_known, tables, tlb>>

\* invlpg, the guard dropped, and the frame unmap returns in its caller's hands.
flush_tlb(t) ==
  /\ th[t].op = "flush"
  /\ tlb' = {c \in tlb : c[1] # th[t].v}
  /\ own' = [own EXCEPT ![t] = @ \cup ({th[t].pa} \ {NoPa})]
  /\ Return(t)
  /\ UNCHANGED <<frames, offset_known, tables>>

-----------------------------------------------------------------------------
(* translate *)

translate(t) ==
  /\ offset_known /\ th[t].op = "idle"
  /\ \E v \in Page : th' = [th EXCEPT ![t] = [Idle EXCEPT !.op = "translate", !.v = v]]
  /\ UNCHANGED <<frames, offset_known, tables, tlb, MAP_LOCK, own>>

\* Bug: the PRESENT flag of the leaf is not tested.
translate_entry_absent(t) ==
  /\ th[t].op = "translate"
  /\ LET e == Entered(t)
         level == th[t].level
         Found(pa) == th' = [th EXCEPT ![t].op = "translated", ![t].pa = pa]
     IN  IF level = Levels \/ (level > 1 /\ e.huge) THEN Found(e.addr)
         ELSE IF ~e.present THEN Found(NoPa)
         ELSE Descend(t, e.addr)
  /\ UNCHANGED <<frames, offset_known, tables, tlb, MAP_LOCK, own>>

\* One entry is read.  The root's entries are not tested for HUGE_PAGE.
translate_entry(t) ==
  /\ th[t].op = "translate"
  /\ LET e == Entered(t)
         level == th[t].level
         Found(pa) == th' = [th EXCEPT ![t].op = "translated", ![t].pa = pa]
     IN  IF ~e.present THEN Found(NoPa)
         ELSE IF level = Levels \/ (level > 1 /\ e.huge) THEN Found(e.addr)
         ELSE Descend(t, e.addr)
  /\ UNCHANGED <<frames, offset_known, tables, tlb, MAP_LOCK, own>>

translate_return(t) ==
  /\ th[t].op = "translated"
  /\ th' = [th EXCEPT ![t] = Idle]
  /\ UNCHANGED <<frames, offset_known, tables, tlb, MAP_LOCK, own>>

-----------------------------------------------------------------------------
(* The clients, and the CPU, which caches a translation when it uses one.   *)

AllocFrame(t) ==
  /\ th[t].op = "idle" /\ own[t] = {}
  /\ \E f \in Frame : allocate_frame(f) /\ own' = [own EXCEPT ![t] = {f}]
  /\ UNCHANGED <<offset_known, tables, tlb, MAP_LOCK, th>>

\* What was in the frame is still there when it is handed out again.
DeallocFrame(t) ==
  /\ th[t].op = "idle"
  /\ \E f \in own[t] :
       /\ deallocate_frame(f)
       /\ own' = [own EXCEPT ![t] = @ \ {f}]
       /\ tables' = [tables EXCEPT ![f] = [i \in Index |-> Garbage]]
  /\ UNCHANGED <<offset_known, tlb, MAP_LOCK, th>>

CpuAccess ==
  /\ offset_known
  /\ \E v \in Page : Lookup(v) # NoPa /\ tlb' = tlb \cup {<<v, Lookup(v)>>}
  /\ UNCHANGED <<frames, offset_known, tables, MAP_LOCK, th, own>>

allocator_init == /\ offset_known
                  /\ \E regs \in MemoryMaps : init(regs)
                  /\ UNCHANGED <<offset_known, tables, tlb, MAP_LOCK, th, own>>

Step(t) ==
  \/ map(t) \/ unmap(t) \/ next_table(t) \/ create(t) \/ publish(t)
  \/ map_leaf(t) \/ unmap_leaf(t) \/ flush_tlb(t)
  \/ translate(t) \/ translate_entry(t) \/ translate_return(t)
  \/ AllocFrame(t) \/ DeallocFrame(t)

PagingNext ==
  /\ \/ init_paging \/ allocator_init \/ CpuAccess
     \/ \E t \in Thread : Step(t)
  /\ Observe

PagingSpec == PagingInit /\ [][PagingNext]_allVars

-----------------------------------------------------------------------------
\* translate, which takes no lock, returns what the page resolved to at some
\* instant during the walk.
TranslateIsAtomic ==
  \A t \in Thread : th[t].op = "translated" => th[t].pa \in seen[t]

\* The page tables implement AddressSpace: linking a table, a walk in progress
\* and a map that fails half way change no translation of any page; one leaf
\* store changes one.
Space == INSTANCE AddressSpace
           WITH space <- [v \in Page |-> Lookup(v)], Unmapped <- NoPa,
                Inherited <- [v \in Page |-> BootPa(v)]
ImplementsAddressSpace == Space!Spec

TablesAt[level \in 1 .. Levels] ==
  IF level = 1 THEN {Root}
  ELSE UNION {{tables[p][i].addr : i \in {j \in Index : tables[p][j].present /\ ~tables[p][j].huge}}
                : p \in TablesAt[level - 1]}
Linked == UNION {TablesAt[level] : level \in 1 .. Levels}

\* Where a frame that was handed out is: with a client, linked in the tables,
\* or in the hands of a call that has not finished with it.
Places(f) ==
  {<<"own", t>> : t \in {t \in Thread : f \in own[t]}}
    \cup UNION {{<<"entry", p, i>> : i \in {j \in Index : tables[p][j].present /\ tables[p][j].addr = f}}
                 : p \in Linked}
    \cup {<<"call", t>> : t \in {u \in Thread : f = th[u].fresh \/ (th[u].op = "flush" /\ f = th[u].pa)}}

\* A frame is in exactly one place while it is handed out, as a table, as a
\* mapped page or with its client, also after calls that failed half way, and
\* nothing refers to a frame that is free.
FramesAccounted ==
  \A f \in Frame : Cardinality(Places(f)) = IF f \in held THEN 1 ELSE 0

\* The CPU holds no translation the tables do not have, except for the page
\* of a call that is about to invalidate it.
TlbCoherent ==
  \A c \in tlb : c[2] = Lookup(c[1]) \/ \E t \in Thread : th[t].op = "flush" /\ th[t].v = c[1]

\* "we propagate USER so that user-space mappings remain reachable": every
\* entry on the way to a page mapped USER has the flag.
UserPath[v \in Page, table \in Table, level \in 1 .. Levels] ==
  LET e == tables[table][v[level]]
  IN  e.user /\ (level = Levels \/ UserPath[v, e.addr, level + 1])

LeafIsUser[v \in Page, table \in Table, level \in 1 .. Levels] ==
  LET e == tables[table][v[level]]
  IN  e.present /\ IF level = Levels THEN e.user ELSE ~e.huge /\ LeafIsUser[v, e.addr, level + 1]

UserMappingsReachable ==
  \A v \in Page : LeafIsUser[v, Root, 1] => UserPath[v, Root, 1]
=============================================================================
