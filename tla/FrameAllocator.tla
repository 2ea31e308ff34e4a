--------------------------- MODULE FrameAllocator ---------------------------
(***************************************************************************)
(* The physical frame allocator of memory/allocator.rs: a bitmap with one  *)
(* bit per frame, a rotating search over its words, and the counters that  *)
(* stats reports.  A frame is its number.  FRAME_ALLOCATOR is behind a     *)
(* SpinMutex, so each call is one step.                                    *)
(*                                                                         *)
(* `used` is the set of set bits.  Word and frame sizes are constants (64  *)
(* and 4096 in the code).  `held` is history: the frames alloc_frame has   *)
(* handed out and dealloc_frame has not taken back.                        *)
(***************************************************************************)
EXTENDS Naturals, FiniteSets, Sequences

CONSTANTS
  BITMAP_WORDS,   \* words of the bitmap
  WordBits,       \* bits of a word: 64
  FrameSize,      \* Frame::SIZE
  MemoryMaps      \* the memory maps a bootloader may hand over

ASSUME BitmapAssumption == BITMAP_WORDS \in Nat \ {0} /\ WordBits \in Nat \ {0}
ASSUME FrameSizeAssumption == FrameSize \in Nat \ {0}

\* init only tests for Usable: KernelImage and Bootloader count as Reserved.
RegionKind == {"Usable", "Reserved"}
Region == [start : Nat, end : Nat, kind : RegionKind]

ASSUME MapsAssumption == MemoryMaps \subseteq Seq(Region)

\* What MemoryRegionKind means: no byte is of two kinds.
ASSUME KindsAssumption ==
  \A map \in MemoryMaps : \A i, j \in DOMAIN map :
    map[i].kind # map[j].kind =>
      \A byte \in map[i].start .. map[i].end - 1 : ~(map[j].start <= byte /\ byte < map[j].end)

MAX_FRAMES == BITMAP_WORDS * WordBits
Frame == 0 .. MAX_FRAMES - 1
WordIndex == 0 .. BITMAP_WORDS - 1
NoFrame == MAX_FRAMES

VARIABLES
  used, next_search, total_frames, free_frames,   \* BitmapFrameAllocator
  INITIALIZED,                                    \* the once flag
  init_result,   \* what init returned: "none" before it is called
  regions,       \* the memory map init was given
  usable,        \* history: the frames init cleared
  held           \* history: frames out

bitmap == <<used, next_search, total_frames, free_frames>>
vars == <<bitmap, INITIALIZED, init_result, regions, usable, held>>

TypeOK ==
  /\ used \subseteq Frame
  /\ next_search \in WordIndex
  /\ total_frames \in 0 .. MAX_FRAMES
  /\ free_frames \in 0 .. MAX_FRAMES
  /\ INITIALIZED \in BOOLEAN
  /\ init_result \in {"none", "Ok", "BitmapTooSmall", "NoUsableRegions"}
  /\ regions \in Seq(Region)
  /\ usable \subseteq Frame
  /\ held \subseteq Frame

\* BitmapFrameAllocator::new: every frame starts out used.
Init ==
  /\ used = Frame
  /\ next_search = 0
  /\ total_frames = 0
  /\ free_frames = 0
  /\ INITIALIZED = FALSE
  /\ init_result = "none"
  /\ regions = <<>>
  /\ usable = {}
  /\ held = {}

-----------------------------------------------------------------------------
(* init *)

align_up(a) == ((a + FrameSize - 1) \div FrameSize) * FrameSize
align_down(a) == (a \div FrameSize) * FrameSize

\* Bug: a frame that only partly lies in the region is counted in.
frames_of_rounded(r) ==
  IF r.kind # "Usable" THEN {}
  ELSE align_down(r.start) \div FrameSize .. align_up(r.end) \div FrameSize - 1

\* The frames the inner loop visits for a region: the whole frames in it.
frames_of(r) ==
  IF r.kind # "Usable" THEN {}
  ELSE align_up(r.start) \div FrameSize .. align_down(r.end) \div FrameSize - 1

TooBig(r) == \E f \in frames_of(r) : f >= MAX_FRAMES

\* The loop clears frames in order and returns at the first one past the
\* bitmap: a region is reached only if none before it was too big.
Reached(map) == {i \in DOMAIN map : \A j \in 1 .. i - 1 : ~TooBig(map[j])}
Cleared(map) == UNION {frames_of(map[i]) \cap Frame : i \in Reached(map)}

\* A second call is refused (AlreadyInitialized) and changes nothing.
init(map) ==
  /\ ~INITIALIZED
  /\ INITIALIZED' = TRUE
  /\ used' = used \ Cleared(map)
  /\ free_frames' = free_frames + Cardinality(used \cap Cleared(map))
  /\ total_frames' = total_frames + Cardinality(used \cap Cleared(map))
  /\ regions' = map
  /\ usable' = Cleared(map)
  /\ init_result' = IF \E i \in DOMAIN map : TooBig(map[i]) THEN "BitmapTooSmall"
                    ELSE IF \A i \in DOMAIN map : frames_of(map[i]) = {} THEN "NoUsableRegions"
                    ELSE "Ok"
  /\ UNCHANGED <<next_search, held>>

-----------------------------------------------------------------------------
(* allocate_frame and deallocate_frame *)

Word(f) == f \div WordBits
Full(w) == \A f \in Frame : Word(f) = w => f \in used

\* The position of word w in the scan that starts at next_search.
Offset(w) == (w + BITMAP_WORDS - next_search) % BITMAP_WORDS

\* The frame the scan ends at: the lowest clear bit of the first word in scan
\* order that is not u64::MAX; NoFrame when every word is full.
Candidate(f) ==
  /\ f \notin used
  /\ \A g \in Frame \ used : \/ Offset(Word(f)) < Offset(Word(g))
                             \/ Word(f) = Word(g) /\ f <= g

\* Bug: the bit is not set before the frame is handed out.
allocate_frame_unmarked(f) ==
  /\ free_frames # 0
  /\ Candidate(f)
  /\ free_frames' = free_frames - 1
  /\ next_search' = Word(f)
  /\ held' = held \cup {f}
  /\ UNCHANGED <<used, total_frames, INITIALIZED, init_result, regions, usable>>

allocate_frame(f) ==
  /\ free_frames # 0
  /\ Candidate(f)
  /\ used' = used \cup {f}
  /\ free_frames' = free_frames - 1
  /\ next_search' = Word(f)
  /\ held' = held \cup {f}
  /\ UNCHANGED <<total_frames, INITIALIZED, init_result, regions, usable>>

\* None is returned, at once when the count is zero or after a scan of full
\* words.
ReturnsNone == free_frames = 0 \/ \A w \in WordIndex : Full(w)

\* Bug: the bit is cleared but the frame is not counted as free again.
deallocate_frame_uncounted(f) ==
  /\ f \in held
  /\ used' = used \ {f}
  /\ next_search' = Word(f)
  /\ held' = held \ {f}
  /\ UNCHANGED <<free_frames, total_frames, INITIALIZED, init_result, regions, usable>>

\* mark_free counts a frame only when its bit was set.  The contract of
\* deallocate_frame: the frame is one the caller was given.
deallocate_frame(f) ==
  /\ f \in held
  /\ used' = used \ {f}
  /\ free_frames' = free_frames + Cardinality(used \cap {f})
  /\ next_search' = Word(f)
  /\ held' = held \ {f}
  /\ UNCHANGED <<total_frames, INITIALIZED, init_result, regions, usable>>

Next ==
  \/ \E map \in MemoryMaps : init(map)
  \/ \E f \in Frame : allocate_frame(f)
  \/ \E f \in held : deallocate_frame(f)

Spec == Init /\ [][Next]_vars

-----------------------------------------------------------------------------
\* A frame has one owner: the frames init cleared are, at every later moment,
\* either free or held by exactly one caller, and no other frame is ever free
\* or handed out.
OneOwner ==
  /\ held \subseteq used
  /\ Frame \ used = usable \ held
  /\ held \subseteq usable

\* The counters stats reports are exact, so the zero test that lets
\* allocate_frame skip the scan refuses no frame that is there.
CountsExact ==
  /\ free_frames = Cardinality(usable) - Cardinality(held)
  /\ total_frames = Cardinality(usable)

\* allocate_frame returns None only when every usable frame is held.
NoneMeansExhausted == ReturnsNone => held = usable

\* Every byte of a frame the allocator may hand out lies in a usable region of
\* the memory map and in no reserved one: init rounds region bounds inwards.
FreedFramesAreRam ==
  \A f \in usable : \A byte \in f * FrameSize .. (f + 1) * FrameSize - 1 :
    LET Holds(kind) == \E i \in DOMAIN regions :
          regions[i].kind = kind /\ regions[i].start <= byte /\ byte < regions[i].end
    IN  Holds("Usable") /\ ~Holds("Reserved")
=============================================================================
