------------------------ MODULE FrameAllocatorProofs ------------------------
(***************************************************************************)
(* The allocator hands out only what the memory map called usable, to one  *)
(* holder at a time, and its counters are exact, for every bitmap, word    *)
(* and frame size and every memory map.                                    *)
(***************************************************************************)
EXTENDS FrameAllocator, FiniteSetTheorems, TLAPS

(***************************************************************************)
(* The facts above plus where they come from: nothing is usable until init *)
(* has run, and then every clear bit and every held frame is one it freed. *)
(***************************************************************************)
IInv ==
  /\ TypeOK
  /\ OneOwner
  /\ CountsExact
  /\ ~INITIALIZED => usable = {} /\ total_frames = 0 /\ free_frames = 0

\* Multiplication is monotone, in the form the next lemma uses.
LEMMA ProductMonotone ==
  ASSUME NEW a \in Nat, NEW b \in Nat, NEW c \in Nat, a <= b
  PROVE  a * c <= b * c
<1>1. PICK d \in Nat : b = a + d
  BY b - a \in Nat, b = a + (b - a)
<1>2. b * c = a * c + d * c
  BY <1>1
<1>3. a * c \in Nat /\ d * c \in Nat
  OBVIOUS
<1> QED
  BY <1>2, <1>3

\* The word a frame's bit is in (number / 64) is a word of the bitmap.
LEMMA WordInBitmap ==
  ASSUME NEW f \in Frame
  PROVE  Word(f) \in WordIndex
<1> DEFINE q == f \div WordBits
           r == f % WordBits
<1>1. f \in Nat /\ f < BITMAP_WORDS * WordBits
  BY BitmapAssumption DEF Frame, MAX_FRAMES
<1>2. q \in Nat /\ r \in Nat /\ f = q * WordBits + r
  BY <1>1, BitmapAssumption
<1> HIDE DEF q, r
<1>3. q < BITMAP_WORDS
  <2>1. SUFFICES ASSUME q >= BITMAP_WORDS PROVE FALSE
    BY <1>2, BitmapAssumption
  <2>2. q * WordBits >= BITMAP_WORDS * WordBits
    BY <2>1, <1>2, BitmapAssumption, ProductMonotone
  <2> QED
    BY <2>2, <1>1, <1>2, BitmapAssumption
<1> QED
  BY <1>2, <1>3, BitmapAssumption DEF Word, WordIndex, q

\* The bitmap is finite, and so is every set of frames.
LEMMA FramesFinite ==
  ASSUME NEW S \in SUBSET Frame
  PROVE  /\ IsFiniteSet(S)
         /\ Cardinality(S) \in 0 .. MAX_FRAMES
<1>1. MAX_FRAMES \in Nat
  BY BitmapAssumption DEF MAX_FRAMES
<1>2. IsFiniteSet(Frame) /\ Cardinality(Frame) = MAX_FRAMES
  BY <1>1, FS_Interval DEF Frame
<1> QED
  BY <1>1, <1>2, FS_Subset, FS_CardinalityType

-----------------------------------------------------------------------------
\* Before init every frame is used, none is usable and none is held.
LEMMA InitIInv == Init => IInv
<1> SUFFICES ASSUME Init PROVE IInv
  OBVIOUS
<1>1. 0 \in WordIndex /\ 0 \in 0 .. MAX_FRAMES /\ <<>> \in Seq(Region)
  BY BitmapAssumption DEF WordIndex, MAX_FRAMES
<1>2. Cardinality({}) = 0
  BY FS_EmptySet
<1>3. TypeOK
  BY <1>1 DEF Init, TypeOK
<1>4. OneOwner
  BY DEF Init, OneOwner
<1>5. CountsExact
  BY <1>2 DEF Init, CountsExact
<1> QED
  BY <1>3, <1>4, <1>5 DEF Init, IInv

\* init frees exactly the frames it counts.
LEMMA InitStep ==
  ASSUME IInv, NEW map \in MemoryMaps, init(map)
  PROVE  IInv'
<1>1. Cleared(map) \subseteq Frame
  BY DEF Cleared
<1>2. used = Frame /\ held = {} /\ usable = {} /\ total_frames = 0 /\ free_frames = 0
  BY DEF IInv, TypeOK, OneOwner, init
<1>3. used \cap Cleared(map) = Cleared(map)
  BY <1>1, <1>2
<1>4. Cardinality(Cleared(map)) \in 0 .. MAX_FRAMES
  BY <1>1, FramesFinite
<1>5. MAX_FRAMES \in Nat
  BY BitmapAssumption DEF MAX_FRAMES
<1>6. /\ used' = Frame \ Cleared(map) /\ usable' = Cleared(map) /\ held' = {}
      /\ free_frames' = Cardinality(Cleared(map))
      /\ total_frames' = Cardinality(Cleared(map))
      /\ next_search' = next_search /\ regions' = map /\ INITIALIZED'
  BY <1>2, <1>3, <1>4, <1>5 DEF init
<1>7. TypeOK'
  <2>1. init_result' \in {"none", "Ok", "BitmapTooSmall", "NoUsableRegions"}
    BY DEF init
  <2>2. regions' \in Seq(Region)
    BY <1>6, MapsAssumption
  <2>3. INITIALIZED' \in BOOLEAN
    BY DEF init
  <2> QED
    BY <1>1, <1>4, <1>6, <2>1, <2>2, <2>3 DEF IInv, TypeOK
<1>8. OneOwner'
  BY <1>1, <1>6 DEF OneOwner
<1>9. CountsExact'
  BY <1>4, <1>5, <1>6, FS_EmptySet DEF CountsExact
<1> QED
  BY <1>6, <1>7, <1>8, <1>9 DEF IInv

\* A frame handed out leaves the clear bits and joins the held frames.
LEMMA AllocateStep ==
  ASSUME IInv, NEW f \in Frame, allocate_frame(f)
  PROVE  IInv'
<1>1. f \in usable /\ f \notin held
  BY DEF IInv, OneOwner, allocate_frame, Candidate
<1>2. /\ IsFiniteSet(held) /\ Cardinality(held) \in 0 .. MAX_FRAMES
      /\ Cardinality(usable) \in 0 .. MAX_FRAMES
  BY FramesFinite DEF IInv, TypeOK
<1>3. Cardinality(held \cup {f}) = Cardinality(held) + 1
  BY <1>1, <1>2, FS_AddElement
<1>4. Word(f) \in WordIndex /\ MAX_FRAMES \in Nat
  BY WordInBitmap, BitmapAssumption DEF MAX_FRAMES
<1>5. TypeOK'
  <2>1. INITIALIZED' = INITIALIZED
    BY DEF allocate_frame
  <2>2. INITIALIZED' \in BOOLEAN
    BY <2>1 DEF IInv, TypeOK
  <2>3. free_frames' \in 0 .. MAX_FRAMES
    BY <1>4 DEF IInv, TypeOK, allocate_frame
  <2> QED
    BY <1>4, <2>2, <2>3 DEF IInv, TypeOK, allocate_frame
<1>6. OneOwner'
  BY <1>1 DEF IInv, TypeOK, OneOwner, allocate_frame
<1>7. CountsExact'
  BY <1>2, <1>3, <1>4 DEF IInv, TypeOK, CountsExact, allocate_frame
<1>8. INITIALIZED'
  BY <1>1 DEF IInv, allocate_frame
<1> QED
  BY <1>5, <1>6, <1>7, <1>8 DEF IInv

\* A frame given back leaves the held frames and is counted free again.
LEMMA DeallocateStep ==
  ASSUME IInv, NEW f \in held, deallocate_frame(f)
  PROVE  IInv'
<1>1. f \in usable /\ f \in used /\ f \in Frame
  BY DEF IInv, TypeOK, OneOwner
<1>2. /\ IsFiniteSet(held) /\ Cardinality(held) \in 0 .. MAX_FRAMES
      /\ Cardinality(held \ {f}) \in 0 .. MAX_FRAMES
      /\ Cardinality(usable) \in 0 .. MAX_FRAMES
  <2>1. held \in SUBSET Frame /\ held \ {f} \in SUBSET Frame /\ usable \in SUBSET Frame
    BY DEF IInv, TypeOK
  <2> QED
    BY <2>1, FramesFinite
<1>3. Cardinality(held \ {f}) = Cardinality(held) - 1
  BY <1>2, FS_RemoveElement
<1>4. Cardinality(used \cap {f}) = 1
  <2>1. used \cap {f} = {f}
    BY <1>1
  <2> QED
    BY <2>1, FS_Singleton
<1>5. Word(f) \in WordIndex /\ MAX_FRAMES \in Nat
  BY <1>1, WordInBitmap, BitmapAssumption DEF MAX_FRAMES
<1>6. CountsExact'
  BY <1>2, <1>3, <1>4, <1>5 DEF IInv, TypeOK, CountsExact, deallocate_frame
<1>7. TypeOK'
  <2>1. INITIALIZED' = INITIALIZED
    BY DEF deallocate_frame
  <2>2. INITIALIZED' \in BOOLEAN
    BY <2>1 DEF IInv, TypeOK
  <2>3. free_frames' \in 0 .. MAX_FRAMES
    BY <1>2, <1>3, <1>4, <1>5 DEF IInv, TypeOK, CountsExact, deallocate_frame
  <2> QED
    BY <1>5, <2>2, <2>3 DEF IInv, TypeOK, deallocate_frame
<1>8. OneOwner'
  BY <1>1 DEF IInv, TypeOK, OneOwner, deallocate_frame
<1>9. INITIALIZED'
  BY <1>1 DEF IInv, deallocate_frame
<1> QED
  BY <1>6, <1>7, <1>8, <1>9 DEF IInv

\* A frame has one owner and the counters are exact, whatever the sequence of
\* init, alloc_frame and dealloc_frame calls.
THEOREM FramesSafe == Spec => [](TypeOK /\ OneOwner /\ CountsExact)
<1>1. ASSUME IInv, [Next]_vars PROVE IInv'
  <2>1. CASE \E map \in MemoryMaps : init(map)
    BY <1>1, <2>1, InitStep
  <2>2. CASE \E f \in Frame : allocate_frame(f)
    BY <1>1, <2>2, AllocateStep
  <2>3. CASE \E f \in held : deallocate_frame(f)
    BY <1>1, <2>3, DeallocateStep
  <2>4. CASE UNCHANGED vars
    <3>1. INITIALIZED' = INITIALIZED
      BY <2>4 DEF vars
    <3>2. TypeOK'
      BY <1>1, <2>4, <3>1 DEF vars, bitmap, IInv, TypeOK
    <3>3. OneOwner' /\ CountsExact'
      BY <1>1, <2>4 DEF vars, bitmap, IInv, OneOwner, CountsExact
    <3>4. (~INITIALIZED => usable = {} /\ total_frames = 0 /\ free_frames = 0)'
      BY <1>1, <2>4, <3>1 DEF vars, bitmap, IInv
    <3> QED
      BY <3>2, <3>3, <3>4 DEF IInv
  <2> QED
    BY <1>1, <2>1, <2>2, <2>3, <2>4 DEF Next
<1>2. IInv => TypeOK /\ OneOwner /\ CountsExact
  BY DEF IInv
<1> QED
  BY <1>1, <1>2, InitIInv, PTL DEF Spec

\* alloc_frame never refuses a frame that is there: neither the zero count
\* that skips the scan nor a full scan returns None while a frame is free.
THEOREM NoneIsExhaustion == Spec => []NoneMeansExhausted
<1>1. TypeOK /\ OneOwner /\ CountsExact => NoneMeansExhausted
  <2> SUFFICES ASSUME TypeOK, OneOwner, CountsExact, ReturnsNone
               PROVE  held = usable
    BY DEF NoneMeansExhausted
  <2>1. CASE free_frames = 0
    <3>1. IsFiniteSet(usable)
      BY FramesFinite DEF TypeOK
    <3>2. Cardinality(held) = Cardinality(usable)
      <4>1. Cardinality(held) \in Nat /\ Cardinality(usable) \in Nat
        BY FramesFinite DEF TypeOK
      <4> QED
        BY <2>1, <4>1 DEF CountsExact
    <3> QED
      BY <3>1, <3>2, FS_Subset DEF OneOwner
  <2>2. CASE \A w \in WordIndex : Full(w)
    <3>1. \A f \in Frame : f \in used
      BY <2>2, WordInBitmap DEF Full
    <3> QED
      BY <3>1 DEF OneOwner
  <2> QED
    BY <2>1, <2>2 DEF ReturnsNone
<1> QED
  BY <1>1, FramesSafe, PTL

-----------------------------------------------------------------------------
\* What align_up and align_down are divided by is the number of a frame at or
\* above, and at or below, the address.
LEMMA Rounding ==
  ASSUME NEW a \in Nat
  PROVE  /\ align_up(a) \div FrameSize \in Nat /\ (align_up(a) \div FrameSize) * FrameSize >= a
         /\ align_down(a) \div FrameSize \in Nat /\ (align_down(a) \div FrameSize) * FrameSize <= a
<1>1. FrameSize \in Nat \ {0}
  BY FrameSizeAssumption
<1>2. ASSUME NEW q \in Nat PROVE (q * FrameSize) \div FrameSize = q
  <2> DEFINE p == q * FrameSize
             d == p \div FrameSize
             r == p % FrameSize
  <2>1. p \in Nat
    BY <1>1
  <2> HIDE DEF p
  <2>2. d \in Nat /\ r \in Nat /\ r < FrameSize /\ p = d * FrameSize + r
    BY <1>1, <2>1
  <2> HIDE DEF d, r
  <2>3. ~(d < q)
    <3> SUFFICES ASSUME d < q PROVE FALSE
      OBVIOUS
    <3>1. d + 1 <= q /\ d + 1 \in Nat
      BY <2>2
    <3>2. (d + 1) * FrameSize <= q * FrameSize
      BY <1>1, <3>1, ProductMonotone
    <3> QED BY <1>1, <2>1, <2>2, <3>2 DEF p
  <2>4. ~(d > q)
    <3> SUFFICES ASSUME d > q PROVE FALSE
      OBVIOUS
    <3>1. q + 1 <= d /\ q + 1 \in Nat
      BY <2>2
    <3>2. (q + 1) * FrameSize <= d * FrameSize
      BY <1>1, <2>2, <3>1, ProductMonotone
    <3> QED BY <1>1, <2>1, <2>2, <3>2 DEF p
  <2> QED BY <2>2, <2>3, <2>4 DEF d, p
<1>3. ASSUME NEW b \in Nat
      PROVE  LET q == b \div FrameSize IN q \in Nat /\ q * FrameSize <= b /\ b < q * FrameSize + FrameSize
  BY <1>1
<1>4. a + FrameSize - 1 \in Nat
  BY <1>1
<1> DEFINE u == (a + FrameSize - 1) \div FrameSize
           w == a \div FrameSize
<1>5. u \in Nat /\ a + FrameSize - 1 < u * FrameSize + FrameSize
  BY <1>3, <1>4
<1>6. w \in Nat /\ w * FrameSize <= a
  BY <1>3
<1> HIDE DEF u, w
<1>7. u * FrameSize >= a
  BY <1>1, <1>5
<1>8. align_up(a) \div FrameSize = u /\ align_down(a) \div FrameSize = w
  BY <1>2, <1>5, <1>6 DEF align_up, align_down, u, w
<1> QED BY <1>5, <1>6, <1>7, <1>8

\* The frames init visits for a region lie in it whole.
LEMMA WholeFrames ==
  ASSUME NEW r \in Region, NEW f \in frames_of(r),
         NEW byte \in f * FrameSize .. (f + 1) * FrameSize - 1
  PROVE  r.kind = "Usable" /\ r.start <= byte /\ byte < r.end
<1> DEFINE u == align_up(r.start) \div FrameSize
           w == align_down(r.end) \div FrameSize
<1>1. r.start \in Nat /\ r.end \in Nat /\ FrameSize \in Nat
  BY FrameSizeAssumption DEF Region
<1>2. u \in Nat /\ u * FrameSize >= r.start /\ w \in Nat /\ w * FrameSize <= r.end
  BY <1>1, Rounding
<1>3. r.kind = "Usable" /\ f \in u .. w - 1
  BY DEF frames_of
<1> HIDE DEF u, w
<1>4. f \in Nat /\ u <= f /\ f + 1 <= w /\ f + 1 \in Nat
  BY <1>2, <1>3
<1>5. u * FrameSize <= f * FrameSize /\ (f + 1) * FrameSize <= w * FrameSize
  BY <1>1, <1>2, <1>4, ProductMonotone
<1>6. /\ u * FrameSize \in Nat /\ f * FrameSize \in Nat
      /\ (f + 1) * FrameSize \in Nat /\ w * FrameSize \in Nat
  BY <1>1, <1>2, <1>4
<1> QED BY <1>1, <1>2, <1>3, <1>5, <1>6

\* Where the frames the allocator owns came from.
Provenance == usable # {} => regions \in MemoryMaps /\ usable = Cleared(regions)

\* Every byte behind a frame the allocator hands out is RAM the memory map
\* calls usable: however region bounds are aligned, init takes no frame that
\* reaches past one, and nothing it does later adds a frame.
THEOREM OnlyRamFreed == Spec => []FreedFramesAreRam
<1>1. Init => Provenance
  BY DEF Init, Provenance
<1>2. ASSUME Provenance, [Next]_vars PROVE Provenance'
  <2>1. CASE \E map \in MemoryMaps : init(map)
    BY <2>1 DEF init, Provenance
  <2>2. CASE UNCHANGED <<usable, regions>>
    BY <1>2, <2>2 DEF Provenance, Cleared, Reached, TooBig
  <2> QED BY <1>2, <2>1, <2>2 DEF Next, vars, bitmap, allocate_frame, deallocate_frame
<1>3. Provenance => FreedFramesAreRam
  <2> SUFFICES ASSUME Provenance, NEW f \in usable,
                      NEW byte \in f * FrameSize .. (f + 1) * FrameSize - 1
               PROVE  /\ \E i \in DOMAIN regions : /\ regions[i].kind = "Usable"
                                                   /\ regions[i].start <= byte /\ byte < regions[i].end
                      /\ ~\E i \in DOMAIN regions : /\ regions[i].kind = "Reserved"
                                                    /\ regions[i].start <= byte /\ byte < regions[i].end
    BY DEF FreedFramesAreRam
  <2>1. regions \in MemoryMaps /\ regions \in Seq(Region) /\ f \in Cleared(regions)
    BY MapsAssumption DEF Provenance
  <2>2. PICK i \in DOMAIN regions : f \in frames_of(regions[i])
    BY <2>1 DEF Cleared, Reached
  <2>3. regions[i] \in Region
    BY <2>1
  <2>4. regions[i].kind = "Usable" /\ regions[i].start <= byte /\ byte < regions[i].end
    BY <2>2, <2>3, WholeFrames
  <2>5. byte \in regions[i].start .. regions[i].end - 1
    <3>1. regions[i].start \in Nat /\ regions[i].end \in Nat
      BY <2>3 DEF Region
    <3>2. byte \in Int
      OBVIOUS
    <3> QED BY <2>4, <3>1, <3>2
  <2>6. ASSUME NEW j \in DOMAIN regions, regions[j].kind = "Reserved",
               regions[j].start <= byte /\ byte < regions[j].end
        PROVE  FALSE
    BY <2>1, <2>4, <2>5, <2>6, KindsAssumption
  <2> QED BY <2>4, <2>6
<1> QED BY <1>1, <1>2, <1>3, PTL DEF Spec
=============================================================================
