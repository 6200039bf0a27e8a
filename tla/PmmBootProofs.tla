--------------------------- MODULE PmmBootProofs ---------------------------
(* Proofs about PmmBoot, for every memory size, every reserved region and   *)
(* every multiboot2 structure.                                              *)
EXTENDS PmmBoot, PmmProofs, NaturalsInduction, WellFoundedInduction

-----------------------------------------------------------------------------
(* Arithmetic. *)

(* A quotient by a positive number. *)
LEMMA DivBounds ==
  ASSUME NEW a \in Nat, NEW c \in Nat \ {0}
  PROVE  /\ a \div c \in Nat
         /\ c * (a \div c) <= a
         /\ a < c * (a \div c) + c
OBVIOUS

(* Division keeps the order. *)
LEMMA DivMonotone ==
  ASSUME NEW a \in Nat, NEW b \in Nat, a <= b, NEW c \in Nat \ {0}
  PROVE  a \div c <= b \div c
OBVIOUS

(* A product is at least its other factor. *)
LEMMA MulMonotone ==
  ASSUME NEW a \in Nat, NEW b \in Nat, a <= b, NEW c \in Nat
  PROVE  a * c <= b * c /\ a * c \in Nat /\ b * c \in Nat
OBVIOUS

(* One more of a factor. *)
LEMMA MulStep ==
  ASSUME NEW a \in Nat, NEW c \in Nat
  PROVE  (a + 1) * c = a * c + c /\ a * c \in Nat
OBVIOUS

(* A quotient below a bound. *)
LEMMA DivLess ==
  ASSUME NEW a \in Nat, NEW b \in Nat, NEW c \in Nat \ {0}, a < b * c
  PROVE  a \div c < b
OBVIOUS


(* The constants, in the form the arithmetic needs. *)
LEMMA Sizes ==
  /\ PMM_FRAME_SIZE = 4096
  /\ PMM_MAX_PHYS \in Nat /\ PMM_MAX_PHYS = PMM_FRAME_COUNT * 4096
  /\ PMM_2MB \in Nat \ {0} /\ PMM_2MB = FRAMES_PER_2MB * 4096
  /\ PMM_2MB <= PMM_MAX_PHYS
  /\ WORD \in Nat /\ WORD > PMM_MAX_PHYS + 4096
  /\ PMM_LOW_RESERVED \in Nat /\ 1 <= PMM_LOW_RESERVED
  /\ PMM_LOW_RESERVED <= PMM_MAX_PHYS
<1>1. FRAMES_PER_2MB \in Nat \ {0} /\ PMM_FRAME_COUNT \in Nat \ {0}
  BY BootConstants, FrameCountAssumption
<1>2. FRAMES_PER_2MB <= PMM_FRAME_COUNT
  BY <1>1, BootConstants
<1> QED
  BY <1>1, <1>2, BootConstants DEF PMM_FRAME_SIZE, PMM_MAX_PHYS, PMM_2MB

(* A frame is 4096 bytes and lies below the limit. *)
LEMMA FrameBounds ==
  ASSUME NEW f \in Frames
  PROVE  /\ f \in Nat /\ FrameLo(f) = f * 4096 /\ FrameHi(f) = f * 4096 + 4096
         /\ FrameHi(f) <= PMM_MAX_PHYS
BY FrameCountAssumption DEF Frames, FrameLo, FrameHi, PMM_FRAME_SIZE, PMM_MAX_PHYS

(* base + len, wherever it ends, clipped to the memory the bitmap covers.   *)
LEMMA ClippedEndMeaning ==
  ASSUME NEW base \in 0 .. WORD - 1, NEW len \in 0 .. WORD - 1
  PROVE  ClippedEnd(base, len) =
           IF base + len > PMM_MAX_PHYS THEN PMM_MAX_PHYS ELSE base + len
<1>1. CASE base + len < WORD
  <2>1. Add(base, len) = base + len
    BY <1>1, Sizes DEF Add
  <2> QED BY <2>1, Sizes DEF ClippedEnd
<1>2. CASE base + len >= WORD
  <2>1. Add(base, len) = base + len - WORD
    BY <1>2, Sizes DEF Add
  <2> QED BY <1>2, <2>1, Sizes DEF ClippedEnd
<1> QED BY <1>1, <1>2, Sizes

(* Rounding to frames, against frame boundaries. *)
LEMMA Rounding ==
  ASSUME NEW x \in Nat, x <= PMM_MAX_PHYS, NEW f \in Frames
  PROVE  /\ pmm_align_up_4k(x) \in Nat /\ FrameDown(x) \in Nat
         /\ pmm_align_up_4k(x) <= f * 4096 <=> x <= f * 4096
         /\ f * 4096 < pmm_align_up_4k(x) <=> f * 4096 < x
         /\ FrameDown(x) <= f * 4096 <=> x < f * 4096 + 4096
         /\ f * 4096 < FrameDown(x) <=> f * 4096 + 4096 <= x
         /\ pmm_align_up_4k(x) <= PMM_MAX_PHYS
<1>1. f \in Nat /\ PMM_FRAME_COUNT \in Nat
  BY FrameBounds, FrameCountAssumption
<1>2. Add(x, 4095) = x + 4095
  BY Sizes DEF Add
<1>3. PICK k \in Nat, m \in 0 .. 4095 : x = k * 4096 + m
  <2>1. x = (x \div 4096) * 4096 + (x % 4096) /\ x \div 4096 \in Nat /\ x % 4096 \in 0 .. 4095
    OBVIOUS
  <2> QED BY <2>1
<1>4. FrameDown(x) = k * 4096
  BY <1>3, Sizes DEF FrameDown
<1>5. pmm_align_up_4k(x) = IF m = 0 THEN k * 4096 ELSE (k + 1) * 4096
  <2>1. pmm_align_up_4k(x) = (x + 4095) - ((x + 4095) % 4096)
    BY <1>2, Sizes DEF pmm_align_up_4k, FrameDown
  <2>2. CASE m = 0
    <3>1. (x + 4095) % 4096 = 4095
      BY <1>3, <2>2
    <3> QED BY <1>3, <2>1, <2>2, <3>1
  <2>3. CASE m # 0
    <3>1. x + 4095 = (k + 1) * 4096 + (m - 1) /\ m - 1 \in 0 .. 4095
      BY <1>3, <2>3
    <3>2. (x + 4095) % 4096 = m - 1
      BY <3>1
    <3> QED BY <1>3, <2>1, <2>3, <3>1, <3>2
  <2> QED BY <2>2, <2>3
<1> QED BY <1>1, <1>3, <1>4, <1>5, Sizes

(* pmm_mark_free clears the frames that lie wholly inside the range: wrap-  *)
(* around, clipping and rounding neither lose nor add one.                  *)
LEMMA FreedMeaning ==
  ASSUME NEW r \in Entry, NEW f \in Frames
  PROVE  f \in FreedBy(r) <=> r.base <= FrameLo(f) /\ FrameHi(f) <= r.base + r.length
<1>1. r.base \in 0 .. WORD - 1 /\ r.length \in 0 .. WORD - 1
  BY DEF Entry
<1>2. r.base \in Nat /\ r.length \in Nat
  BY <1>1, Sizes
<1>3. CASE r.length = 0 \/ r.base >= PMM_MAX_PHYS
  BY <1>2, <1>3, FrameBounds, Sizes DEF FreedBy
<1>4. CASE r.length # 0 /\ r.base < PMM_MAX_PHYS
  <2> DEFINE end == ClippedEnd(r.base, r.length)
  <2>0. end = IF r.base + r.length > PMM_MAX_PHYS THEN PMM_MAX_PHYS
              ELSE r.base + r.length
    BY <1>1, ClippedEndMeaning
  <2>1. end \in Nat /\ end <= PMM_MAX_PHYS
    BY <1>2, <2>0, Sizes
  <2>2. f * 4096 + 4096 <= end <=> f * 4096 + 4096 <= r.base + r.length
    <3>1. f \in Nat /\ f * 4096 + 4096 <= PMM_MAX_PHYS
      BY FrameBounds
    <3> HIDE DEF end
    <3> QED BY <1>2, <2>0, <3>1, Sizes
  <2>3. f \in FreedBy(r) <=> /\ pmm_align_up_4k(r.base) <= f * 4096
                             /\ f * 4096 < FrameDown(end)
    BY <1>4, <1>2, Sizes DEF FreedBy, FramesBetween
  <2>4. pmm_align_up_4k(r.base) <= f * 4096 <=> r.base <= f * 4096
    BY <1>2, <1>4, Rounding, Sizes
  <2>5. f * 4096 < FrameDown(end) <=> f * 4096 + 4096 <= end
    BY <2>1, Rounding
  <2> QED BY <2>2, <2>3, <2>4, <2>5, FrameBounds
<1> QED BY <1>2, <1>3, <1>4, Sizes

(* pmm_mark_used sets the frames that the region touches. *)
LEMMA ReservedMeaning ==
  ASSUME NEW base \in Nat, NEW len \in Nat, base + len <= PMM_MAX_PHYS,
         NEW f \in Frames
  PROVE  f \in ReservedBy(base, len) <=>
           len # 0 /\ base < FrameHi(f) /\ FrameLo(f) < base + len
<1>1. CASE len = 0 \/ base >= PMM_MAX_PHYS
  BY <1>1, FrameBounds, Sizes DEF ReservedBy
<1>2. CASE len # 0 /\ base < PMM_MAX_PHYS
  <2>1. base \in 0 .. WORD - 1 /\ len \in 0 .. WORD - 1
    BY Sizes
  <2>2. ClippedEnd(base, len) = base + len
    BY <2>1, ClippedEndMeaning, Sizes
  <2>3. f \in ReservedBy(base, len) <=>
          FrameDown(base) <= f * 4096 /\ f * 4096 < pmm_align_up_4k(base + len)
    BY <1>2, <2>2, Sizes DEF ReservedBy, FramesBetween
  <2>4. FrameDown(base) <= f * 4096 <=> base < f * 4096 + 4096
    BY <1>2, Rounding, Sizes
  <2>5. f * 4096 < pmm_align_up_4k(base + len) <=> f * 4096 < base + len
    BY Rounding
  <2> QED BY <1>2, <2>3, <2>4, <2>5, FrameBounds
<1> QED BY <1>1, <1>2, Sizes

-----------------------------------------------------------------------------
(* pmm_bitmap_init *)

(* Frame f is clear of the low memory, the image and the information        *)
(* structure.                                                               *)
Unreserved(f) == \A s \in Reserved : FrameHi(f) <= s[1] \/ s[2] <= FrameLo(f)

(* The structure that passed pmm_init's checks. *)
InfoPlaced ==
  /\ env.mb_info > 0 /\ env.total_size > 0
  /\ env.mb_info + env.total_size <= PMM_MAX_PHYS

(* The numbers of a boot environment. *)
LEMMA EnvTypes ==
  ASSUME env \in BootEnvs
  PROVE  /\ env.bss_end \in Nat /\ env.bss_end < PMM_2MB
         /\ env.mb_info \in Nat /\ env.total_size \in Nat
         /\ HEADER \in DOMAIN env.tags
         /\ \A o \in DOMAIN env.tags :
              /\ o \in Nat /\ o >= 8 /\ o % 8 = 0
              /\ env.tags[o] \in TagRecord
              /\ env.tags[o].type = MB2_TAG_MMAP =>
                   Len(env.tags[o].entries) = EntryCount(env.tags[o])
              /\ \A q \in DOMAIN env.tags :
                   o < q => Align8(o + env.tags[o].size) <= q
BY BootEnvAssumption, Sizes DEF HEADER

(* The bitmap that pmm_bitmap_init leaves: exactly the frames inside a      *)
(* usable range and outside the reservations are clear, the counter counts  *)
(* them, frame 0 is never among them.                                       *)
LEMMA BitmapMeaning ==
  ASSUME env \in BootEnvs, InfoPlaced, NEW rs \in SUBSET Entry
  PROVE  LET q == pmm_bitmap_init(rs, env.bss_end, env.mb_info,
                                  Add(env.mb_info, env.total_size))
         IN  /\ ClearFrames(q) =
                  {f \in Frames :
                     /\ \E r \in rs : r.base <= FrameLo(f)
                                        /\ FrameHi(f) <= r.base + r.length
                     /\ Unreserved(f)}
             /\ Booted(q)
<1> DEFINE info_end == Add(env.mb_info, env.total_size)
           kernel_end == pmm_align_up_4k(env.bss_end)
           freed == UNION {FreedBy(r) : r \in rs}
           low == ReservedBy(0, PMM_LOW_RESERVED)
           image == IF kernel_end > PMM_LOW_RESERVED
                    THEN ReservedBy(PMM_LOW_RESERVED, kernel_end - PMM_LOW_RESERVED)
                    ELSE {}
           info == IF info_end > env.mb_info
                   THEN ReservedBy(env.mb_info, info_end - env.mb_info) ELSE {}
           clear == freed \ (low \cup image \cup info)
           q == [bitmap |-> [f \in Frames |-> IF f \in clear THEN 0 ELSE 1],
                 free_frames |-> Cardinality(clear),
                 hint |-> 0]
<1>1. pmm_bitmap_init(rs, env.bss_end, env.mb_info, info_end) = q
  BY DEF pmm_bitmap_init
<1>2. /\ env.bss_end \in Nat /\ env.bss_end <= PMM_MAX_PHYS
      /\ env.mb_info \in Nat /\ env.total_size \in Nat
  BY EnvTypes, Sizes
<1>3. info_end = env.mb_info + env.total_size
  BY <1>2, Sizes DEF Add, InfoPlaced
<1>4. ASSUME NEW f \in Frames
      PROVE  f \in freed <=> \E r \in rs : r.base <= FrameLo(f)
                                 /\ FrameHi(f) <= r.base + r.length
  BY <1>4, FreedMeaning
<1>5. ASSUME NEW f \in Frames
      PROVE  f \in low <=> FrameLo(f) < PMM_LOW_RESERVED
  <2>1. f \in low <=> /\ PMM_LOW_RESERVED # 0 /\ 0 < FrameHi(f)
                      /\ FrameLo(f) < 0 + PMM_LOW_RESERVED
    BY ReservedMeaning, Sizes
  <2> QED BY <2>1, FrameBounds, Sizes
<1>6. ASSUME NEW f \in Frames
      PROVE  f \in image => FrameLo(f) < env.bss_end
  <2>1. kernel_end \in Nat /\ kernel_end <= PMM_MAX_PHYS
    BY <1>2, Rounding
  <2>2. CASE kernel_end > PMM_LOW_RESERVED
    <3> DEFINE n == kernel_end - PMM_LOW_RESERVED
    <3>1. n \in Nat /\ PMM_LOW_RESERVED + n = kernel_end
      BY <2>1, <2>2, Sizes
    <3>2. f \in ReservedBy(PMM_LOW_RESERVED, n) => FrameLo(f) < kernel_end
      <4> HIDE DEF n, kernel_end
      <4>1. PMM_LOW_RESERVED \in Nat /\ PMM_LOW_RESERVED + n <= PMM_MAX_PHYS
        BY <2>1, <3>1, Sizes
      <4>2. f \in ReservedBy(PMM_LOW_RESERVED, n) <=>
              /\ n # 0 /\ PMM_LOW_RESERVED < FrameHi(f)
              /\ FrameLo(f) < PMM_LOW_RESERVED + n
        BY <3>1, <4>1, ReservedMeaning
      <4> QED BY <3>1, <4>2
    <3>3. FrameLo(f) < kernel_end => FrameLo(f) < env.bss_end
      BY <1>2, Rounding, FrameBounds
    <3> QED BY <2>2, <3>2, <3>3
  <2> QED BY <2>1, <2>2, Sizes
<1>7. ASSUME NEW f \in Frames
      PROVE  FrameLo(f) < env.bss_end => f \in low \/ f \in image
  <2> SUFFICES ASSUME FrameLo(f) < env.bss_end, PMM_LOW_RESERVED <= FrameLo(f)
               PROVE  f \in image
    BY <1>2, <1>5, FrameBounds, Sizes
  <2>1. kernel_end \in Nat /\ kernel_end <= PMM_MAX_PHYS
    BY <1>2, Rounding
  <2>2. FrameLo(f) < kernel_end
    BY <1>2, Rounding, FrameBounds
  <2> DEFINE n == kernel_end - PMM_LOW_RESERVED
  <2>3. n \in Nat /\ n # 0 /\ PMM_LOW_RESERVED + n = kernel_end
        /\ kernel_end > PMM_LOW_RESERVED
    BY <2>1, <2>2, Sizes, FrameBounds
  <2>4. f \in ReservedBy(PMM_LOW_RESERVED, n)
    <3>1. PMM_LOW_RESERVED < FrameHi(f)
      BY FrameBounds, Sizes
    <3> HIDE DEF n, kernel_end
    <3>2. PMM_LOW_RESERVED \in Nat /\ PMM_LOW_RESERVED + n <= PMM_MAX_PHYS
      BY <2>1, <2>3, Sizes
    <3>3. f \in ReservedBy(PMM_LOW_RESERVED, n) <=>
            /\ n # 0 /\ PMM_LOW_RESERVED < FrameHi(f)
            /\ FrameLo(f) < PMM_LOW_RESERVED + n
      BY <2>3, <3>2, ReservedMeaning
    <3> QED BY <2>2, <2>3, <3>1, <3>3
  <2> QED BY <2>3, <2>4
<1>8. ASSUME NEW f \in Frames
      PROVE  f \in info <=> /\ env.mb_info < FrameHi(f)
                            /\ FrameLo(f) < env.mb_info + env.total_size
  <2>1. info_end > env.mb_info /\ info_end - env.mb_info = env.total_size
    BY <1>2, <1>3 DEF InfoPlaced
  <2>2. info = ReservedBy(env.mb_info, env.total_size)
    BY <2>1
  <2> QED BY <1>2, <2>2, ReservedMeaning DEF InfoPlaced
<1>9. ASSUME NEW f \in Frames
      PROVE  Unreserved(f) <=> f \notin low /\ f \notin image /\ f \notin info
  <2>1. Unreserved(f) <=> /\ FrameHi(f) <= 0 \/ PMM_LOW_RESERVED <= FrameLo(f)
                          /\ FrameHi(f) <= 0 \/ env.bss_end <= FrameLo(f)
                          /\ \/ FrameHi(f) <= env.mb_info
                             \/ env.mb_info + env.total_size <= FrameLo(f)
    BY DEF Unreserved, Reserved
  <2>2. FrameLo(f) \in Nat /\ FrameHi(f) \in Nat /\ FrameHi(f) > 0
    BY FrameBounds
  <2> HIDE DEF low, image, info
  <2> QED BY <1>2, <1>5, <1>6, <1>7, <1>8, <2>1, <2>2, Sizes
<1>10. clear \subseteq Frames
  BY DEF FreedBy, FramesBetween
<1> HIDE DEF freed, low, image, info
<1>11. ClearFrames(q) = clear
  BY <1>10 DEF ClearFrames
<1>12. ClearFrames(q) =
         {f \in Frames :
            /\ \E r \in rs : r.base <= FrameLo(f)
                               /\ FrameHi(f) <= r.base + r.length
            /\ Unreserved(f)}
  BY <1>4, <1>9, <1>10, <1>11
<1>13. 0 \notin clear
  <2>1. 0 \in Frames /\ FrameLo(0) < PMM_LOW_RESERVED
    BY FrameCountAssumption, Sizes DEF Frames, FrameLo
  <2> QED BY <1>5, <2>1
<1>14. Booted(q)
  <2>1. Cardinality(clear) \in Nat
    <3> HIDE DEF q, clear
    <3>1. Cardinality(ClearFrames(q)) \in 0 .. PMM_FRAME_COUNT
      BY ClearFinite
    <3> QED BY <1>11, <3>1, FrameCountAssumption
  <2> HIDE DEF clear
  <2>2. q \in [bitmap : [Frames -> {0, 1}], free_frames : Nat, hint : Nat]
    BY <2>1
  <2>3. q.free_frames = Cardinality(clear) /\ q.hint = 0
    OBVIOUS
  <2> HIDE DEF q
  <2> QED BY <1>11, <1>13, <2>2, <2>3 DEF Booted
<1> QED
  <2> HIDE DEF q
  <2> QED BY <1>1, <1>12, <1>14

-----------------------------------------------------------------------------
(* The walk over the tags. *)

(* What mb2_init has copied when it stands at offset off. *)
Copied(off) == UNION {UsableIn(env.tags[o], o) : o \in {o \in DOMAIN env.tags : o < off}}

(* It met no end tag and left no room unread on the way there. *)
Passed(off) == \A o \in DOMAIN env.tags :
                 o < off => env.tags[o].type # MB2_TAG_END /\ o + 8 <= env.total_size

(* Rounding up to the next multiple of 8. *)
LEMMA AlignUp ==
  ASSUME NEW x \in Nat
  PROVE  /\ Align8(x) \in Nat /\ x <= Align8(x) /\ Align8(x) <= x + 7
         /\ Align8(x) % 8 = 0
         /\ \A y \in Nat : y % 8 = 0 /\ x <= y => Align8(x) <= y
<1> DEFINE k == (x + 7) \div 8
<1>1. k \in Nat /\ 8 * k <= x + 7 /\ x + 7 < 8 * k + 8
  OBVIOUS
<1>2. Align8(x) = k * 8
  BY DEF Align8
<1> HIDE DEF k
<1>3. (k * 8) % 8 = 0
  BY <1>1
<1>4. ASSUME NEW y \in Nat, y % 8 = 0, x <= y PROVE k * 8 <= y
  <2>1. y = 8 * (y \div 8) /\ y \div 8 \in Nat
    BY <1>4
  <2> QED BY <1>1, <1>4, <2>1
<1> QED BY <1>1, <1>2, <1>3, <1>4

(* The fields of a tag, also where none starts. *)
LEMMA TagTypes ==
  ASSUME env \in BootEnvs, NEW off
  PROVE  /\ TagAt(off).type \in Nat /\ TagAt(off).size \in Nat
         /\ TagAt(off).entry_size \in Nat
         /\ off \notin DOMAIN env.tags => TagAt(off).size = 0 /\ TagAt(off).type = 99
         /\ off \in DOMAIN env.tags => TagAt(off) = env.tags[off]
BY EnvTypes DEF TagAt, TagRecord

(* The entries of a tag fit in it. *)
LEMMA EntriesFit ==
  ASSUME NEW tag, tag.type \in Nat, tag.size \in Nat, tag.entry_size \in Nat
  PROVE  /\ EntryCount(tag) \in Nat
         /\ EntryCount(tag) # 0 =>
              /\ tag.type = MB2_TAG_MMAP /\ tag.size >= 16 /\ tag.entry_size >= 24
              /\ tag.entry_size * EntryCount(tag) <= tag.size - 16
<1>1. CASE tag.type = MB2_TAG_MMAP /\ tag.size >= 16 /\ tag.entry_size >= 24
  <2> DEFINE a == tag.size - 16
  <2>1. a \in Nat /\ tag.entry_size \in Nat \ {0}
    BY <1>1
  <2>2. EntryCount(tag) = a \div tag.entry_size
    BY <1>1 DEF EntryCount
  <2>3. a \div tag.entry_size \in Nat /\ tag.entry_size * (a \div tag.entry_size) <= a
    <3> HIDE DEF a
    <3> QED BY <2>1, DivBounds
  <2> QED BY <1>1, <2>2, <2>3
<1>2. CASE ~(tag.type = MB2_TAG_MMAP /\ tag.size >= 16 /\ tag.entry_size >= 24)
  BY <1>2 DEF EntryCount
<1> QED BY <1>1, <1>2

(* The copied entries of one tag are finitely many. *)
LEMMA UsableFinite ==
  ASSUME NEW tag, EntryCount(tag) \in Nat, NEW off
  PROVE  IsFiniteSet(UsableIn(tag, off)) /\ Cardinality(UsableIn(tag, off)) \in Nat
<1> DEFINE I == {i \in 1 .. EntryCount(tag) : tag.entries[i].type = MB2_MMAP_TYPE_AVAILABLE}
<1>1. IsFiniteSet(1 .. EntryCount(tag))
  BY FS_Interval
<1>2. IsFiniteSet(I)
  BY <1>1, FS_Subset
<1>3. IsFiniteSet({off})
  BY FS_Singleton
<1>4. UsableIn(tag, off) = {off} \X I
  BY DEF UsableIn
<1>5. IsFiniteSet({off} \X I)
  <2> HIDE DEF I
  <2> QED BY <1>2, <1>3, FS_Product
<1> QED BY <1>4, <1>5, FS_CardinalityType

(* A part of a mapped region is mapped. *)
LEMMA MappedPart ==
  ASSUME NEW dir, NEW lo \in Nat, NEW hi \in Nat, NEW a \in Nat, NEW b \in Nat,
         lo <= a, a < b, b <= hi, MappedIn(dir, lo, hi)
  PROVE  MappedIn(dir, a, b)
<1>1. PMM_2MB \in Nat \ {0}
  BY Sizes
<1>2. b - 1 \in Nat /\ hi - 1 \in Nat
  OBVIOUS
<1>3. lo \div PMM_2MB <= a \div PMM_2MB
  BY <1>1, DivMonotone
<1>4. (b - 1) \div PMM_2MB <= (hi - 1) \div PMM_2MB
  BY <1>1, <1>2, DivMonotone
<1>5. /\ lo \div PMM_2MB \in Nat /\ a \div PMM_2MB \in Nat
      /\ (b - 1) \div PMM_2MB \in Nat /\ (hi - 1) \div PMM_2MB \in Nat
  BY <1>1, <1>2, DivBounds
<1> DEFINE L == lo \div PMM_2MB
           H == (hi - 1) \div PMM_2MB
           A == a \div PMM_2MB
           B == (b - 1) \div PMM_2MB
<1>6. (L .. H) \subseteq dir
  BY DEF MappedIn
<1>7. (A .. B) \subseteq dir
  <2>1. L \in Nat /\ H \in Nat /\ A \in Nat /\ B \in Nat /\ L <= A /\ B <= H
    BY <1>3, <1>4, <1>5
  <2> HIDE DEF L, H, A, B
  <2> QED BY <1>6, <2>1
<1> QED BY <1>7 DEF MappedIn

(* ensure_2mb_mapped maps the region. *)
LEMMA EnsureMaps ==
  ASSUME NEW dir, NEW addr \in Nat, NEW len \in Nat \ {0}
  PROVE  /\ MappedIn(ensure_2mb_mapped(dir, addr, len), addr, addr + len)
         /\ dir \subseteq ensure_2mb_mapped(dir, addr, len)
BY DEF ensure_2mb_mapped, MappedIn

(* Every read of a round of the loop lies inside the structure. *)
LEMMA ReadsInside ==
  ASSUME NEW tag, tag.type \in Nat, tag.size \in Nat, tag.entry_size \in Nat,
         env.total_size \in Nat,
         NEW off \in Nat, off + 8 <= env.total_size,
         NEW r \in TagReads(tag, off)
  PROVE  r[1] \in Nat /\ r[2] \in Nat /\ r[1] < r[2] /\ r[2] <= env.total_size
<1> DEFINE entry(i) == off + 16 + i * tag.entry_size
           E == {<<entry(i), entry(i) + 20>> : i \in 0 .. EntryCount(tag) - 1}
<1>1. CASE r = <<off, off + 8>>
  BY <1>1
<1>2. CASE r # <<off, off + 8>>
  <2>1. /\ tag.size >= 16 /\ off + tag.size <= env.total_size
        /\ r = <<off + 8, off + 12>> \/ r \in E
    BY <1>2 DEF TagReads, BadSize
  <2>2. CASE r = <<off + 8, off + 12>>
    BY <2>1, <2>2
  <2>3. CASE r \in E
    <3>1. PICK i \in 0 .. EntryCount(tag) - 1 : r = <<entry(i), entry(i) + 20>>
      BY <2>3
    <3>2. /\ EntryCount(tag) \in Nat /\ EntryCount(tag) # 0
          /\ tag.entry_size >= 24
          /\ tag.entry_size * EntryCount(tag) <= tag.size - 16
      BY <3>1, EntriesFit
    <3>3. i \in Nat /\ i + 1 \in Nat /\ i + 1 <= EntryCount(tag)
      BY <3>1, <3>2
    <3>4. /\ (i + 1) * tag.entry_size <= EntryCount(tag) * tag.entry_size
          /\ i * tag.entry_size \in Nat
          /\ (i + 1) * tag.entry_size = i * tag.entry_size + tag.entry_size
      <4>1. (i + 1) * tag.entry_size <= EntryCount(tag) * tag.entry_size
        BY <3>2, <3>3, MulMonotone
      <4> QED BY <3>3, <4>1, MulStep
    <3>5. EntryCount(tag) * tag.entry_size = tag.entry_size * EntryCount(tag)
      BY <3>2
    <3> DEFINE x == i * tag.entry_size
    <3>6. x \in Nat /\ x + tag.entry_size <= tag.size - 16 /\ entry(i) = off + 16 + x
      BY <3>2, <3>4, <3>5
    <3>7. r[1] = off + 16 + x /\ r[2] = off + 16 + x + 20
      BY <3>1
    <3> HIDE DEF x
    <3> QED BY <2>1, <3>2, <3>6, <3>7
  <2> QED BY <2>1, <2>2, <2>3
<1> QED BY <1>1, <1>2

(* One round of the walk: it stands at a tag, and the next stop is the next *)
(* tag that is described.                                                   *)
LEMMA WalkStep ==
  ASSUME env \in BootEnvs, p \in Nat, p + 8 <= env.total_size, Passed(p),
         TagAt(p).type # MB2_TAG_END, ~BadSize(TagAt(p), p)
  PROVE  LET off == Align8(p + TagAt(p).size)
         IN  /\ p \in DOMAIN env.tags /\ TagAt(p) = env.tags[p]
             /\ off \in Nat /\ off > p
             /\ Passed(off)
             /\ Copied(off) = Copied(p) \cup UsableIn(TagAt(p), p)
             /\ \A q \in DOMAIN env.tags : q > p => off <= q
<1> DEFINE off == Align8(p + TagAt(p).size)
<1>1. TagAt(p).size \in Nat /\ TagAt(p).size >= 8
  BY TagTypes DEF BadSize
<1>2. p \in DOMAIN env.tags /\ TagAt(p) = env.tags[p]
  BY <1>1, TagTypes
<1>3. off \in Nat /\ off > p
  <2>1. p + TagAt(p).size \in Nat /\ p + TagAt(p).size > p
    BY <1>1
  <2>2. off \in Nat /\ p + TagAt(p).size <= off
    BY <2>1, AlignUp
  <2> HIDE DEF off
  <2> QED BY <1>1, <2>1, <2>2
<1>4. \A q \in DOMAIN env.tags : q \in Nat /\ (q > p => off <= q)
  BY <1>2, EnvTypes
<1> HIDE DEF off
<1>5. \A q \in DOMAIN env.tags : q < off <=> q < p \/ q = p
  BY <1>3, <1>4
<1>6. Passed(off)
  BY <1>2, <1>5 DEF Passed
<1>7. Copied(off) = Copied(p) \cup UsableIn(TagAt(p), p)
  <2>1. {o \in DOMAIN env.tags : o < off} = {o \in DOMAIN env.tags : o < p} \cup {p}
    BY <1>2, <1>5
  <2> QED BY <1>2, <2>1 DEF Copied
<1> QED BY <1>2, <1>3, <1>4, <1>6, <1>7 DEF off

(* A walk that comes to its end has copied the usable entries of the memory *)
(* map and nothing else.                                                    *)
LEMMA WalkComplete ==
  ASSUME env \in BootEnvs, p \in Nat, Passed(p), ranges = Copied(p),
         p + 8 > env.total_size \/ TagAt(p).type = MB2_TAG_END
  PROVE  UsableRanges = {r \in MapEntries : r.type = MB2_MMAP_TYPE_AVAILABLE}
<1> DEFINE T == {o \in DOMAIN env.tags :
                   /\ env.tags[o].type = MB2_TAG_MMAP
                   /\ o + 8 <= env.total_size
                   /\ \A q \in DOMAIN env.tags : q < o => env.tags[q].type # MB2_TAG_END}
           D == {o \in DOMAIN env.tags : o < p /\ env.tags[o].type = MB2_TAG_MMAP}
<1>0. \A o \in DOMAIN env.tags : o \in Nat
  BY EnvTypes
<1>1. T = D
  <2>1. ASSUME NEW o \in D PROVE o \in T
    BY <1>0, <2>1 DEF Passed
  <2>2. ASSUME NEW o \in T PROVE o \in D
    <3> SUFFICES ASSUME ~(o < p) PROVE FALSE
      BY <2>2
    <3>1. o \in Nat /\ p <= o
      BY <1>0, <2>2
    <3>2. p + 8 <= env.total_size
      BY <2>2, <3>1, EnvTypes
    <3>3. TagAt(p).type = MB2_TAG_END
      BY <3>2, EnvTypes
    <3>4. p \in DOMAIN env.tags /\ env.tags[p].type = MB2_TAG_END
      BY <3>3, TagTypes DEF MB2_TAG_END
    <3>5. p # o
      BY <2>2, <3>4 DEF MB2_TAG_END, MB2_TAG_MMAP
    <3>6. p < o
      BY <3>1, <3>5
    <3> QED BY <2>2, <3>4, <3>6
  <2> QED BY <2>1, <2>2
<1>2. ASSUME NEW o \in D
      PROVE  /\ DOMAIN env.tags[o].entries = 1 .. EntryCount(env.tags[o])
             /\ \A i \in 1 .. EntryCount(env.tags[o]) : env.tags[o].entries[i] \in Entry
  <2>1. /\ env.tags[o].entries \in Seq(Entry)
        /\ Len(env.tags[o].entries) = EntryCount(env.tags[o])
    BY <1>2, EnvTypes DEF TagRecord
  <2> QED BY <2>1
<1>3. ASSUME NEW x \in UsableRanges
      PROVE  x \in MapEntries /\ x.type = MB2_MMAP_TYPE_AVAILABLE
  <2>1. PICK r \in ranges : x = env.tags[r[1]].entries[r[2]]
    BY <1>3 DEF UsableRanges
  <2>2. PICK o \in DOMAIN env.tags : o < p /\ r \in UsableIn(env.tags[o], o)
    BY <2>1 DEF Copied
  <2>3. /\ r[1] = o /\ r[2] \in 1 .. EntryCount(env.tags[o])
        /\ env.tags[o].entries[r[2]].type = MB2_MMAP_TYPE_AVAILABLE
    BY <2>2 DEF UsableIn
  <2>4. env.tags[o].type = MB2_TAG_MMAP
    BY <2>3, <2>2, EntriesFit, EnvTypes DEF EntryCount
  <2>5. o \in D
    BY <2>2, <2>4
  <2>6. x \in ToSet(env.tags[o].entries)
    BY <1>2, <2>1, <2>3, <2>5 DEF ToSet
  <2>7. o \in T
    BY <1>1, <2>5
  <2> QED BY <2>1, <2>3, <2>6, <2>7 DEF MapEntries
<1>4. ASSUME NEW x \in MapEntries, x.type = MB2_MMAP_TYPE_AVAILABLE
      PROVE  x \in UsableRanges
  <2>1. PICK o \in T : x \in ToSet(env.tags[o].entries)
    BY <1>4 DEF MapEntries
  <2>2. o \in D
    BY <1>1, <2>1
  <2>3. PICK i \in DOMAIN env.tags[o].entries : x = env.tags[o].entries[i]
    BY <2>1 DEF ToSet
  <2>4. i \in 1 .. EntryCount(env.tags[o])
    BY <1>2, <2>2, <2>3
  <2>5. <<o, i>> \in UsableIn(env.tags[o], o)
    BY <1>4, <2>3, <2>4 DEF UsableIn
  <2>6. <<o, i>> \in ranges
    BY <2>2, <2>5 DEF Copied
  <2>7. <<o, i>>[1] = o /\ <<o, i>>[2] = i
    OBVIOUS
  <2> QED BY <2>3, <2>6, <2>7 DEF UsableRanges
<1> QED BY <1>3, <1>4

(* The entries of the memory map have the types of the format. *)
LEMMA EntryTypes ==
  ASSUME env \in BootEnvs
  PROVE  {r \in MapEntries : r.type = MB2_MMAP_TYPE_AVAILABLE} \in SUBSET Entry
<1>1. ASSUME NEW r \in MapEntries PROVE r \in Entry
  <2>1. PICK o \in DOMAIN env.tags : r \in ToSet(env.tags[o].entries)
    BY <1>1 DEF MapEntries
  <2>2. env.tags[o].entries \in Seq(Entry)
    BY <2>1, EnvTypes DEF TagRecord
  <2> QED BY <2>1, <2>2 DEF ToSet
<1> QED BY <1>1

(* A well-formed structure is walked to its end without complaint. *)
LEMMA WalkAccepts ==
  ASSUME env \in BootEnvs, p \in DOMAIN env.tags, ranges = Copied(p), Passed(p),
         NEW end \in DOMAIN env.tags, WellFormedUpTo(end), p <= end,
         TagAt(p).type # MB2_TAG_END
  PROVE  /\ ~Refused(TagAt(p), p)
         /\ Align8(p + TagAt(p).size) \in DOMAIN env.tags
         /\ Align8(p + TagAt(p).size) <= end
<1> DEFINE before == {o \in DOMAIN env.tags : o < end}
           tag == env.tags[p]
<1>0. /\ TagAt(p) = tag /\ p \in Nat /\ end \in Nat /\ p % 8 = 0
      /\ tag.size \in Nat /\ tag.type \in Nat /\ tag.entry_size \in Nat
      /\ env.total_size = end + 8
  BY EnvTypes, TagTypes DEF TagRecord, WellFormedUpTo
<1>1. p < end
  BY <1>0 DEF WellFormedUpTo
<1>2. PICK next \in DOMAIN env.tags :
        tag.size >= HEADER /\ p + tag.size \in next - 7 .. next
  BY <1>1 DEF WellFormedUpTo
<1>3. next \in Nat /\ next % 8 = 0 /\ tag.size >= 8
  BY <1>2, EnvTypes DEF HEADER
<1>4. Align8(p + tag.size) = next
  <2>1. p + tag.size \in Nat /\ p + tag.size <= next /\ next <= p + tag.size + 7
    BY <1>0, <1>2, <1>3
  <2>2. /\ Align8(p + tag.size) \in Nat /\ Align8(p + tag.size) <= next
        /\ p + tag.size <= Align8(p + tag.size) /\ Align8(p + tag.size) % 8 = 0
    BY <1>3, <2>1, AlignUp
  <2> DEFINE a == Align8(p + tag.size)
  <2>3. a \in Nat /\ a <= next /\ next <= a + 7 /\ a % 8 = 0
    BY <1>0, <1>3, <2>1, <2>2
  <2> HIDE DEF a
  <2>4. a = next
    BY <1>3, <2>3
  <2> QED BY <2>4 DEF a
<1>5. next <= end
  BY <1>0, <1>1, <1>4, EnvTypes
<1>6. ~BadSize(tag, p)
  BY <1>0, <1>2, <1>3, <1>5 DEF BadSize
<1>7. tag.type = MB2_TAG_MMAP => tag.size >= 16 /\ tag.entry_size >= 24
  <2> SUFFICES ASSUME tag.type = MB2_TAG_MMAP PROVE tag.size >= 16 /\ tag.entry_size >= 24
    OBVIOUS
  <2>1. /\ tag.entry_size >= 24
        /\ tag.size = 16 + tag.entry_size * Len(tag.entries)
    BY <1>1 DEF WellFormedUpTo
  <2>2. Len(tag.entries) \in Nat
    BY EnvTypes, EntriesFit, <1>0
  <2>3. tag.entry_size * Len(tag.entries) \in Nat
    BY <1>0, <2>2
  <2> QED BY <2>1, <2>3
<1>8. ~(Cardinality(ranges) + Cardinality(UsableIn(tag, p)) > MB2_MAX_RANGES)
  <2> DEFINE all == UNION {UsableIn(env.tags[o], o) : o \in before}
  <2>1. Cardinality(all) <= MB2_MAX_RANGES
    BY DEF WellFormedUpTo
  <2>2. ASSUME NEW o \in DOMAIN env.tags
        PROVE  IsFiniteSet(UsableIn(env.tags[o], o))
    <3>1. EntryCount(env.tags[o]) \in Nat
      BY EnvTypes, EntriesFit DEF TagRecord
    <3> QED BY <3>1, UsableFinite
  <2>3. IsFiniteSet(all)
    <3>1. IsFiniteSet(before)
      <4>1. before \in SUBSET Nat /\ \A s \in before : s <= end
        BY <1>0, EnvTypes
      <4> HIDE DEF before
      <4> QED BY <1>0, <4>1, FS_BoundedSetOfNaturals
    <3> DEFINE F == [o \in before |-> UsableIn(env.tags[o], o)]
               parts == {UsableIn(env.tags[o], o) : o \in before}
    <3>2. IsFiniteSet(parts)
      <4>1. F \in Surjection(before, parts)
        BY DEF Surjection
      <4> HIDE DEF F, before, parts
      <4> QED BY <3>1, <4>1, FS_Surjection
    <3>3. \A S \in parts : IsFiniteSet(S)
      BY <2>2
    <3>4. IsFiniteSet(UNION parts)
      <4> HIDE DEF parts
      <4> QED BY <3>2, <3>3, FS_UNION
    <3> QED BY <3>4
  <2>4. ranges \in SUBSET all /\ UsableIn(tag, p) \in SUBSET all
    <3>1. \A o \in DOMAIN env.tags : o < p => o < end
      BY <1>0, <1>1, EnvTypes
    <3> QED BY <1>1, <3>1 DEF Copied
  <2>5. ranges \cap UsableIn(tag, p) = {}
    <3> SUFFICES ASSUME NEW r \in ranges, r \in UsableIn(tag, p) PROVE FALSE
      OBVIOUS
    <3>1. r[1] = p
      BY DEF UsableIn
    <3>2. PICK o \in DOMAIN env.tags : o < p /\ r \in UsableIn(env.tags[o], o)
      BY DEF Copied
    <3>3. r[1] = o
      BY <3>2 DEF UsableIn
    <3> QED BY <1>0, <3>1, <3>2, <3>3, EnvTypes
  <2> HIDE DEF all
  <2>6. IsFiniteSet(ranges) /\ IsFiniteSet(UsableIn(tag, p))
    BY <2>3, <2>4, FS_Subset
  <2>7. Cardinality(ranges \cup UsableIn(tag, p)) =
          Cardinality(ranges) + Cardinality(UsableIn(tag, p))
             - Cardinality(ranges \cap UsableIn(tag, p))
    BY <2>6, FS_Union
  <2>8. Cardinality(ranges \cap UsableIn(tag, p)) = 0
    BY <2>5, FS_EmptySet
  <2>9. Cardinality(ranges \cup UsableIn(tag, p)) <= Cardinality(all)
    <3>1. ranges \cup UsableIn(tag, p) \in SUBSET all
      BY <2>4
    <3> QED BY <2>3, <3>1, FS_Subset
  <2>10. Cardinality(ranges) \in Nat /\ Cardinality(UsableIn(tag, p)) \in Nat
         /\ Cardinality(all) \in Nat
    BY <2>3, <2>6, FS_CardinalityType
  <2> QED BY <2>1, <2>7, <2>8, <2>9, <2>10, BootConstants
<1>9. ~Refused(tag, p)
  BY <1>0, <1>6, <1>7, <1>8 DEF Refused
<1> QED BY <1>0, <1>2, <1>4, <1>5, <1>9

-----------------------------------------------------------------------------
(* pmm_extend_identity *)

(* A bounded set of numbers has a greatest one. *)
LEMMA MaxIsGreatest ==
  ASSUME NEW n \in Nat, NEW S \in SUBSET (0 .. n), S # {}
  PROVE  Max(S) \in S /\ \A y \in S : y <= Max(S)
<1> DEFINE T == {n - x : x \in S}
<1>1. T \in SUBSET Nat /\ T # {}
  <2>1. \A x \in S : n - x \in Nat
    OBVIOUS
  <2> QED BY <2>1
<1>2. Min(T) \in T /\ \A y \in T : Min(T) <= y
  <2> HIDE DEF T
  <2> QED BY <1>1, MinIsLeast
<1>3. PICK x \in S : Min(T) = n - x
  BY <1>2
<1>4. ASSUME NEW y \in S PROVE x >= y
  <2>1. n - y \in T /\ n - x <= n - y
    BY <1>2, <1>3
  <2> QED BY <2>1
<1>5. \E z \in S : \A y \in S : z >= y
  BY <1>4
<1>6. Max(S) \in S /\ \A y \in S : Max(S) >= y
  BY <1>5 DEF Max
<1> QED BY <1>6

(* A factor can be cancelled. *)
LEMMA MulCancel ==
  ASSUME NEW a \in Nat, NEW b \in Nat, NEW c \in Nat \ {0}, c * a < c * b
  PROVE  a < b
<1> SUFFICES ASSUME b <= a PROVE FALSE
  OBVIOUS
<1>1. b * c <= a * c
  BY MulMonotone
<1>2. b * c = c * b /\ a * c = c * a /\ c * a \in Nat /\ c * b \in Nat
  OBVIOUS
<1> QED BY <1>1, <1>2

(* The last end of a usable range is an end, inside the bitmap's memory. *)
LEMMA MaxEndMeaning ==
  ASSUME NEW rs \in SUBSET Entry
  PROVE  /\ MaxEnd(rs) \in Nat /\ MaxEnd(rs) <= PMM_MAX_PHYS
         /\ \A r \in rs : ClippedEnd(r.base, r.length) <= MaxEnd(rs)
<1> DEFINE S == {0} \cup {ClippedEnd(r.base, r.length) : r \in rs}
<1>1. ASSUME NEW r \in rs PROVE ClippedEnd(r.base, r.length) \in 0 .. PMM_MAX_PHYS
  <2>1. r.base \in 0 .. WORD - 1 /\ r.length \in 0 .. WORD - 1
    BY <1>1 DEF Entry
  <2>2. ClippedEnd(r.base, r.length) =
          IF r.base + r.length > PMM_MAX_PHYS THEN PMM_MAX_PHYS ELSE r.base + r.length
    BY <2>1, ClippedEndMeaning
  <2> QED BY <2>1, <2>2, Sizes
<1>2. S \in SUBSET (0 .. PMM_MAX_PHYS) /\ S # {}
  BY <1>1, Sizes
<1>3. MaxEnd(rs) = Max(S)
  BY DEF MaxEnd
<1>4. Max(S) \in S /\ \A y \in S : y <= Max(S)
  <2>1. PMM_MAX_PHYS \in Nat
    BY Sizes
  <2> HIDE DEF S
  <2> QED BY <1>2, <2>1, MaxIsGreatest
<1>5. Max(S) \in 0 .. PMM_MAX_PHYS
  BY <1>2, <1>4
<1>6. \A r \in rs : ClippedEnd(r.base, r.length) \in S
  OBVIOUS
<1> HIDE DEF S
<1> QED BY <1>3, <1>4, <1>5, <1>6, Sizes

(* The page directory covers all memory the bitmap covers. *)
LEMMA DirectoryCovers ==
  /\ PMM_MAX_PHYS \div PMM_2MB \in Nat
  /\ PMM_MAX_PHYS = (PMM_MAX_PHYS \div PMM_2MB) * PMM_2MB
<1>1. FRAMES_PER_2MB \in Nat \ {0} /\ PMM_FRAME_COUNT \in Nat
  BY BootConstants, FrameCountAssumption
<1> DEFINE k == PMM_FRAME_COUNT \div FRAMES_PER_2MB
<1>2. k \in Nat /\ PMM_FRAME_COUNT = FRAMES_PER_2MB * k
  BY <1>1, BootConstants
<1> HIDE DEF k
<1>3. PMM_MAX_PHYS = PMM_2MB * k
  BY <1>1, <1>2, Sizes
<1>4. (PMM_2MB * k) \div PMM_2MB = k
  <2>1. PMM_2MB \in Nat \ {0} /\ PMM_2MB * k \in Nat
    BY <1>2, Sizes
  <2> QED BY <1>2, <2>1
<1>5. PMM_MAX_PHYS \div PMM_2MB = k
  BY <1>3, <1>4
<1>6. PMM_2MB * k = k * PMM_2MB
  BY <1>2, Sizes
<1> QED BY <1>2, <1>3, <1>5, <1>6

(* After pmm_extend_identity every frame inside a usable range is mapped. *)
LEMMA ExtendMaps ==
  ASSUME NEW dir, 0 \in dir, NEW rs \in SUBSET Entry, NEW r \in rs,
         NEW f \in Frames, FrameHi(f) <= r.base + r.length
  PROVE  MappedIn(pmm_extend_identity(dir, MaxEnd(rs)), FrameLo(f), FrameHi(f))
<1> DEFINE m == MaxEnd(rs)
           n == (m + PMM_2MB - 1) \div PMM_2MB
           h == FrameHi(f) - 1
<1>1. m \in Nat /\ m <= PMM_MAX_PHYS /\ ClippedEnd(r.base, r.length) <= m
  BY MaxEndMeaning
<1>2. FrameLo(f) \in Nat /\ FrameHi(f) \in Nat /\ h \in Nat /\ FrameHi(f) <= PMM_MAX_PHYS
  BY FrameBounds
<1>3. FrameHi(f) <= m
  <2>1. r.base \in 0 .. WORD - 1 /\ r.length \in 0 .. WORD - 1
    BY DEF Entry
  <2>2. ClippedEnd(r.base, r.length) =
          IF r.base + r.length > PMM_MAX_PHYS THEN PMM_MAX_PHYS ELSE r.base + r.length
    BY <2>1, ClippedEndMeaning
  <2> HIDE DEF m
  <2> QED BY <1>1, <1>2, <2>1, <2>2, Sizes
<1>4. PMM_2MB \in Nat \ {0}
  BY Sizes
<1> HIDE DEF m
<1>5. m + PMM_2MB - 1 \in Nat
  BY <1>1, <1>4
<1>6. n \in Nat /\ m + PMM_2MB - 1 < PMM_2MB * n + PMM_2MB
  BY <1>4, <1>5, DivBounds
<1>7. h \div PMM_2MB \in Nat /\ PMM_2MB * (h \div PMM_2MB) <= h
  BY <1>2, <1>4, DivBounds
<1>8. FrameLo(f) \div PMM_2MB \in Nat
  BY <1>2, <1>4, DivBounds
<1>9. h \div PMM_2MB < n
  <2>1. PMM_2MB * n \in Nat /\ PMM_2MB * (h \div PMM_2MB) \in Nat
    BY <1>4, <1>6, <1>7
  <2>2. m <= PMM_2MB * n
    <3> DEFINE x == PMM_2MB * n
    <3>1. x \in Nat /\ m + PMM_2MB - 1 < x + PMM_2MB
      BY <1>6, <2>1
    <3> HIDE DEF x
    <3>2. m <= x
      BY <1>1, <1>4, <3>1
    <3> QED BY <3>2 DEF x
  <2>3. h < m
    BY <1>1, <1>2, <1>3
  <2>4. PMM_2MB * (h \div PMM_2MB) < PMM_2MB * n
    <3> DEFINE x == PMM_2MB * n
               y == PMM_2MB * (h \div PMM_2MB)
    <3>1. x \in Nat /\ y \in Nat /\ y <= h /\ h < m /\ m <= x
      BY <1>7, <2>1, <2>2, <2>3
    <3> HIDE DEF x, y, h
    <3>2. y < x
      BY <1>1, <1>2, <3>1
    <3> QED BY <3>2 DEF x, y
  <2> HIDE DEF n, h
  <2> QED BY <1>4, <1>6, <1>7, <2>4, MulCancel
<1>10. h \div PMM_2MB < PMM_MAX_PHYS \div PMM_2MB
  <2>1. h < PMM_MAX_PHYS
    BY <1>2, Sizes
  <2>2. h < (PMM_MAX_PHYS \div PMM_2MB) * PMM_2MB
    BY <2>1, DirectoryCovers
  <2> HIDE DEF h
  <2> QED BY <1>2, <1>4, <2>2, DirectoryCovers, DivLess
<1> DEFINE K == PMM_MAX_PHYS \div PMM_2MB
           L == FrameLo(f) \div PMM_2MB
           H == h \div PMM_2MB
<1>11. K \in Nat
  BY DirectoryCovers
<1>12. pmm_extend_identity(dir, m) = dir \cup ((0 .. K - 1) \cap (1 .. n - 1))
  BY DEF pmm_extend_identity, PdIndices
<1>13. ASSUME NEW j \in L .. H PROVE j \in dir \cup ((0 .. K - 1) \cap (1 .. n - 1))
  <2> HIDE DEF n, h, K, L, H
  <2>1. L \in Nat /\ H \in Nat /\ H < n /\ H < K
    BY <1>7, <1>8, <1>9, <1>10 DEF L, H, K
  <2> QED BY <1>6, <1>11, <1>13, <2>1
<1>14. (L .. H) \subseteq pmm_extend_identity(dir, m)
  BY <1>12, <1>13
<1> QED BY <1>14 DEF MappedIn, m

-----------------------------------------------------------------------------
(* pmm_self_test *)

FrameAddrs == {f * PMM_FRAME_SIZE : f \in Frames \ {0}}

(* The frames of a sequence of addresses. *)
Taken(s) == {s[i] \div PMM_FRAME_SIZE : i \in DOMAIN s}

(* The self-test between two calls: the frames it took are different ones,  *)
(* marked used, and together with the free ones make up the pool it found.  *)
TestState(q, s, pool) ==
  /\ PmmInv(q)
  /\ s \in Seq(FrameAddrs)
  /\ IsInjective(s)
  /\ Taken(s) \cap ClearFrames(q) = {}
  /\ pool = ClearFrames(q) \cup Taken(s)

(* Addresses of frames and the frames themselves. *)
LEMMA AddrFrame ==
  ASSUME NEW pa \in FrameAddrs
  PROVE  /\ pa \in Nat /\ pa # 0 /\ pa % PMM_FRAME_SIZE = 0
         /\ pa \div PMM_FRAME_SIZE \in Frames \ {0}
         /\ pa = (pa \div PMM_FRAME_SIZE) * PMM_FRAME_SIZE
<1>1. PICK f \in Frames \ {0} : pa = f * PMM_FRAME_SIZE
  BY DEF FrameAddrs
<1>2. f \in Nat /\ f # 0
  BY FrameCountAssumption DEF Frames
<1>3. (f * 4096) \div 4096 = f /\ (f * 4096) % 4096 = 0 /\ f * 4096 # 0 /\ f * 4096 \in Nat
  BY <1>2
<1> QED BY <1>1, <1>3 DEF PMM_FRAME_SIZE

(* A round of an allocating loop that gets a frame. *)
LEMMA TakeOne ==
  ASSUME NEW q, NEW s, NEW pool, TestState(q, s, pool),
         pmm_alloc_frame(q).pa # 0
  PROVE  LET r == pmm_alloc_frame(q)
         IN  /\ r.pa \in FrameAddrs
             /\ r.pa \div PMM_FRAME_SIZE \in ClearFrames(q)
             /\ TestState(r.pmm, Append(s, r.pa), pool)
<1>1. PmmInv(q) /\ s \in Seq(FrameAddrs) /\ IsInjective(s)
  BY DEF TestState
<1>2. PICK f \in ClearFrames(q) :
        /\ \A g \in ClearFrames(q) : f <= g
        /\ pmm_alloc_frame(q) = [pmm |-> Grant(q, f), pa |-> f * PMM_FRAME_SIZE]
  <2>1. pmm_alloc_frame(q) # [pmm |-> q, pa |-> 0]
    OBVIOUS
  <2> QED BY <1>1, <2>1, AllocMeaning
<1> DEFINE pa == f * PMM_FRAME_SIZE
           t == Append(s, pa)
           n == Len(s)
<1>3. pmm_alloc_frame(q).pmm = Grant(q, f) /\ pmm_alloc_frame(q).pa = pa
  BY <1>2
<1>4. f \in Frames \ {0}
  <2>1. f \in Frames /\ 0 \notin ClearFrames(q)
    BY <1>1 DEF ClearFrames, PmmInv
  <2> QED BY <2>1
<1>5. pa \in FrameAddrs /\ pa \div PMM_FRAME_SIZE = f
  BY <1>4, FrameOfAddr DEF FrameAddrs
<1>6. PmmInv(Grant(q, f)) /\ ClearFrames(Grant(q, f)) = ClearFrames(q) \ {f}
  BY <1>1, <1>2, GrantKeepsInv
<1> HIDE DEF pa
<1>7. /\ t \in Seq(FrameAddrs) /\ n \in Nat /\ DOMAIN s = 1 .. n
      /\ DOMAIN t = 1 .. n + 1 /\ t[n + 1] = pa
      /\ \A i \in 1 .. n : t[i] = s[i]
  BY <1>1, <1>5
<1> HIDE DEF t, n
<1>8. Taken(t) = Taken(s) \cup {f}
  <2>1. 1 .. n + 1 = (1 .. n) \cup {n + 1}
    BY <1>7
  <2>2. Taken(t) = {t[i] \div PMM_FRAME_SIZE : i \in (1 .. n) \cup {n + 1}}
    BY <1>7, <2>1 DEF Taken
  <2>3. Taken(s) = {s[i] \div PMM_FRAME_SIZE : i \in 1 .. n}
    BY <1>7 DEF Taken
  <2> QED BY <1>5, <1>7, <2>2, <2>3
<1>9. f \notin Taken(s)
  BY DEF TestState
<1>10. IsInjective(t)
  <2>1. \A i \in 1 .. n : s[i] # pa
    BY <1>5, <1>7, <1>9 DEF Taken
  <2>2. \A i, j \in 1 .. n : s[i] = s[j] => i = j
    BY <1>1, <1>7 DEF IsInjective
  <2>3. ASSUME NEW i \in 1 .. n + 1, NEW j \in 1 .. n + 1, t[i] = t[j]
        PROVE  i = j
    <3>1. (i \in 1 .. n \/ i = n + 1) /\ (j \in 1 .. n \/ j = n + 1)
      BY <1>7
    <3> QED BY <1>7, <2>1, <2>2, <2>3, <3>1
  <2> QED BY <1>7, <2>3 DEF IsInjective
<1>11. TestState(Grant(q, f), t, pool)
  BY <1>6, <1>7, <1>8, <1>9, <1>10 DEF TestState
<1> QED BY <1>2, <1>3, <1>5, <1>11 DEF t

(* A round that gets none: no frame is free. *)
LEMMA TakeNone ==
  ASSUME NEW q, PmmInv(q), pmm_alloc_frame(q).pa = 0
  PROVE  ClearFrames(q) = {} /\ pmm_alloc_frame(q).pmm = q
<1>1. ASSUME NEW f \in ClearFrames(q),
             pmm_alloc_frame(q) = [pmm |-> Grant(q, f), pa |-> f * PMM_FRAME_SIZE]
      PROVE  FALSE
  <2>1. f \in Frames /\ f # 0
    BY DEF ClearFrames, PmmInv
  <2> QED BY <1>1, <2>1, FrameOfAddr
<1> QED BY <1>1, AllocMeaning

(* A round of a releasing loop. *)
LEMMA GiveOne ==
  ASSUME NEW q, NEW s, NEW pool, TestState(q, s, pool), s # <<>>
  PROVE  TestState(pmm_free_frame(q, Head(s)), Tail(s), pool)
<1>1. PmmInv(q) /\ s \in Seq(FrameAddrs) /\ IsInjective(s)
  BY DEF TestState
<1> DEFINE n == Len(s)
           t == Tail(s)
           f == s[1] \div PMM_FRAME_SIZE
<1>2. /\ n \in Nat /\ n >= 1 /\ DOMAIN s = 1 .. n /\ Head(s) = s[1]
      /\ \A i \in 1 .. n : s[i] \in FrameAddrs
  BY <1>1
<1>3. /\ t \in Seq(FrameAddrs) /\ DOMAIN t = 1 .. n - 1
      /\ \A i \in 1 .. n - 1 : t[i] = s[i + 1]
  BY <1>1, <1>2
<1> HIDE DEF n, t
<1>4. 1 \in 1 .. n
  BY <1>2
<1>5. f \in Frames \ {0} /\ s[1] = f * PMM_FRAME_SIZE
  BY <1>2, <1>4, AddrFrame
<1>6. f \in Taken(s)
  BY <1>2, <1>4 DEF Taken
<1> HIDE DEF f
<1>7. q.bitmap[f] = 1
  <2>1. f \notin ClearFrames(q)
    BY <1>6 DEF TestState
  <2>2. q.bitmap \in [Frames -> {0, 1}]
    BY <1>1 DEF PmmInv, PmmType
  <2> QED BY <1>5, <2>1, <2>2 DEF ClearFrames
<1> DEFINE r == pmm_free_frame(q, s[1])
<1>8. PmmInv(r) /\ ClearFrames(r) = ClearFrames(q) \cup {f}
  BY <1>1, <1>5, <1>7, FreeKeepsInv
<1> HIDE DEF r
<1>9. \A i, j \in 1 .. n : s[i] = s[j] => i = j
  BY <1>1, <1>2 DEF IsInjective
<1>10. ASSUME NEW i \in 2 .. n PROVE s[i] \div PMM_FRAME_SIZE # f
  <2>1. i \in 1 .. n /\ i # 1
    BY <1>2
  <2>2. s[i] = (s[i] \div PMM_FRAME_SIZE) * PMM_FRAME_SIZE
    BY <1>2, <2>1, AddrFrame
  <2>3. s[i] # s[1]
    BY <1>4, <1>9, <2>1
  <2> QED BY <1>5, <2>2, <2>3
<1>11. Taken(t) = {s[i] \div PMM_FRAME_SIZE : i \in 2 .. n}
  <2>1. ASSUME NEW i \in 1 .. n - 1
        PROVE  \E j \in 2 .. n : t[i] \div PMM_FRAME_SIZE = s[j] \div PMM_FRAME_SIZE
    <3>1. i + 1 \in 2 .. n
      BY <1>2
    <3> QED BY <1>3, <3>1
  <2>2. ASSUME NEW j \in 2 .. n
        PROVE  \E i \in 1 .. n - 1 : t[i] \div PMM_FRAME_SIZE = s[j] \div PMM_FRAME_SIZE
    <3>1. j - 1 \in 1 .. n - 1 /\ (j - 1) + 1 = j
      BY <1>2
    <3>2. t[j - 1] = s[j]
      BY <1>3, <3>1
    <3> QED BY <3>1, <3>2
  <2>3. Taken(t) = {t[i] \div PMM_FRAME_SIZE : i \in 1 .. n - 1}
    BY <1>3 DEF Taken
  <2>4. ASSUME NEW x \in Taken(t) PROVE x \in {s[i] \div PMM_FRAME_SIZE : i \in 2 .. n}
    <3>1. PICK i \in 1 .. n - 1 : x = t[i] \div PMM_FRAME_SIZE
      BY <2>3, <2>4
    <3> QED BY <2>1, <3>1
  <2>5. ASSUME NEW x \in {s[i] \div PMM_FRAME_SIZE : i \in 2 .. n} PROVE x \in Taken(t)
    <3>1. PICK j \in 2 .. n : x = s[j] \div PMM_FRAME_SIZE
      BY <2>5
    <3> QED BY <2>2, <2>3, <3>1
  <2> QED BY <2>4, <2>5
<1>12. Taken(s) = Taken(t) \cup {f} /\ f \notin Taken(t)
  <2>1. 1 .. n = {1} \cup 2 .. n
    BY <1>2
  <2>2. Taken(s) = {s[i] \div PMM_FRAME_SIZE : i \in {1} \cup 2 .. n}
    BY <1>2, <2>1 DEF Taken
  <2> QED BY <1>10, <1>11, <2>2 DEF f
<1>13. IsInjective(t)
  <2>1. ASSUME NEW i \in 1 .. n - 1, NEW j \in 1 .. n - 1, t[i] = t[j]
        PROVE  i = j
    <3>1. i + 1 \in 1 .. n /\ j + 1 \in 1 .. n
      BY <1>2
    <3>2. s[i + 1] = s[j + 1]
      BY <1>3, <2>1
    <3>3. i + 1 = j + 1
      BY <1>9, <3>1, <3>2
    <3> QED BY <3>3
  <2> QED BY <1>3, <2>1 DEF IsInjective
<1>14. TestState(r, t, pool)
  BY <1>3, <1>8, <1>12, <1>13 DEF TestState
<1> QED BY <1>2, <1>14 DEF r, t

(* The size of the pool, from the counter and the number of taken frames. *)
LEMMA PoolSize ==
  ASSUME NEW q, NEW s, NEW pool, TestState(q, s, pool)
  PROVE  /\ Len(s) \in Nat /\ q.free_frames \in Nat
         /\ IsFiniteSet(Taken(s)) /\ Cardinality(Taken(s)) = Len(s)
         /\ Cardinality(pool) = q.free_frames + Len(s)
<1>1. PmmInv(q) /\ s \in Seq(FrameAddrs) /\ IsInjective(s)
  BY DEF TestState
<1> DEFINE n == Len(s)
           F == [i \in 1 .. n |-> s[i] \div PMM_FRAME_SIZE]
<1>2. n \in Nat /\ DOMAIN s = 1 .. n /\ \A i \in 1 .. n : s[i] \in FrameAddrs
  BY <1>1
<1> HIDE DEF n
<1>3. F \in [1 .. n -> Taken(s)]
  BY <1>2 DEF Taken
<1>4. ASSUME NEW i \in 1 .. n, NEW j \in 1 .. n, F[i] = F[j] PROVE i = j
  <2>1. s[i] = F[i] * PMM_FRAME_SIZE /\ s[j] = F[j] * PMM_FRAME_SIZE
    BY <1>2, AddrFrame
  <2> QED BY <1>1, <1>2, <1>4, <2>1 DEF IsInjective
<1>5. \A x \in Taken(s) : \E i \in 1 .. n : F[i] = x
  BY <1>2 DEF Taken
<1>6. F \in Bijection(1 .. n, Taken(s))
  <2>1. DOMAIN F = 1 .. n
    OBVIOUS
  <2> HIDE DEF F
  <2>2. IsInjective(F)
    BY <1>4, <2>1 DEF IsInjective
  <2> QED BY <1>3, <1>5, <2>2 DEF Bijection, Injection, Surjection
<1>7. IsFiniteSet(1 .. n) /\ Cardinality(1 .. n) = n
  BY <1>2, FS_Interval
<1>8. IsFiniteSet(Taken(s)) /\ Cardinality(Taken(s)) = n
  <2> HIDE DEF F
  <2> QED BY <1>6, <1>7, FS_Bijection DEF ExistsBijection
<1>9. /\ IsFiniteSet(ClearFrames(q)) /\ q.free_frames = Cardinality(ClearFrames(q))
      /\ q.free_frames \in Nat
  BY <1>1, ClearFinite, FS_CardinalityType DEF PmmInv
<1>10. ClearFrames(q) \cap Taken(s) = {} /\ pool = ClearFrames(q) \cup Taken(s)
  BY DEF TestState
<1>11. Cardinality(ClearFrames(q) \cap Taken(s)) = 0
  BY <1>10, FS_EmptySet
<1>12. Cardinality(pool) = q.free_frames + n - 0
  BY <1>8, <1>9, <1>10, <1>11, FS_Union
<1> QED BY <1>2, <1>8, <1>9, <1>12 DEF n

-----------------------------------------------------------------------------
(* The inductive invariant. *)

Early == {"map_header", "read_size", "parse", "bitmap"}
Up == {"running", "tested"} \cup TestStages

UsableEntries == {r \in MapEntries : r.type = MB2_MMAP_TYPE_AVAILABLE}
HeldFrames == {pa \div PMM_FRAME_SIZE : pa \in held}

(* What is mapped, and where the structure lies, once it has been checked. *)
MapInv ==
  /\ 0 \in pd
  /\ stage = "read_size" =>
       /\ env.mb_info > 0 /\ env.mb_info + HEADER <= PMM_MAX_PHYS
       /\ MappedIn(pd, env.mb_info, env.mb_info + HEADER)
  /\ stage \in {"parse", "bitmap", "extend"} \cup Up => InfoPlaced
  /\ stage = "parse" => MappedIn(pd, env.mb_info, env.mb_info + env.total_size)

(* What has been copied at each point of the walk, and that a well-formed   *)
(* structure is not refused.                                                *)
WalkInv ==
  /\ stage \in {"map_header", "read_size"} => p = HEADER /\ ranges = {}
  /\ stage = "parse" =>
       /\ p \in Nat /\ Passed(p) /\ ranges = Copied(p)
       /\ \A end \in DOMAIN env.tags :
            WellFormedUpTo(end) => p \in DOMAIN env.tags /\ p <= end
  /\ stage \in {"bitmap", "extend"} => UsableRanges = UsableEntries
  /\ stage = "halted" => ~WellFormed \/ 0 \notin ClearFrames(pmm)

(* The pool, from the bitmap's first contents to normal operation. *)
PoolInv ==
  /\ stage \in Early \cup {"extend"} => held = {} /\ ret = 0
  /\ stage = "extend" => Booted(pmm) /\ ClearFrames(pmm) = Allocatable
  /\ stage \in {"running", "tested"} =>
       IInv /\ ClearFrames(pmm) \cup HeldFrames = Allocatable
  /\ stage \in Up => \A f \in Allocatable : MappedIn(pd, FrameLo(f), FrameHi(f))

(* The self-test: its pool, and its verdict so far. *)
TestInv ==
  stage \in TestStages =>
    /\ TestState(pmm, test.frames, test.pool)
    /\ HeldType
    /\ HeldFrames \cap test.pool = {}
    /\ HeldFrames \cup test.pool = Allocatable
    /\ Len(test.frames) <= PMM_SELF_TEST_FRAMES
    /\ test.before = Cardinality(test.pool)
    /\ stage \in {"test_free", "test_reuse", "reuse_free"} =>
         Cardinality(test.pool) >= PMM_SELF_TEST_FRAMES
    /\ stage = "test_undo" => Cardinality(test.pool) < PMM_SELF_TEST_FRAMES
    /\ stage # "reuse_undo"

BootInv ==
  /\ env \in BootEnvs
  /\ stage \in Early \cup {"extend", "halted"} \cup Up
  /\ test \in [before : Nat, frames : Seq(FrameAddrs), pool : SUBSET Frames]
  /\ ReadsMapped
  /\ MapInv
  /\ WalkInv
  /\ PoolInv
  /\ TestInv

USE DEF Early, Up, TestStages, Releasing

(* What depends on the environment only does not change. *)
LEMMA EnvKept ==
  ASSUME env' = env
  PROVE  /\ MapEntries' = MapEntries /\ UsableEntries' = UsableEntries
         /\ Allocatable' = Allocatable
         /\ InfoPlaced' <=> InfoPlaced
         /\ \A end : WellFormedUpTo(end)' <=> WellFormedUpTo(end)
         /\ WellFormed' <=> WellFormed
<1>1. MapEntries' = MapEntries
  BY DEF MapEntries
<1>2. UsableEntries' = UsableEntries
  BY <1>1 DEF UsableEntries
<1>3. Reserved' = Reserved
  BY DEF Reserved
<1>4. Allocatable' = Allocatable
  BY <1>1, <1>3 DEF Allocatable
<1>5. \A end : WellFormedUpTo(end)' <=> WellFormedUpTo(end)
  BY DEF WellFormedUpTo
<1> QED BY <1>1, <1>2, <1>4, <1>5 DEF InfoPlaced, WellFormed

(* On entry to pmm_init nothing has been read or mapped. *)
LEMMA BootInitInv == BootInit => BootInv
<1> SUFFICES ASSUME BootInit PROVE BootInv
  OBVIOUS
<1>1. test \in [before : Nat, frames : Seq(FrameAddrs), pool : SUBSET Frames]
  BY DEF BootInit
<1>2. MapInv /\ WalkInv /\ PoolInv /\ TestInv
  BY DEF BootInit, MapInv, WalkInv, PoolInv, TestInv
<1> QED BY <1>1, <1>2 DEF BootInit, BootInv, ReadsMapped

(* The structure whose header could be mapped. *)
LEMMA MapHeaderInv == BootInv /\ MapHeader => BootInv'
<1> SUFFICES ASSUME BootInv, MapHeader PROVE BootInv'
  OBVIOUS
<1>1. /\ env' = env /\ test' = test /\ stray' = stray /\ p' = p /\ ranges' = ranges
      /\ held' = held /\ ret' = ret /\ pmm' = pmm /\ stage = "map_header"
  BY DEF MapHeader, NotRunning, Fail
<1>2. env.mb_info \in Nat /\ env.total_size \in Nat
  BY EnvTypes DEF BootInv
<1>3. CASE env.mb_info = 0 \/ CannotMap(env.mb_info, HEADER)
  <2>1. stage' = "halted" /\ pd' = pd
    BY <1>3 DEF MapHeader, Fail
  <2>2. ~WellFormed
    <3> SUFFICES ASSUME NEW end \in DOMAIN env.tags, WellFormedUpTo(end) PROVE FALSE
      BY DEF WellFormed
    <3>1. end \in Nat /\ end >= 8
      BY EnvTypes DEF BootInv
    <3>2. /\ env.total_size = end + 8 /\ env.mb_info > 0
          /\ env.mb_info + env.total_size <= PMM_MAX_PHYS
      BY DEF WellFormedUpTo
    <3> QED BY <1>2, <1>3, <3>1, <3>2, Sizes DEF CannotMap, HEADER
  <2>3. ~WellFormed'
    BY <1>1, <2>2, EnvKept
  <2> QED BY <1>1, <2>1, <2>3
       DEF BootInv, ReadsMapped, MapInv, WalkInv, PoolInv, TestInv
<1>4. CASE ~(env.mb_info = 0 \/ CannotMap(env.mb_info, HEADER))
  <2>1. stage' = "read_size" /\ pd' = ensure_2mb_mapped(pd, env.mb_info, HEADER)
    BY <1>4 DEF MapHeader
  <2>2. /\ MappedIn(ensure_2mb_mapped(pd, env.mb_info, HEADER), env.mb_info, env.mb_info + HEADER)
        /\ pd \subseteq ensure_2mb_mapped(pd, env.mb_info, HEADER)
    BY <1>2, EnsureMaps DEF HEADER
  <2>3. env.mb_info > 0 /\ env.mb_info + HEADER <= PMM_MAX_PHYS
    BY <1>2, <1>4, Sizes DEF CannotMap, HEADER
  <2>4. MapInv'
    BY <1>1, <2>1, <2>2, <2>3 DEF BootInv, MapInv, MappedIn
  <2>5. WalkInv' /\ PoolInv' /\ TestInv'
    BY <1>1, <2>1 DEF BootInv, WalkInv, PoolInv, TestInv
  <2> QED BY <1>1, <2>1, <2>4, <2>5 DEF BootInv, ReadsMapped
<1> QED BY <1>3, <1>4

(* The structure as a whole. *)
LEMMA MapBodyInv == BootInv /\ MapBody => BootInv'
<1> SUFFICES ASSUME BootInv, MapBody PROVE BootInv'
  OBVIOUS
<1>1. /\ env' = env /\ test' = test /\ p' = p /\ ranges' = ranges
      /\ held' = held /\ ret' = ret /\ pmm' = pmm /\ stage = "read_size"
  BY DEF MapBody, NotRunning, Fail
<1>2. env.mb_info \in Nat /\ env.total_size \in Nat
  BY EnvTypes DEF BootInv
<1>3. stray' = {}
  <2>1. MappedIn(pd, env.mb_info, env.mb_info + HEADER)
    BY <1>1 DEF BootInv, MapInv
  <2>2. MappedIn(pd, env.mb_info + 0, env.mb_info + 4)
    BY <1>2, <2>1, MappedPart DEF HEADER
  <2>3. stray' = stray \cup {r \in {<<0, 4>>} : \/ r[2] > HEADER
                                 \/ ~MappedIn(pd, env.mb_info + r[1], env.mb_info + r[2])}
    BY DEF MapBody, Read
  <2>4. stray = {}
    BY DEF BootInv, ReadsMapped
  <2>5. <<0, 4>>[1] = 0 /\ <<0, 4>>[2] = 4 /\ ~(4 > HEADER)
    BY DEF HEADER
  <2> QED BY <2>2, <2>3, <2>4, <2>5
<1> DEFINE bad == \/ env.total_size = 0 \/ env.total_size > INFO_SIZE_MAX
                  \/ CannotMap(env.mb_info, env.total_size)
<1>4. CASE bad
  <2>1. stage' = "halted" /\ pd' = pd
    BY <1>4 DEF MapBody, Fail
  <2>2. ~WellFormed
    <3> SUFFICES ASSUME NEW end \in DOMAIN env.tags, WellFormedUpTo(end) PROVE FALSE
      BY DEF WellFormed
    <3>1. end \in Nat /\ end >= 8
      BY EnvTypes DEF BootInv
    <3>2. /\ env.total_size = end + 8 /\ env.mb_info > 0 /\ env.total_size <= INFO_SIZE_MAX
          /\ env.mb_info + env.total_size <= PMM_MAX_PHYS
      BY DEF WellFormedUpTo
    <3> QED BY <1>2, <1>4, <3>1, <3>2, Sizes, BootConstants DEF CannotMap
  <2>3. ~WellFormed'
    BY <1>1, <2>2, EnvKept
  <2> QED BY <1>1, <1>3, <2>1, <2>3
       DEF BootInv, ReadsMapped, MapInv, WalkInv, PoolInv, TestInv
<1>5. CASE ~bad
  <2>1. stage' = "parse" /\ pd' = ensure_2mb_mapped(pd, env.mb_info, env.total_size)
    BY <1>5 DEF MapBody
  <2>2. /\ MappedIn(ensure_2mb_mapped(pd, env.mb_info, env.total_size),
                    env.mb_info, env.mb_info + env.total_size)
        /\ pd \subseteq ensure_2mb_mapped(pd, env.mb_info, env.total_size)
    BY <1>2, <1>5, EnsureMaps
  <2>3. InfoPlaced
    BY <1>1, <1>2, <1>5, Sizes DEF BootInv, MapInv, InfoPlaced, CannotMap
  <2>4. InfoPlaced'
    BY <1>1, <2>3, EnvKept
  <2>5. MapInv'
    BY <1>1, <2>1, <2>2, <2>4 DEF BootInv, MapInv, MappedIn
  <2>6. WalkInv'
    <3>1. p = HEADER /\ ranges = {}
      BY <1>1 DEF BootInv, WalkInv
    <3>2. \A o \in DOMAIN env.tags : o \in Nat /\ o >= 8
      BY EnvTypes DEF BootInv
    <3>3. \A o \in DOMAIN env.tags : ~(o < p)
      BY <3>1, <3>2 DEF HEADER
    <3>4. Passed(p)'
      BY <1>1, <3>3 DEF Passed
    <3>5. (ranges = Copied(p))'
      BY <1>1, <3>1, <3>3 DEF Copied
    <3>6. p' \in DOMAIN env'.tags /\ \A end \in DOMAIN env'.tags : p' <= end
      BY <1>1, <3>1, <3>2, EnvTypes DEF BootInv, HEADER
    <3>7. p' \in Nat
      BY <1>1, <3>1 DEF HEADER
    <3> QED BY <2>1, <3>4, <3>5, <3>6, <3>7 DEF WalkInv
  <2>7. PoolInv' /\ TestInv'
    BY <1>1, <2>1 DEF BootInv, PoolInv, TestInv
  <2> QED BY <1>1, <1>3, <2>1, <2>5, <2>6, <2>7 DEF BootInv, ReadsMapped
<1> QED BY <1>4, <1>5

(* A round of the walk. *)
LEMMA ParseTagInv == BootInv /\ ParseTag => BootInv'
<1> SUFFICES ASSUME BootInv, ParseTag PROVE BootInv'
  OBVIOUS
<1> DEFINE tag == TagAt(p)
<1>1. /\ env' = env /\ test' = test /\ held' = held /\ ret' = ret /\ pmm' = pmm
      /\ stage = "parse" /\ p + 8 <= env.total_size
      /\ Read(TagReads(tag, p), env.total_size)
      /\ tag.type # MB2_TAG_END
      /\ IF Refused(tag, p) THEN Fail
         ELSE /\ ranges' = ranges \cup UsableIn(tag, p)
              /\ p' = Align8(p + tag.size)
              /\ UNCHANGED <<stage, pd>>
  BY DEF ParseTag, NotRunning
<1>2. /\ env \in BootEnvs /\ env.mb_info \in Nat /\ env.total_size \in Nat
      /\ tag.type \in Nat /\ tag.size \in Nat /\ tag.entry_size \in Nat
  BY EnvTypes, TagTypes DEF BootInv
<1>3. /\ p \in Nat /\ Passed(p) /\ ranges = Copied(p)
      /\ \A end \in DOMAIN env.tags :
           WellFormedUpTo(end) => p \in DOMAIN env.tags /\ p <= end
  BY <1>1 DEF BootInv, WalkInv
<1>4. InfoPlaced /\ MappedIn(pd, env.mb_info, env.mb_info + env.total_size) /\ 0 \in pd
  BY <1>1 DEF BootInv, MapInv
<1> HIDE DEF tag
<1>5. stray' = {}
  <2>1. ASSUME NEW r \in TagReads(tag, p)
        PROVE  /\ ~(r[2] > env.total_size)
               /\ MappedIn(pd, env.mb_info + r[1], env.mb_info + r[2])
    <3>1. r[1] \in Nat /\ r[2] \in Nat /\ r[1] < r[2] /\ r[2] <= env.total_size
      BY <1>1, <1>2, <1>3, <2>1, ReadsInside
    <3> DEFINE a == env.mb_info + r[1]
               b == env.mb_info + r[2]
               lo == env.mb_info
               hi == env.mb_info + env.total_size
    <3>2. /\ lo \in Nat /\ hi \in Nat /\ a \in Nat /\ b \in Nat
          /\ lo <= a /\ a < b /\ b <= hi
      BY <1>2, <3>1
    <3>3. MappedIn(pd, lo, hi)
      BY <1>4
    <3> HIDE DEF a, b, lo, hi
    <3>4. MappedIn(pd, a, b)
      BY <3>2, <3>3, MappedPart
    <3> QED BY <1>2, <3>1, <3>4 DEF a, b
  <2>2. stray' = stray \cup {r \in TagReads(tag, p) : \/ r[2] > env.total_size
                               \/ ~MappedIn(pd, env.mb_info + r[1], env.mb_info + r[2])}
    BY <1>1 DEF Read
  <2>3. stray = {}
    BY DEF BootInv, ReadsMapped
  <2> QED BY <2>1, <2>2, <2>3
<1>6. CASE Refused(tag, p)
  <2>1. stage' = "halted" /\ pd' = pd /\ p' = p /\ ranges' = ranges
    BY <1>1, <1>6 DEF Fail
  <2>2. ~WellFormed
    <3> SUFFICES ASSUME NEW end \in DOMAIN env.tags, WellFormedUpTo(end) PROVE FALSE
      BY DEF WellFormed
    <3>1. p \in DOMAIN env.tags /\ p <= end
      BY <1>3
    <3>2. ~Refused(TagAt(p), p)
      BY <1>1, <1>2, <1>3, <3>1, WalkAccepts DEF tag
    <3> QED BY <1>6, <3>2 DEF tag
  <2>3. ~WellFormed'
    BY <1>1, <2>2, EnvKept
  <2> QED BY <1>1, <1>4, <1>5, <2>1, <2>3
       DEF BootInv, ReadsMapped, MapInv, WalkInv, PoolInv, TestInv
<1>7. CASE ~Refused(tag, p)
  <2> DEFINE off == Align8(p + tag.size)
  <2>1. /\ ranges' = ranges \cup UsableIn(tag, p) /\ p' = off
        /\ stage' = "parse" /\ pd' = pd
    BY <1>1, <1>7
  <2>2. ~BadSize(tag, p)
    BY <1>7 DEF Refused
  <2>3. /\ p \in DOMAIN env.tags /\ tag = env.tags[p]
        /\ off \in Nat /\ off > p
        /\ Passed(off) /\ Copied(off) = Copied(p) \cup UsableIn(tag, p)
    BY <1>1, <1>2, <1>3, <2>2, WalkStep DEF tag
  <2>4. ASSUME NEW end \in DOMAIN env.tags, WellFormedUpTo(end)
        PROVE  off \in DOMAIN env.tags /\ off <= end
    <3>1. p \in DOMAIN env.tags /\ p <= end
      BY <1>3, <2>4
    <3> QED BY <1>1, <1>2, <1>3, <2>4, <3>1, WalkAccepts DEF tag
  <2> HIDE DEF off
  <2>5. Passed(p)'
    BY <1>1, <2>1, <2>3 DEF Passed
  <2>6. (ranges = Copied(p))'
    <3>1. ranges' = Copied(off)
      BY <1>3, <2>1, <2>3
    <3> QED BY <1>1, <2>1, <3>1 DEF Copied
  <2>7. \A end \in DOMAIN env'.tags :
          WellFormedUpTo(end)' => p' \in DOMAIN env'.tags /\ p' <= end
    BY <1>1, <2>1, <2>4, EnvKept
  <2>8. WalkInv'
    BY <2>1, <2>3, <2>5, <2>6, <2>7 DEF WalkInv
  <2>9. InfoPlaced'
    BY <1>1, <1>4, EnvKept
  <2>10. MapInv'
    BY <1>1, <1>4, <2>1, <2>9 DEF MapInv, MappedIn
  <2>11. PoolInv' /\ TestInv'
    BY <1>1, <2>1 DEF BootInv, PoolInv, TestInv
  <2> QED BY <1>1, <1>5, <2>1, <2>8, <2>10, <2>11 DEF BootInv, ReadsMapped
<1> QED BY <1>6, <1>7

(* The end of the walk. *)
LEMMA ParseEndInv == BootInv /\ ParseEnd => BootInv'
<1> SUFFICES ASSUME BootInv, ParseEnd PROVE BootInv'
  OBVIOUS
<1>1. /\ env' = env /\ test' = test /\ held' = held /\ ret' = ret /\ pmm' = pmm
      /\ stage = "parse" /\ stage' = "bitmap"
      /\ pd' = pd /\ p' = p /\ ranges' = ranges
  BY DEF ParseEnd, NotRunning
<1>2. /\ env \in BootEnvs /\ env.mb_info \in Nat /\ env.total_size \in Nat
  BY EnvTypes DEF BootInv
<1>3. p \in Nat /\ Passed(p) /\ ranges = Copied(p)
  BY <1>1 DEF BootInv, WalkInv
<1>4. InfoPlaced /\ MappedIn(pd, env.mb_info, env.mb_info + env.total_size) /\ 0 \in pd
  BY <1>1 DEF BootInv, MapInv
<1>5. p + 8 > env.total_size \/ TagAt(p).type = MB2_TAG_END
  BY <1>2, <1>3 DEF ParseEnd
<1>6. stray' = {}
  <2>0. stray = {}
    BY DEF BootInv, ReadsMapped
  <2>1. CASE p + 8 <= env.total_size
    <3>1. stray' = stray \cup {r \in {<<p, p + 8>>} : \/ r[2] > env.total_size
                               \/ ~MappedIn(pd, env.mb_info + r[1], env.mb_info + r[2])}
      BY <2>1 DEF ParseEnd, Read
    <3> DEFINE a == env.mb_info + p
               b == env.mb_info + (p + 8)
               lo == env.mb_info
               hi == env.mb_info + env.total_size
    <3>2. /\ lo \in Nat /\ hi \in Nat /\ a \in Nat /\ b \in Nat
          /\ lo <= a /\ a < b /\ b <= hi
      BY <1>2, <1>3, <2>1
    <3>3. MappedIn(pd, lo, hi)
      BY <1>4
    <3> HIDE DEF a, b, lo, hi
    <3>4. MappedIn(pd, a, b)
      BY <3>2, <3>3, MappedPart
    <3>5. MappedIn(pd, env.mb_info + p, env.mb_info + (p + 8))
      BY <3>4 DEF a, b
    <3>6. <<p, p + 8>>[1] = p /\ <<p, p + 8>>[2] = p + 8 /\ ~(p + 8 > env.total_size)
      BY <1>2, <1>3, <2>1
    <3> QED BY <2>0, <3>1, <3>5, <3>6
  <2>2. CASE ~(p + 8 <= env.total_size)
    BY <2>0, <2>2 DEF ParseEnd
  <2> QED BY <2>1, <2>2
<1>7. UsableRanges = UsableEntries
  BY <1>2, <1>3, <1>5, WalkComplete DEF UsableEntries
<1>8. UsableRanges' = UsableRanges
  BY <1>1 DEF UsableRanges
<1>9. WalkInv'
  BY <1>1, <1>7, <1>8, EnvKept DEF WalkInv
<1>10. InfoPlaced'
  BY <1>1, <1>4, EnvKept
<1>11. MapInv'
  BY <1>1, <1>4, <1>10 DEF MapInv
<1>12. PoolInv' /\ TestInv'
  BY <1>1 DEF BootInv, PoolInv, TestInv
<1> QED BY <1>1, <1>6, <1>9, <1>11, <1>12 DEF BootInv, ReadsMapped

(* The bitmap offers exactly the allocatable frames. *)
LEMMA BitmapInitInv == BootInv /\ BitmapInit => BootInv'
<1> SUFFICES ASSUME BootInv, BitmapInit PROVE BootInv'
  OBVIOUS
<1> DEFINE q == pmm_bitmap_init(UsableRanges, env.bss_end, env.mb_info,
                                Add(env.mb_info, env.total_size))
<1>1. /\ env' = env /\ test' = test /\ held' = held /\ ret' = ret
      /\ stage = "bitmap" /\ stage' = "extend" /\ stray' = stray
      /\ pd' = pd /\ p' = p /\ ranges' = ranges /\ pmm' = q
  BY DEF BitmapInit
<1>2. env \in BootEnvs /\ InfoPlaced /\ 0 \in pd /\ UsableRanges = UsableEntries
  BY <1>1 DEF BootInv, MapInv, WalkInv
<1>3. UsableRanges \in SUBSET Entry
  BY <1>2, EntryTypes DEF UsableEntries
<1>4. /\ ClearFrames(q) =
           {f \in Frames :
              /\ \E r \in UsableRanges : r.base <= FrameLo(f)
                                 /\ FrameHi(f) <= r.base + r.length
              /\ Unreserved(f)}
      /\ Booted(q)
  BY <1>2, <1>3, BitmapMeaning
<1> HIDE DEF q
<1>5. ClearFrames(q) = Allocatable
  BY <1>2, <1>4 DEF Allocatable, UsableEntries, Unreserved
<1>6. PoolInv'
  <2>1. held = {} /\ ret = 0
    BY <1>1 DEF BootInv, PoolInv
  <2> QED BY <1>1, <1>4, <1>5, <2>1, EnvKept DEF PoolInv
<1>7. UsableRanges' = UsableRanges
  BY <1>1 DEF UsableRanges
<1>8. WalkInv'
  BY <1>1, <1>2, <1>7, EnvKept DEF WalkInv
<1>9. MapInv'
  BY <1>1, <1>2, EnvKept DEF MapInv
<1>10. TestInv'
  BY <1>1 DEF TestInv
<1> QED BY <1>1, <1>2, <1>6, <1>8, <1>9, <1>10 DEF BootInv, ReadsMapped

(* A booted allocator satisfies the allocator's own invariant. *)
LEMMA BootedInv ==
  ASSUME Booted(pmm), held = {}, ret = 0
  PROVE  IInv
<1>1. Init
  <2>1. pmm \in [bitmap : [Frames -> {0, 1}], free_frames : 0 .. PMM_FRAME_COUNT,
                 hint : {0}]
    <3>1. pmm.free_frames \in 0 .. PMM_FRAME_COUNT
      BY ClearFinite DEF Booted
    <3> QED BY <3>1 DEF Booted
  <2> QED BY <2>1 DEF Init
<1> QED BY <1>1, InitInv

(* The identity map reaches every frame that is offered. *)
LEMMA ExtendInv == BootInv /\ ExtendIdentity => BootInv'
<1> SUFFICES ASSUME BootInv, ExtendIdentity PROVE BootInv'
  OBVIOUS
<1>1. /\ env' = env /\ test' = test /\ held' = held /\ ret' = ret /\ pmm' = pmm
      /\ stage = "extend" /\ stage' = "running" /\ stray' = stray
      /\ pd' = pmm_extend_identity(pd, MaxEnd(UsableRanges))
  BY DEF ExtendIdentity, NotRunning
<1>2. env \in BootEnvs /\ InfoPlaced /\ 0 \in pd /\ UsableRanges = UsableEntries
  BY <1>1 DEF BootInv, MapInv, WalkInv
<1>3. UsableRanges \in SUBSET Entry
  BY <1>2, EntryTypes DEF UsableEntries
<1>4. held = {} /\ ret = 0 /\ Booted(pmm) /\ ClearFrames(pmm) = Allocatable
  BY <1>1 DEF BootInv, PoolInv
<1>5. IInv
  BY <1>4, BootedInv
<1>6. IInv'
  BY <1>1, <1>5 DEF IInv, TypeOK, CountExact, HintSound, NoDoubleGrant, Used
<1>7. ASSUME NEW f \in Allocatable
      PROVE  MappedIn(pd', FrameLo(f), FrameHi(f))
  <2>1. PICK r \in UsableRanges : FrameHi(f) <= r.base + r.length
    BY <1>2, <1>7 DEF Allocatable, UsableEntries
  <2>2. f \in Frames
    BY <1>7 DEF Allocatable
  <2> QED BY <1>1, <1>2, <1>3, <2>1, <2>2, ExtendMaps
<1>8. (ClearFrames(pmm) \cup HeldFrames = Allocatable)'
  BY <1>1, <1>4, EnvKept DEF HeldFrames
<1>9. PoolInv'
  BY <1>1, <1>6, <1>7, <1>8, EnvKept DEF PoolInv, MappedIn, FrameLo, FrameHi
<1>10. 0 \in pd'
  BY <1>1, <1>2 DEF pmm_extend_identity
<1>11. MapInv' /\ WalkInv' /\ TestInv'
  BY <1>1, <1>2, <1>10, EnvKept DEF MapInv, WalkInv, TestInv
<1> QED BY <1>1, <1>2, <1>9, <1>11 DEF BootInv, ReadsMapped

(* Normal operation: callers allocate and give back. *)
LEMMA RunningInv == BootInv /\ Running => BootInv'
<1> SUFFICES ASSUME BootInv, Running PROVE BootInv'
  OBVIOUS
<1>1. /\ env' = env /\ stage' = stage /\ pd' = pd /\ p' = p /\ ranges' = ranges
      /\ stray' = stray /\ test' = test
      /\ stage \in {"running", "tested"} /\ Next
  BY DEF Running
<1>2. /\ IInv /\ ClearFrames(pmm) \cup HeldFrames = Allocatable
      /\ InfoPlaced /\ 0 \in pd /\ env \in BootEnvs
      /\ \A f \in Allocatable : MappedIn(pd, FrameLo(f), FrameHi(f))
  BY <1>1 DEF BootInv, PoolInv, MapInv
<1>3. IInv'
  BY <1>1, <1>2, NextInv
<1>4. ClearFrames(pmm') \cup HeldFrames' = ClearFrames(pmm) \cup HeldFrames
  <2>1. CASE StepTake
    <3>1. PICK f \in ClearFrames(pmm) :
            /\ ClearFrames(pmm') = ClearFrames(pmm) \ {f}
            /\ held' = held \cup {f * PMM_FRAME_SIZE}
      BY <2>1 DEF StepTake
    <3>2. (f * PMM_FRAME_SIZE) \div PMM_FRAME_SIZE = f
      BY FrameOfAddr DEF ClearFrames
    <3>3. HeldFrames' = HeldFrames \cup {f}
      BY <3>1, <3>2 DEF HeldFrames
    <3> QED BY <3>1, <3>3
  <2>2. CASE StepRefuse
    BY <2>2 DEF StepRefuse, HeldFrames
  <2>3. CASE StepGive
    <3>1. PICK f \in Frames \ {0} :
            /\ f * PMM_FRAME_SIZE \in held
            /\ ClearFrames(pmm') = ClearFrames(pmm) \cup {f}
            /\ held' = held \ {f * PMM_FRAME_SIZE}
      BY <2>3 DEF StepGive
    <3>2. (f * PMM_FRAME_SIZE) \div PMM_FRAME_SIZE = f
      BY FrameOfAddr
    <3>3. HeldFrames' \cup {f} = HeldFrames \cup {f} /\ f \in HeldFrames
      BY <3>1, <3>2 DEF HeldFrames
    <3> QED BY <3>1, <3>3
  <2>4. CASE UNCHANGED pmmVars
    BY <2>4 DEF pmmVars, HeldFrames
  <2> QED BY <1>1, <1>2, <2>1, <2>2, <2>3, <2>4, NextStep
<1>5. PoolInv'
  BY <1>1, <1>2, <1>3, <1>4, EnvKept DEF PoolInv, MappedIn, FrameLo, FrameHi
<1>6. MapInv' /\ WalkInv' /\ TestInv'
  BY <1>1, <1>2, EnvKept DEF MapInv, WalkInv, TestInv
<1> QED BY <1>1, <1>2, <1>5, <1>6 DEF BootInv, ReadsMapped

(* What the self-test changes: the allocator, its own variables, the stage. *)
LEMMA TestFrame ==
  ASSUME BootInv, stage \in Up, stage' \in Up, OutsideTest
  PROVE  /\ env' = env /\ env' \in BootEnvs /\ ReadsMapped' /\ MapInv' /\ WalkInv'
         /\ Allocatable' = Allocatable /\ HeldFrames' = HeldFrames
         /\ \A f \in Allocatable' : MappedIn(pd, FrameLo(f), FrameHi(f))'
<1>1. /\ held' = held /\ ret' = ret /\ env' = env /\ pd' = pd /\ p' = p
      /\ ranges' = ranges /\ stray' = stray
  BY DEF OutsideTest
<1>2. /\ InfoPlaced /\ 0 \in pd /\ env \in BootEnvs /\ stray = {}
      /\ \A f \in Allocatable : MappedIn(pd, FrameLo(f), FrameHi(f))
  BY DEF BootInv, PoolInv, MapInv, ReadsMapped
<1>3. MapInv' /\ WalkInv'
  BY <1>1, <1>2, EnvKept DEF MapInv, WalkInv
<1>4. Allocatable' = Allocatable /\ HeldFrames' = HeldFrames
  BY <1>1, EnvKept DEF HeldFrames
<1> QED BY <1>1, <1>2, <1>3, <1>4 DEF ReadsMapped, MappedIn, FrameLo, FrameHi

(* The test starts from the free frames. *)
LEMMA TestBeginInv == BootInv /\ TestBegin => BootInv'
<1> SUFFICES ASSUME BootInv, TestBegin PROVE BootInv'
  OBVIOUS
<1>1. /\ stage = "running" /\ stage' = "test_alloc" /\ pmm' = pmm /\ OutsideTest
      /\ held' = held /\ ret' = ret
      /\ test' = [before |-> pmm.free_frames, frames |-> <<>>, pool |-> ClearFrames(pmm)]
  BY DEF TestBegin, OutsideTest
<1>2. IInv /\ ClearFrames(pmm) \cup HeldFrames = Allocatable
  BY <1>1 DEF BootInv, PoolInv
<1>3. PmmInv(pmm) /\ HeldType /\ NoDoubleGrant
  BY <1>2, IInvParts
<1>4. pmm.free_frames = Cardinality(ClearFrames(pmm)) /\ pmm.free_frames \in Nat
  BY <1>3, ClearFinite, FrameCountAssumption DEF PmmInv
<1>5. /\ test'.frames = <<>> /\ test'.pool = ClearFrames(pmm)
      /\ test'.before = pmm.free_frames
  BY <1>1
<1>6. TestState(pmm, <<>>, ClearFrames(pmm))
  BY <1>3 DEF TestState, Taken, IsInjective
<1>7. HeldFrames \cap ClearFrames(pmm) = {}
  <2>1. ASSUME NEW pa \in held PROVE pa \div PMM_FRAME_SIZE \notin ClearFrames(pmm)
    BY <1>3, <2>1 DEF NoDoubleGrant, Used, ClearFrames
  <2> QED BY <2>1 DEF HeldFrames
<1>8. /\ env' = env /\ env' \in BootEnvs /\ ReadsMapped' /\ MapInv' /\ WalkInv'
      /\ Allocatable' = Allocatable /\ HeldFrames' = HeldFrames
      /\ \A f \in Allocatable' : MappedIn(pd, FrameLo(f), FrameHi(f))'
  BY <1>1, TestFrame
<1>9. TestInv'
  <2>1. TestState(pmm, test.frames, test.pool)'
    BY <1>1, <1>5, <1>6
  <2>2. HeldType'
    BY <1>1, <1>3 DEF HeldType
  <2>3. Len(test'.frames) <= PMM_SELF_TEST_FRAMES
    BY <1>5, BootConstants
  <2> QED BY <1>1, <1>2, <1>4, <1>5, <1>7, <1>8, <2>1, <2>2, <2>3 DEF TestInv
<1>10. PoolInv'
  BY <1>1, <1>8 DEF PoolInv
<1>11. test' \in [before : Nat, frames : Seq(FrameAddrs), pool : SUBSET Frames]
  BY <1>1, <1>4 DEF ClearFrames
<1> QED BY <1>1, <1>8, <1>9, <1>10, <1>11 DEF BootInv

(* A frame of the pool passes the checks of the test. *)
LEMMA PoolIsGood ==
  ASSUME env \in BootEnvs, InfoPlaced, NEW f \in Allocatable
  PROVE  GoodFrame(f * PMM_FRAME_SIZE)
<1>1. /\ f \in Frames /\ \A s \in Reserved : FrameHi(f) <= s[1] \/ s[2] <= FrameLo(f)
  BY DEF Allocatable
<1>2. /\ env.bss_end \in Nat /\ env.bss_end <= PMM_MAX_PHYS
      /\ env.mb_info \in Nat /\ env.total_size \in Nat
  BY EnvTypes, Sizes
<1>3. /\ FrameHi(f) <= 0 \/ env.bss_end <= FrameLo(f)
      /\ FrameHi(f) <= env.mb_info \/ env.mb_info + env.total_size <= FrameLo(f)
  BY <1>1 DEF Reserved
<1>4. f \in Nat /\ FrameLo(f) = f * 4096 /\ FrameHi(f) = f * 4096 + 4096
  BY <1>1, FrameBounds
<1>5. (f * 4096) % 4096 = 0
  BY <1>4
<1>6. pmm_align_up_4k(env.bss_end) <= f * 4096
  BY <1>1, <1>2, <1>3, <1>4, Rounding
<1>7. pmm_align_up_4k(env.bss_end) \in Nat
  BY <1>1, <1>2, Rounding
<1>8. f * 4096 >= pmm_align_up_4k(env.bss_end)
  BY <1>4, <1>6, <1>7
<1>9. ~(f * 4096 < env.mb_info + env.total_size /\ f * 4096 + 4096 > env.mb_info)
  BY <1>2, <1>3, <1>4
<1> QED BY <1>5, <1>8, <1>9, Sizes DEF GoodFrame

(* A round of an allocating loop whose checks all frames of the pool pass:  *)
(* it goes on, or the pool is too small and the test gives up.              *)
LEMMA TakeInv ==
  ASSUME BootInv, NEW at, NEW good, NEW bad,
         \/ at = "test_alloc" /\ bad = "test_undo"
         \/ at = "test_reuse" /\ bad = "reuse_undo",
         \A f \in Allocatable : good[f * PMM_FRAME_SIZE] = TRUE,
         TestTake(at, good, bad)
  PROVE  BootInv'
<1> DEFINE r == pmm_alloc_frame(pmm)
<1>1. /\ stage = at /\ Len(test.frames) < PMM_SELF_TEST_FRAMES
      /\ pmm' = r.pmm
      /\ test' = IF r.pa = 0 THEN test
                 ELSE [test EXCEPT !.frames = Append(test.frames, r.pa)]
      /\ stage' = IF r.pa # 0 /\ good[r.pa] THEN at ELSE bad
      /\ OutsideTest
  BY DEF TestTake
<1>2. stage \in TestStages /\ stage \in Up /\ stage' \in Up
  BY <1>1
<1>3. /\ TestState(pmm, test.frames, test.pool) /\ HeldType
      /\ HeldFrames \cap test.pool = {} /\ HeldFrames \cup test.pool = Allocatable
      /\ test.before = Cardinality(test.pool)
      /\ stage = "test_reuse" => Cardinality(test.pool) >= PMM_SELF_TEST_FRAMES
  BY <1>2 DEF BootInv, TestInv
<1>4. test \in [before : Nat, frames : Seq(FrameAddrs), pool : SUBSET Frames]
  BY DEF BootInv
<1>5. /\ env' = env /\ env' \in BootEnvs /\ ReadsMapped' /\ MapInv' /\ WalkInv'
      /\ Allocatable' = Allocatable /\ HeldFrames' = HeldFrames
      /\ \A f \in Allocatable' : MappedIn(pd, FrameLo(f), FrameHi(f))'
  BY <1>1, <1>2, TestFrame
<1>6. held' = held /\ ret' = ret
  BY <1>1 DEF OutsideTest
<1>7. HeldType'
  BY <1>3, <1>6 DEF HeldType
<1>8. PmmInv(pmm) /\ ClearFrames(pmm) \subseteq test.pool
  BY <1>3 DEF TestState
<1> HIDE DEF r
<1>9. CASE r.pa = 0
  <2>1. ClearFrames(pmm) = {} /\ r.pmm = pmm
    BY <1>8, <1>9, TakeNone DEF r
  <2>2. /\ Len(test.frames) \in Nat
        /\ Cardinality(test.pool) = pmm.free_frames + Len(test.frames)
    BY <1>3, PoolSize
  <2>3. pmm.free_frames = 0
    BY <1>8, <2>1, FS_EmptySet DEF PmmInv
  <2>4. Cardinality(test.pool) < PMM_SELF_TEST_FRAMES
    BY <1>1, <2>2, <2>3, BootConstants
  <2>5. stage = "test_alloc" /\ stage' = "test_undo"
    <3>1. Cardinality(test.pool) \in Nat
      BY <2>2, <2>3
    <3>2. stage # "test_reuse"
      BY <1>3, <2>4, <3>1, BootConstants
    <3> QED BY <1>1, <1>9, <3>2
  <2>6. pmm' = pmm /\ test' = test
    BY <1>1, <1>9, <2>1
  <2>7. Len(test.frames) <= PMM_SELF_TEST_FRAMES
    BY <1>1, <2>2, BootConstants
  <2>8. TestState(pmm, test.frames, test.pool)'
    BY <1>3, <2>6
  <2>9. TestInv'
    BY <1>3, <1>5, <1>7, <2>4, <2>5, <2>6, <2>7, <2>8 DEF TestInv
  <2>10. PoolInv'
    BY <1>5, <2>5 DEF PoolInv
  <2> QED BY <1>4, <1>5, <2>5, <2>6, <2>9, <2>10 DEF BootInv
<1>10. CASE r.pa # 0
  <2> DEFINE t == Append(test.frames, r.pa)
  <2>1. /\ r.pa \in FrameAddrs /\ r.pa \div PMM_FRAME_SIZE \in ClearFrames(pmm)
        /\ TestState(r.pmm, t, test.pool)
    BY <1>3, <1>10, TakeOne DEF r
  <2>2. good[r.pa] = TRUE
    <3> DEFINE f == r.pa \div PMM_FRAME_SIZE
    <3>1. f \in Allocatable
      BY <1>3, <1>8, <2>1
    <3>2. r.pa = f * PMM_FRAME_SIZE
      BY <2>1, AddrFrame
    <3> QED BY <3>1, <3>2
  <2>3. stage' = stage
    BY <1>1, <1>10, <2>2
  <2>4. test' = [test EXCEPT !.frames = t]
    BY <1>1, <1>10
  <2>5. test'.frames = t /\ test'.pool = test.pool /\ test'.before = test.before
    BY <1>4, <2>4
  <2>6. test.frames \in Seq(FrameAddrs)
    BY <1>4
  <2>7. t \in Seq(FrameAddrs) /\ Len(t) = Len(test.frames) + 1 /\ Len(test.frames) \in Nat
    BY <2>1, <2>6
  <2> HIDE DEF t
  <2>8. test' \in [before : Nat, frames : Seq(FrameAddrs), pool : SUBSET Frames]
    BY <1>4, <2>4, <2>7
  <2>9. Len(test'.frames) <= PMM_SELF_TEST_FRAMES
    BY <1>1, <2>5, <2>7, BootConstants
  <2>10. TestState(pmm, test.frames, test.pool)'
    BY <1>1, <2>1, <2>5
  <2>11. TestInv'
    BY <1>1, <1>3, <1>5, <1>7, <2>3, <2>5, <2>9, <2>10 DEF TestInv
  <2>12. PoolInv'
    BY <1>1, <1>5, <2>3 DEF PoolInv
  <2> QED BY <1>1, <1>5, <2>3, <2>8, <2>11, <2>12 DEF BootInv
<1> QED BY <1>9, <1>10

(* The two allocating loops. *)
LEMMA TestTakeInv ==
  ASSUME BootInv,
         \/ TestTake("test_alloc", Checked, "test_undo")
         \/ TestTake("test_reuse", Anything, "reuse_undo")
  PROVE  BootInv'
<1>1. \A f \in Allocatable : f * PMM_FRAME_SIZE \in {g * PMM_FRAME_SIZE : g \in Frames}
  BY DEF Allocatable
<1>2. CASE TestTake("test_alloc", Checked, "test_undo")
  <2>1. env \in BootEnvs /\ InfoPlaced
    BY <1>2 DEF TestTake, BootInv, MapInv
  <2>2. ASSUME NEW f \in Allocatable PROVE Checked[f * PMM_FRAME_SIZE] = TRUE
    <3>1. GoodFrame(f * PMM_FRAME_SIZE)
      BY <2>1, <2>2, PoolIsGood
    <3>2. Checked[f * PMM_FRAME_SIZE] = GoodFrame(f * PMM_FRAME_SIZE)
      BY <1>1, <2>2 DEF Checked, Anything
    <3>3. GoodFrame(f * PMM_FRAME_SIZE) = TRUE
      BY <3>1 DEF GoodFrame
    <3> QED BY <3>2, <3>3
  <2> QED BY <1>2, <2>2, TakeInv
<1>3. CASE TestTake("test_reuse", Anything, "reuse_undo")
  <2>1. \A f \in Allocatable : Anything[f * PMM_FRAME_SIZE] = TRUE
    BY <1>1 DEF Anything
  <2> QED BY <1>3, <2>1, TakeInv
<1> QED BY <1>2, <1>3

(* So many different frames above the reserved memory cannot all lie in the *)
(* first 2MB.                                                               *)
LEMMA HighFrame ==
  ASSUME NEW q, NEW s, NEW pool, TestState(q, s, pool), pool \subseteq Allocatable,
         Len(s) = PMM_SELF_TEST_FRAMES
  PROVE  \E pa \in ToSet(s) : pa > PMM_2MB
<1> SUFFICES ASSUME \A pa \in ToSet(s) : ~(pa > PMM_2MB) PROVE FALSE
  OBVIOUS
<1>1. s \in Seq(FrameAddrs) /\ Taken(s) \subseteq Allocatable
  BY DEF TestState
<1>2. IsFiniteSet(Taken(s)) /\ Cardinality(Taken(s)) = PMM_SELF_TEST_FRAMES
  BY PoolSize
<1> DEFINE lo == (PMM_LOW_RESERVED + 4095) \div 4096
           hi == FRAMES_PER_2MB
<1>3. /\ lo \in Nat /\ PMM_LOW_RESERVED <= lo * 4096
      /\ \A f \in Nat : PMM_LOW_RESERVED <= f * 4096 => lo <= f
  BY Sizes
<1>4. hi \in Nat /\ PMM_2MB = hi * 4096 /\ \A f \in Nat : f * 4096 <= PMM_2MB => f <= hi
  BY Sizes, BootConstants
<1> HIDE DEF lo
<1>5. ASSUME NEW f \in Taken(s) PROVE f \in lo .. hi
  <2>1. f \in Frames /\ \A r \in Reserved : FrameHi(f) <= r[1] \/ r[2] <= FrameLo(f)
    BY <1>1, <1>5 DEF Allocatable
  <2>2. FrameHi(f) <= 0 \/ PMM_LOW_RESERVED <= FrameLo(f)
    BY <2>1 DEF Reserved
  <2>3. f \in Nat /\ FrameLo(f) = f * 4096 /\ FrameHi(f) = f * 4096 + 4096
    BY <2>1, FrameBounds
  <2>4. PMM_LOW_RESERVED <= f * 4096
    BY <2>2, <2>3
  <2>5. PICK i \in DOMAIN s : f = s[i] \div PMM_FRAME_SIZE
    BY <1>5 DEF Taken
  <2>6. s[i] \in FrameAddrs
    BY <1>1, <2>5
  <2>7. s[i] = f * 4096
    BY <2>5, <2>6, AddrFrame, Sizes
  <2>8. f * 4096 <= PMM_2MB
    <3>1. s[i] \in ToSet(s)
      BY <2>5 DEF ToSet
    <3>2. ~(s[i] > PMM_2MB)
      BY <3>1
    <3>3. ~(f * 4096 > PMM_2MB)
      BY <2>7, <3>2
    <3> QED BY <2>3, <3>3, Sizes
  <2> QED BY <1>3, <1>4, <2>3, <2>4, <2>8
<1>6. Taken(s) \in SUBSET (lo .. hi)
  BY <1>5
<1>7. IsFiniteSet(lo .. hi) /\ Cardinality(lo .. hi) = IF lo > hi THEN 0 ELSE hi - lo + 1
  <2>1. lo \in Int /\ hi \in Int
    BY <1>3, <1>4
  <2> HIDE DEF hi
  <2> QED BY <2>1, FS_Interval
<1>8. PMM_SELF_TEST_FRAMES <= Cardinality(lo .. hi)
  BY <1>2, <1>6, <1>7, FS_Subset
<1>9. /\ PMM_SELF_TEST_FRAMES \in Nat /\ PMM_SELF_TEST_FRAMES # 0
      /\ PMM_LOW_RESERVED + PMM_SELF_TEST_FRAMES * 4096 > PMM_2MB + 4096
  BY BootConstants, Sizes
<1>10. PMM_SELF_TEST_FRAMES <= hi - lo + 1
  BY <1>3, <1>4, <1>7, <1>8, <1>9
<1> HIDE DEF hi
<1> QED BY <1>3, <1>4, <1>9, <1>10, Sizes

(* The pattern test succeeds. *)
LEMMA TestPatternsInv == BootInv /\ TestPatterns => BootInv'
<1> SUFFICES ASSUME BootInv, TestPatterns PROVE BootInv'
  OBVIOUS
<1>1. /\ stage = "test_alloc" /\ Len(test.frames) = PMM_SELF_TEST_FRAMES
      /\ pmm' = pmm /\ test' = test /\ OutsideTest /\ held' = held /\ ret' = ret
  BY DEF TestPatterns, OutsideTest
<1>2. /\ TestState(pmm, test.frames, test.pool) /\ HeldType
      /\ HeldFrames \cap test.pool = {} /\ HeldFrames \cup test.pool = Allocatable
      /\ Len(test.frames) <= PMM_SELF_TEST_FRAMES
      /\ test.before = Cardinality(test.pool)
  BY <1>1 DEF BootInv, TestInv
<1>3. \E pa \in ToSet(test.frames) : pa > PMM_2MB
  BY <1>1, <1>2, HighFrame
<1>4. stage' = "test_free"
  BY <1>2, <1>3 DEF TestPatterns, TestState
<1>5. Cardinality(test.pool) >= PMM_SELF_TEST_FRAMES
  <2>1. /\ Len(test.frames) \in Nat /\ pmm.free_frames \in Nat
        /\ Cardinality(test.pool) = pmm.free_frames + Len(test.frames)
    BY <1>2, PoolSize
  <2> QED BY <1>1, <2>1
<1>6. /\ env' = env /\ env' \in BootEnvs /\ ReadsMapped' /\ MapInv' /\ WalkInv'
      /\ Allocatable' = Allocatable /\ HeldFrames' = HeldFrames
      /\ \A f \in Allocatable' : MappedIn(pd, FrameLo(f), FrameHi(f))'
  BY <1>1, <1>4, TestFrame
<1>7. HeldType'
  BY <1>1, <1>2 DEF HeldType
<1>8. TestState(pmm, test.frames, test.pool)'
  BY <1>1, <1>2
<1>9. TestInv'
  BY <1>1, <1>2, <1>4, <1>5, <1>6, <1>7, <1>8 DEF TestInv
<1>10. PoolInv'
  BY <1>4, <1>6 DEF PoolInv
<1> QED BY <1>1, <1>4, <1>6, <1>9, <1>10 DEF BootInv

(* The second set is complete. *)
LEMMA TestReusedInv == BootInv /\ TestReused => BootInv'
<1> SUFFICES ASSUME BootInv, TestReused PROVE BootInv'
  OBVIOUS
<1>1. /\ stage = "test_reuse" /\ stage' = "reuse_free"
      /\ pmm' = pmm /\ test' = test /\ OutsideTest /\ held' = held /\ ret' = ret
  BY DEF TestReused, OutsideTest
<1>2. /\ TestState(pmm, test.frames, test.pool) /\ HeldType
      /\ HeldFrames \cap test.pool = {} /\ HeldFrames \cup test.pool = Allocatable
      /\ Len(test.frames) <= PMM_SELF_TEST_FRAMES
      /\ test.before = Cardinality(test.pool)
      /\ Cardinality(test.pool) >= PMM_SELF_TEST_FRAMES
  BY <1>1 DEF BootInv, TestInv
<1>3. /\ env' = env /\ env' \in BootEnvs /\ ReadsMapped' /\ MapInv' /\ WalkInv'
      /\ Allocatable' = Allocatable /\ HeldFrames' = HeldFrames
      /\ \A f \in Allocatable' : MappedIn(pd, FrameLo(f), FrameHi(f))'
  BY <1>1, TestFrame
<1>4. HeldType' /\ TestState(pmm, test.frames, test.pool)'
  BY <1>1, <1>2 DEF HeldType
<1>5. TestInv' /\ PoolInv'
  BY <1>1, <1>2, <1>3, <1>4 DEF TestInv, PoolInv
<1> QED BY <1>1, <1>3, <1>5 DEF BootInv

(* A round of a releasing loop. *)
LEMMA TestFreeInv == BootInv /\ TestFree => BootInv'
<1> SUFFICES ASSUME BootInv, TestFree PROVE BootInv'
  OBVIOUS
<1>1. /\ stage \in Releasing /\ stage' = stage /\ test.frames # <<>>
      /\ pmm' = pmm_free_frame(pmm, Head(test.frames))
      /\ test' = [test EXCEPT !.frames = Tail(test.frames)]
      /\ OutsideTest /\ held' = held /\ ret' = ret
  BY DEF TestFree, OutsideTest, Released
<1>2. /\ TestState(pmm, test.frames, test.pool) /\ HeldType
      /\ HeldFrames \cap test.pool = {} /\ HeldFrames \cup test.pool = Allocatable
      /\ Len(test.frames) <= PMM_SELF_TEST_FRAMES
      /\ test.before = Cardinality(test.pool)
      /\ stage \in {"test_free", "reuse_free"} =>
           Cardinality(test.pool) >= PMM_SELF_TEST_FRAMES
      /\ stage = "test_undo" => Cardinality(test.pool) < PMM_SELF_TEST_FRAMES
      /\ stage # "reuse_undo"
  BY <1>1 DEF BootInv, TestInv
<1>3. test \in [before : Nat, frames : Seq(FrameAddrs), pool : SUBSET Frames]
  BY DEF BootInv
<1>4. /\ env' = env /\ env' \in BootEnvs /\ ReadsMapped' /\ MapInv' /\ WalkInv'
      /\ Allocatable' = Allocatable /\ HeldFrames' = HeldFrames
      /\ \A f \in Allocatable' : MappedIn(pd, FrameLo(f), FrameHi(f))'
  BY <1>1, TestFrame
<1> DEFINE s == test.frames
           t == Tail(s)
<1>5. s \in Seq(FrameAddrs) /\ s # <<>>
  BY <1>1, <1>3
<1>6. TestState(pmm_free_frame(pmm, Head(s)), t, test.pool)
  BY <1>2, <1>5, GiveOne
<1>7. t \in Seq(FrameAddrs) /\ Len(t) = Len(s) - 1 /\ Len(s) \in Nat
  <2> HIDE DEF s
  <2> QED BY <1>5
<1>8. test'.frames = t /\ test'.pool = test.pool /\ test'.before = test.before
  BY <1>1, <1>3
<1>9. test' \in [before : Nat, frames : Seq(FrameAddrs), pool : SUBSET Frames]
  <2> HIDE DEF t
  <2>1. test' = [test EXCEPT !.frames = t]
    BY <1>1 DEF t
  <2> QED BY <1>3, <1>7, <2>1
<1>10. Len(test'.frames) <= PMM_SELF_TEST_FRAMES
  <2> HIDE DEF t
  <2> QED BY <1>2, <1>7, <1>8, BootConstants
<1>11. HeldType' /\ TestState(pmm, test.frames, test.pool)'
  BY <1>1, <1>2, <1>6, <1>8 DEF HeldType
<1>12. TestInv'
  <2> HIDE DEF s, t
  <2> QED BY <1>1, <1>2, <1>4, <1>8, <1>10, <1>11 DEF TestInv
<1>13. PoolInv'
  BY <1>1, <1>4 DEF PoolInv
<1> QED BY <1>1, <1>4, <1>9, <1>12, <1>13 DEF BootInv

(* Without taken frames the free ones are the pool. *)
LEMMA AllBack ==
  ASSUME NEW q, NEW pool, TestState(q, <<>>, pool)
  PROVE  PmmInv(q) /\ ClearFrames(q) = pool /\ q.free_frames = Cardinality(pool)
<1>1. Taken(<<>>) = {}
  BY DEF Taken
<1> QED BY <1>1 DEF TestState, PmmInv

(* The end of a releasing loop. *)
LEMMA TestFreedInv == BootInv /\ TestFreed => BootInv'
<1> SUFFICES ASSUME BootInv, TestFreed PROVE BootInv'
  OBVIOUS
<1>1. /\ stage \in Releasing /\ test.frames = <<>> /\ pmm' = pmm
      /\ stage' = IF stage = "test_free" /\ pmm.free_frames = test.before
                  THEN "test_reuse"
                  ELSE IF stage = "reuse_free" THEN "tested" ELSE "halted"
      /\ test' = [test EXCEPT !.frames = <<>>]
      /\ OutsideTest /\ held' = held /\ ret' = ret
  BY DEF TestFreed, OutsideTest, Released
<1>2. /\ TestState(pmm, test.frames, test.pool) /\ HeldType
      /\ HeldFrames \cap test.pool = {} /\ HeldFrames \cup test.pool = Allocatable
      /\ Len(test.frames) <= PMM_SELF_TEST_FRAMES
      /\ test.before = Cardinality(test.pool)
      /\ stage = "test_free" => Cardinality(test.pool) >= PMM_SELF_TEST_FRAMES
      /\ stage # "reuse_undo"
  BY <1>1 DEF BootInv, TestInv
<1>3. test \in [before : Nat, frames : Seq(FrameAddrs), pool : SUBSET Frames]
  BY DEF BootInv
<1>4. test' = test
  BY <1>1, <1>3
<1>5. /\ PmmInv(pmm) /\ ClearFrames(pmm) = test.pool
      /\ pmm.free_frames = test.before
  BY <1>1, <1>2, AllBack
<1>6. NoDoubleGrant
  <2> SUFFICES ASSUME NEW pa \in held PROVE Used(pmm, pa)
    BY DEF NoDoubleGrant
  <2>1. pa \div PMM_FRAME_SIZE \in Frames
    <3>1. pa \in FrameAddrs
      BY <1>2 DEF HeldType, FrameAddrs
    <3> QED BY <3>1, AddrFrame
  <2>2. pa \div PMM_FRAME_SIZE \notin ClearFrames(pmm)
    BY <1>2, <1>5 DEF HeldFrames
  <2>3. pmm.bitmap \in [Frames -> {0, 1}]
    BY <1>5 DEF PmmInv, PmmType
  <2> QED BY <2>1, <2>2, <2>3 DEF Used, ClearFrames
<1>7. IInv
  BY <1>2, <1>5, <1>6, IInvParts
<1>8. CASE stage = "test_undo"
  <2>1. stage' = "halted"
    BY <1>1, <1>8
  <2>2. 0 \notin ClearFrames(pmm')
    BY <1>1, <1>5 DEF PmmInv
  <2>3. /\ env' = env /\ pd' = pd /\ stray' = stray
    BY <1>1 DEF OutsideTest
  <2> QED BY <1>3, <1>4, <2>1, <2>2, <2>3
       DEF BootInv, ReadsMapped, MapInv, WalkInv, PoolInv, TestInv
<1>9. CASE stage # "test_undo"
  <2>1. \/ stage = "test_free" /\ stage' = "test_reuse"
        \/ stage = "reuse_free" /\ stage' = "tested"
    BY <1>1, <1>2, <1>5, <1>9
  <2>2. /\ env' = env /\ env' \in BootEnvs /\ ReadsMapped' /\ MapInv' /\ WalkInv'
        /\ Allocatable' = Allocatable /\ HeldFrames' = HeldFrames
        /\ \A f \in Allocatable' : MappedIn(pd, FrameLo(f), FrameHi(f))'
    BY <1>1, <2>1, TestFrame
  <2>3. HeldType' /\ TestState(pmm, test.frames, test.pool)'
    BY <1>1, <1>2, <1>4 DEF HeldType
  <2>4. IInv'
    BY <1>1, <1>7 DEF IInv, TypeOK, CountExact, HintSound, NoDoubleGrant, Used
  <2>5. TestInv'
    BY <1>2, <1>4, <2>1, <2>2, <2>3 DEF TestInv
  <2>6. PoolInv'
    BY <1>1, <1>2, <1>5, <2>1, <2>2, <2>4 DEF PoolInv
  <2> QED BY <1>3, <1>4, <2>1, <2>2, <2>5, <2>6 DEF BootInv
<1> QED BY <1>8, <1>9

(* No step leaves the invariant. *)
LEMMA BootNextInv == BootInv /\ [BootNext]_bootVars => BootInv'
<1> SUFFICES ASSUME BootInv, [BootNext]_bootVars PROVE BootInv'
  OBVIOUS
<1>1. CASE BootStep
  BY <1>1, MapHeaderInv, MapBodyInv, ParseTagInv, ParseEndInv, BitmapInitInv, ExtendInv
     DEF BootStep
<1>2. CASE Running
  BY <1>2, RunningInv
<1>3. CASE TestBegin
  BY <1>3, TestBeginInv
<1>4. CASE SelfTest
  BY <1>4, TestTakeInv, TestPatternsInv, TestReusedInv, TestFreeInv, TestFreedInv
     DEF SelfTest
<1>5. CASE UNCHANGED bootVars
  <2>1. /\ pmm' = pmm /\ held' = held /\ ret' = ret /\ env' = env /\ stage' = stage
        /\ pd' = pd /\ p' = p /\ ranges' = ranges /\ stray' = stray /\ test' = test
    BY <1>5 DEF bootVars
  <2>2. MapInv'
    BY <2>1, EnvKept DEF BootInv, MapInv, MappedIn
  <2>3. WalkInv'
    <3>1. Passed(p)' <=> Passed(p)
      BY <2>1 DEF Passed
    <3>2. Copied(p)' = Copied(p)
      BY <2>1 DEF Copied
    <3>3. UsableRanges' = UsableRanges
      BY <2>1 DEF UsableRanges
    <3> QED BY <2>1, <3>1, <3>2, <3>3, EnvKept DEF BootInv, WalkInv
  <2>4. HeldFrames' = HeldFrames /\ (HeldType' <=> HeldType)
    BY <2>1 DEF HeldFrames, HeldType
  <2>5. IInv' <=> IInv
    BY <2>1 DEF IInv, TypeOK, CountExact, HintSound, NoDoubleGrant, Used
  <2>6. PoolInv'
    BY <2>1, <2>4, <2>5, EnvKept DEF BootInv, PoolInv, MappedIn, FrameLo, FrameHi
  <2>7. TestInv'
    BY <2>1, <2>4, EnvKept DEF BootInv, TestInv
  <2> QED BY <2>1, <2>2, <2>3, <2>6, <2>7 DEF BootInv, ReadsMapped
<1> QED BY <1>1, <1>2, <1>3, <1>4, <1>5 DEF BootNext

-----------------------------------------------------------------------------
(* What boot promises. *)

(* The strengthened invariant holds from power-on to the end of the test. *)
THEOREM BootInvariant == BootSpec => []BootInv
<1>1. BootInit => BootInv
  BY BootInitInv
<1>2. BootInv /\ [BootNext]_bootVars => BootInv'
  BY BootNextInv
<1> QED BY <1>1, <1>2, PTL DEF BootSpec

(* mb2_init and pmm_init read nothing that is unmapped or outside the       *)
(* structure, whatever sizes the structure contains.                        *)
THEOREM BootReadsMapped == BootSpec => []ReadsMapped
<1>1. BootInv => ReadsMapped
  BY DEF BootInv
<1> QED BY <1>1, BootInvariant, PTL

(* pmm_init refuses no structure that the format allows. *)
THEOREM BootHaltsForCause == BootSpec => []HaltsForCause
<1>1. BootInv => HaltsForCause
  <2> SUFFICES ASSUME BootInv, stage = "halted", pmm = NotInitialised
               PROVE  ~WellFormed
    BY DEF HaltsForCause
  <2>1. 0 \in ClearFrames(pmm)
    BY FrameCountAssumption DEF NotInitialised, ClearFrames, Frames
  <2> QED BY <2>1 DEF BootInv, WalkInv
<1> QED BY <1>1, BootInvariant, PTL

(* Free and held frames are exactly the allocatable ones: rounding,         *)
(* clipping, overflow, the walk and the self-test lose no frame and offer   *)
(* none that is reserved.                                                   *)
THEOREM BootPoolExact == BootSpec => []PoolExact
<1>1. BootInv => PoolExact
  BY DEF BootInv, PoolInv, PoolExact, HeldFrames
<1> QED BY <1>1, BootInvariant, PTL

(* The identity map reaches every frame the allocator owns. *)
THEOREM BootPoolMapped == BootSpec => []PoolMapped
<1>1. BootInv => PoolMapped
  <2> SUFFICES ASSUME BootInv, stage = "running",
                      NEW f \in ClearFrames(pmm) \cup {pa \div PMM_FRAME_SIZE : pa \in held}
               PROVE  MappedIn(pd, FrameLo(f), FrameHi(f))
    BY DEF PoolMapped
  <2>1. f \in Allocatable
    BY DEF BootInv, PoolInv, HeldFrames
  <2> QED BY <2>1 DEF BootInv, PoolInv
<1> QED BY <1>1, BootInvariant, PTL

(* Boot ends in a state from which the allocator's own proofs start. *)
THEOREM BootHandsOver == BootSpec => HandsOver
<1>1. BootInv /\ [BootNext]_bootVars
        => [stage = "extend" /\ stage' = "running" => Booted(pmm')]_bootVars
  <2> SUFFICES ASSUME BootInv, [BootNext]_bootVars, stage = "extend", stage' = "running"
               PROVE  Booted(pmm')
    OBVIOUS
  <2>1. Booted(pmm)
    BY DEF BootInv, PoolInv
  <2>2. ExtendIdentity
    BY DEF BootNext, BootStep, MapHeader, MapBody, ParseTag, ParseEnd, BitmapInit,
           Running, TestBegin, SelfTest, TestTake, TestPatterns, TestReused, TestFree,
           TestFreed, bootVars
  <2>3. pmm' = pmm
    BY <2>2 DEF ExtendIdentity, NotRunning
  <2> QED BY <2>1, <2>3
<1> QED BY <1>1, BootInvariant, PTL DEF BootSpec, HandsOver

(* The self-test accepts exactly the machines with enough free frames and   *)
(* gives every frame back, on every path.                                   *)
THEOREM BootSelfTestNeutral == BootSpec => SelfTestNeutral
<1> DEFINE A == (stage \in TestStages /\ stage' \in {"tested", "halted"}) =>
                  /\ (stage' = "tested") = (Cardinality(test.pool) >= PMM_SELF_TEST_FRAMES)
                  /\ ClearFrames(pmm') = test.pool
<1>1. BootInv /\ [BootNext]_bootVars => [A]_bootVars
  <2> SUFFICES ASSUME BootInv, [BootNext]_bootVars, stage \in TestStages,
                      stage' \in {"tested", "halted"}
               PROVE  /\ (stage' = "tested") =
                           (Cardinality(test.pool) >= PMM_SELF_TEST_FRAMES)
                      /\ ClearFrames(pmm') = test.pool
    OBVIOUS
  <2>1. TestFreed
    <3>1. ~BootStep /\ ~Running /\ ~TestBegin
      BY DEF BootStep, MapHeader, MapBody, ParseTag, ParseEnd, BitmapInit,
             ExtendIdentity, Running, TestBegin
    <3>2. ~TestPatterns /\ ~TestReused /\ ~TestFree
      BY DEF TestPatterns, TestReused, TestFree
    <3>3. ~TestTake("test_alloc", Checked, "test_undo")
      BY DEF TestTake
    <3>4. ~TestTake("test_reuse", Anything, "reuse_undo")
      BY DEF TestTake
    <3>5. ~UNCHANGED bootVars
      BY DEF bootVars
    <3> QED BY <3>1, <3>2, <3>3, <3>4, <3>5 DEF BootNext, SelfTest
  <2>2. /\ TestState(pmm, test.frames, test.pool)
        /\ test.before = Cardinality(test.pool)
        /\ stage = "reuse_free" => Cardinality(test.pool) >= PMM_SELF_TEST_FRAMES
        /\ stage = "test_undo" => Cardinality(test.pool) < PMM_SELF_TEST_FRAMES
        /\ stage # "reuse_undo"
    BY DEF BootInv, TestInv
  <2>3. test.frames = <<>> /\ pmm' = pmm /\ stage \in Releasing
    BY <2>1 DEF TestFreed, Released
  <2>4. ClearFrames(pmm) = test.pool /\ pmm.free_frames = test.before
    BY <2>2, <2>3, AllBack
  <2>5. \/ stage = "reuse_free" /\ stage' = "tested"
        \/ stage = "test_undo" /\ stage' = "halted"
    BY <2>1, <2>2, <2>3, <2>4 DEF TestFreed
  <2>6. Cardinality(test.pool) \in Nat
    BY <2>4, <2>2, PoolSize, ClearFinite, FrameCountAssumption
  <2>7. (stage' = "tested") <=> (Cardinality(test.pool) >= PMM_SELF_TEST_FRAMES)
    BY <2>2, <2>5, <2>6, BootConstants
  <2> QED BY <2>3, <2>4, <2>7
<1> QED BY <1>1, BootInvariant, PTL DEF BootSpec, SelfTestNeutral

(* While the bitmap counts, it satisfies the allocator's invariant, and the *)
(* frames of callers are marked used.                                       *)
LEMMA ServingInv ==
  ASSUME BootInv, stage \in Serving
  PROVE  PmmInv(pmm) /\ NoDoubleGrant
<1>1. CASE stage = "extend"
  <2>1. Booted(pmm) /\ held = {} /\ ret = 0
    BY <1>1 DEF BootInv, PoolInv
  <2> QED BY <2>1, BootedInv, IInvParts
<1>2. CASE stage \in {"running", "tested"}
  BY <1>2, IInvParts DEF BootInv, PoolInv
<1>3. CASE stage \in TestStages
  <2>1. /\ PmmInv(pmm) /\ HeldType /\ HeldFrames \cap test.pool = {}
        /\ ClearFrames(pmm) \subseteq test.pool
    BY <1>3 DEF BootInv, TestInv, TestState
  <2>2. ASSUME NEW pa \in held PROVE Used(pmm, pa)
    <3>1. PICK f \in Frames : pa = f * PMM_FRAME_SIZE
      BY <2>1, <2>2 DEF HeldType
    <3>2. pa \div PMM_FRAME_SIZE = f
      BY <3>1, FrameOfAddr
    <3>3. f \notin ClearFrames(pmm)
      BY <2>1, <2>2, <3>2 DEF HeldFrames
    <3>4. pmm.bitmap[f] = 1
      BY <2>1, <3>3 DEF PmmInv, PmmType, ClearFrames
    <3> QED BY <3>2, <3>4 DEF Used
  <2> QED BY <2>1, <2>2 DEF NoDoubleGrant
<1> QED BY <1>1, <1>2, <1>3 DEF Serving

(* pmm_free_frames counts the clear bits from pmm_bitmap_init on. *)
THEOREM BootCounterExact == BootSpec => []CounterExact
<1>1. BootInv => CounterExact
  BY ServingInv DEF CounterExact, PmmInv, CountExact
<1> QED BY <1>1, BootInvariant, PTL

(* No free frame lies below pmm_hint, in normal operation and in the test. *)
THEOREM BootHintNeverHigh == BootSpec => []HintNeverHigh
<1>1. BootInv => HintNeverHigh
  BY ServingInv DEF HintNeverHigh, PmmInv, HintSound
<1> QED BY <1>1, BootInvariant, PTL

(* What callers hold stays marked used, in the self-test too. *)
THEOREM BootHeldStaysUsed == BootSpec => []HeldStaysUsed
<1>1. BootInv => HeldStaysUsed
  BY ServingInv DEF HeldStaysUsed
<1> QED BY <1>1, BootInvariant, PTL

(* A call in normal operation is a step of the abstract pool. *)
LEMMA RunningIsPoolStep ==
  ASSUME BootInv, Running
  PROVE  [BootPool!Next]_(BootPool!poolVars)
<1> DEFINE A(S) == {f * PMM_FRAME_SIZE : f \in S}
<1>1. IInv /\ Next /\ stage \in {"running", "tested"} /\ stage' = stage
  BY DEF BootInv, PoolInv, Running
<1>2. FreeForCallers = ClearFrames(pmm) /\ FreeForCallers' = ClearFrames(pmm')
  BY <1>1 DEF FreeForCallers
<1>3. CASE StepTake
  <2>1. PICK f \in ClearFrames(pmm) :
          /\ \A g \in ClearFrames(pmm) : f <= g
          /\ ClearFrames(pmm') = ClearFrames(pmm) \ {f}
          /\ held' = held \cup {f * PMM_FRAME_SIZE}
          /\ ret' = f * PMM_FRAME_SIZE
    BY <1>3 DEF StepTake
  <2>2. \A g \in ClearFrames(pmm) : g \in Nat
    BY FrameCountAssumption DEF ClearFrames, Frames
  <2>3. A(ClearFrames(pmm')) = A(ClearFrames(pmm)) \ {f * PMM_FRAME_SIZE}
    BY <2>1, <2>2 DEF PMM_FRAME_SIZE
  <2>4. \A o \in A(ClearFrames(pmm)) : f * PMM_FRAME_SIZE <= o
    BY <2>1, <2>2 DEF PMM_FRAME_SIZE
  <2>5. BootPool!Take
    BY <1>2, <2>1, <2>3, <2>4 DEF BootPool!Take
  <2> QED BY <2>5 DEF BootPool!Next
<1>4. CASE StepRefuse
  BY <1>2, <1>4 DEF StepRefuse, BootPool!Next, BootPool!Refuse
<1>5. CASE StepGive
  <2>1. BootPool!Give
    BY <1>2, <1>5 DEF StepGive, BootPool!Give
  <2> QED BY <2>1 DEF BootPool!Next
<1>6. CASE UNCHANGED pmmVars
  BY <1>2, <1>6 DEF pmmVars, BootPool!poolVars
<1> QED BY <1>1, <1>3, <1>4, <1>5, <1>6, NextStep

(* Every other step leaves what callers can have, and what they hold. *)
LEMMA OtherStepsHidden ==
  ASSUME BootInv, BootInv', [BootNext]_bootVars, ~Running
  PROVE  FreeForCallers' = FreeForCallers /\ held' = held /\ ret' = ret
<1>1. held' = held /\ ret' = ret /\ env' = env
  BY DEF BootNext, BootStep, MapHeader, MapBody, ParseTag, ParseEnd, BitmapInit,
         ExtendIdentity, NotRunning, TestBegin, SelfTest, TestTake, TestPatterns,
         TestReused, TestFree, TestFreed, OutsideTest, bootVars
<1>2. Allocatable' = Allocatable /\ HeldFrames' = HeldFrames
  BY <1>1, EnvKept DEF HeldFrames
<1>3. stage \in {"running", "tested"} => ClearFrames(pmm) = Allocatable \ HeldFrames
  <2> SUFFICES ASSUME stage \in {"running", "tested"}
               PROVE  ClearFrames(pmm) = Allocatable \ HeldFrames
    OBVIOUS
  <2>1. IInv /\ ClearFrames(pmm) \cup HeldFrames = Allocatable
    BY DEF BootInv, PoolInv
  <2>2. ASSUME NEW pa \in held PROVE pa \div PMM_FRAME_SIZE \notin ClearFrames(pmm)
    BY <2>1, <2>2 DEF IInv, NoDoubleGrant, Used, ClearFrames
  <2> QED BY <2>1, <2>2 DEF HeldFrames
<1>4. (stage \in {"running", "tested"} => ClearFrames(pmm) = Allocatable \ HeldFrames)'
  <2> SUFFICES ASSUME stage' \in {"running", "tested"}
               PROVE  ClearFrames(pmm') = Allocatable' \ HeldFrames'
    OBVIOUS
  <2>1. IInv' /\ ClearFrames(pmm') \cup HeldFrames' = Allocatable'
    BY DEF BootInv, PoolInv
  <2>2. ASSUME NEW pa \in held' PROVE pa \div PMM_FRAME_SIZE \notin ClearFrames(pmm')
    BY <2>1, <2>2 DEF IInv, NoDoubleGrant, Used, ClearFrames
  <2> QED BY <2>1, <2>2 DEF HeldFrames
<1>5. FreeForCallers = Allocatable \ HeldFrames
  BY <1>3 DEF FreeForCallers, HeldFrames
<1>6. FreeForCallers' = Allocatable' \ HeldFrames'
  BY <1>4 DEF FreeForCallers, HeldFrames
<1> QED BY <1>1, <1>2, <1>5, <1>6

(* Boot, allocator and self-test implement the abstract pool of frames. *)
THEOREM BootRefinesPool == BootSpec => BootImplementsPool
<1>1. BootInit => BootPool!Init
  <2> SUFFICES ASSUME BootInit PROVE BootPool!Init
    OBVIOUS
  <2>1. held = {} /\ ret = 0 /\ stage = "map_header"
    BY DEF BootInit
  <2>2. FreeForCallers = Allocatable
    BY <2>1 DEF FreeForCallers
  <2>3. \A f \in Allocatable : f \in Frames /\ f # 0
    <3> TAKE f \in Allocatable
    <3>1. f \in Frames /\ <<0, PMM_LOW_RESERVED>> \in Reserved
      BY DEF Allocatable, Reserved
    <3>2. FrameHi(f) <= 0 \/ PMM_LOW_RESERVED <= FrameLo(f)
      BY DEF Allocatable, Reserved
    <3> QED BY <3>1, <3>2, BootConstants, FrameCountAssumption
            DEF Frames, FrameHi, FrameLo, PMM_FRAME_SIZE, PMM_MAX_PHYS
  <2>4. \A f \in Allocatable : f * PMM_FRAME_SIZE # 0
    BY <2>3, FrameOfAddr
  <2> QED BY <2>1, <2>2, <2>3, <2>4 DEF BootPool!Init
<1>2. BootInv /\ BootInv' /\ [BootNext]_bootVars => [BootPool!Next]_(BootPool!poolVars)
  <2> SUFFICES ASSUME BootInv, BootInv', [BootNext]_bootVars
               PROVE  [BootPool!Next]_(BootPool!poolVars)
    OBVIOUS
  <2>1. CASE Running
    BY <2>1, RunningIsPoolStep
  <2>2. CASE ~Running
    BY <2>2, OtherStepsHidden DEF BootPool!poolVars
  <2> QED BY <2>1, <2>2
<1> QED BY <1>1, <1>2, BootInvariant, PTL DEF BootSpec, BootImplementsPool, BootPool!Spec
=============================================================================
