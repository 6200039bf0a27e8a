------------------------------ MODULE PmmBoot ------------------------------
(* From the address the boot loader passes in to a tested frame allocator:  *)
(* pmm_init and pmm_self_test (src/pmm.c), mb2_init (src/mb2.c), with the   *)
(* allocator's normal operation around the self-test.  Interrupts are off,  *)
(* so the calls run one after another; each stage that touches memory or    *)
(* page tables is a step of its own, the tag walk takes one step per tag,   *)
(* the self-test one per frame it takes or releases.                        *)
(*                                                                          *)
(* The page tables are the ones boot.asm builds: PML4[0] and PDPT[0] point  *)
(* to one page directory whose entry 0 is a 2MB page.  The error branches   *)
(* for a missing PML4 or PDPT entry, a 1GB page or a 4KB page table below   *)
(* the directory cannot be reached from there and are left out.             *)
EXTENDS Pmm, SequencesExt

CONSTANTS WORD,                 \* 2^64: uint64_t arithmetic wraps here
          FRAMES_PER_2MB,       \* 512: frames under one directory entry
          PMM_LOW_RESERVED,     \* 0x100000
          PMM_SELF_TEST_FRAMES, \* 512
          INFO_SIZE_MAX,        \* 0x100000: limit on total_size
          MB2_MAX_RANGES,       \* 32: capacity of the ranges array
          BootEnvs              \* what boot loader and linker hand over

PMM_2MB == FRAMES_PER_2MB * PMM_FRAME_SIZE
PdIndices == 0 .. (PMM_MAX_PHYS \div PMM_2MB) - 1
HEADER == 8
MB2_TAG_END == 0
MB2_TAG_MMAP == 6
MB2_MMAP_TYPE_AVAILABLE == 1

ASSUME BootConstants ==
  /\ FRAMES_PER_2MB \in Nat \ {0}
  /\ PMM_FRAME_COUNT % FRAMES_PER_2MB = 0
  /\ WORD \in Nat /\ WORD > PMM_MAX_PHYS + PMM_FRAME_SIZE
  /\ PMM_SELF_TEST_FRAMES \in Nat \ {0}
  /\ INFO_SIZE_MAX \in Nat /\ MB2_MAX_RANGES \in Nat
  /\ PMM_LOW_RESERVED \in 1 .. PMM_MAX_PHYS
  /\ PMM_LOW_RESERVED + PMM_SELF_TEST_FRAMES * PMM_FRAME_SIZE
       > PMM_2MB + PMM_FRAME_SIZE

Align8(x) == ((x + 7) \div 8) * 8

(* What mb2_init reads of an entry and of a tag. *)
Entry == [base : 0 .. WORD - 1, length : 0 .. WORD - 1, type : Nat]
TagRecord == [type : Nat, size : Nat, entry_size : Nat, entries : Seq(Entry)]

(* Number of entries the loop over a memory map visits. *)
EntryCount(tag) ==
  IF tag.type = MB2_TAG_MMAP /\ tag.size >= 16 /\ tag.entry_size >= 24
  THEN (tag.size - 16) \div tag.entry_size ELSE 0

(* The image ends inside the 2MB that boot.asm maps.  The structure starts  *)
(* at a multiple of 8 and is described by the tags a walk from its header   *)
(* can meet, each under its offset, with the entries its size makes room    *)
(* for; the bytes under a tag are not described a second time.              *)
ASSUME BootEnvAssumption ==
  \A e \in BootEnvs :
    /\ e.bss_end \in 0 .. PMM_2MB - 1
    /\ e.mb_info \in Nat /\ e.mb_info % 8 = 0 /\ e.total_size \in Nat
    /\ HEADER \in DOMAIN e.tags
    /\ \A o \in DOMAIN e.tags :
         /\ o \in Nat /\ o >= HEADER /\ o % 8 = 0
         /\ e.tags[o] \in TagRecord
         /\ e.tags[o].type = MB2_TAG_MMAP =>
              Len(e.tags[o].entries) = EntryCount(e.tags[o])
         /\ \A q \in DOMAIN e.tags : o < q => Align8(o + e.tags[o].size) <= q

VARIABLES env,     \* [bss_end, mb_info, total_size, tags], fixed at power-on
          stage,   \* next stage of boot, "running", "tested", or "halted"
          pd,      \* indices of the present page directory entries
          p,       \* mb2_init: offset of the tag it looks at
          ranges,  \* the usable entries copied so far: <<tag, index>>
          stray,   \* history: reads that missed the mapped structure
          test     \* pmm_self_test: [before, frames], and the free frames
                   \* it started from

bootVars == <<pmm, held, ret, env, stage, pd, p, ranges, stray, test>>

-----------------------------------------------------------------------------
(* uint64_t arithmetic and rounding to frames. *)
Add(x, y) == (x + y) % WORD
FrameDown(x) == x - (x % PMM_FRAME_SIZE)
pmm_align_up_4k(x) == FrameDown(Add(x, PMM_FRAME_SIZE - 1))

(* Mutant: the wrap-around of base + len is not caught. *)
ClippedEnd_NoWrapTest(base, len) ==
  LET end == Add(base, len)
  IN  IF end > PMM_MAX_PHYS THEN PMM_MAX_PHYS ELSE end

(* base + len, clipped to PMM_MAX_PHYS when it wraps or lies beyond. *)
ClippedEnd(base, len) ==
  LET end == Add(base, len)
  IN  IF end < base \/ end > PMM_MAX_PHYS THEN PMM_MAX_PHYS ELSE end

FramesBetween(first, last) ==
  {f \in Frames : first <= f * PMM_FRAME_SIZE /\ f * PMM_FRAME_SIZE < last}

(* The frames pmm_mark_free clears: only those wholly inside the range. *)
FreedBy(r) ==
  IF r.length = 0 \/ r.base >= PMM_MAX_PHYS THEN {}
  ELSE FramesBetween(pmm_align_up_4k(r.base),
                     FrameDown(ClippedEnd(r.base, r.length)))

(* The frames pmm_mark_used sets: every frame the region touches. *)
ReservedBy(base, len) ==
  IF len = 0 \/ base >= PMM_MAX_PHYS THEN {}
  ELSE FramesBetween(FrameDown(base),
                     pmm_align_up_4k(ClippedEnd(base, len)))

(* Mutant: counts the free frames before the reservations are made. *)
pmm_bitmap_init_CountEarly(rs, bss_end, mb_info, info_end) ==
  LET freed == UNION {FreedBy(r) : r \in rs}
      clear == freed \ (ReservedBy(0, pmm_align_up_4k(bss_end))
                          \cup ReservedBy(mb_info, info_end - mb_info))
  IN  [bitmap |-> [f \in Frames |-> IF f \in clear THEN 0 ELSE 1],
       free_frames |-> Cardinality(freed),
       hint |-> 0]

(* pmm_bitmap_init: all used, usable ranges cleared, reservations set again *)
(* (low memory, kernel image, multiboot2 information), free frames counted. *)
pmm_bitmap_init(rs, bss_end, mb_info, info_end) ==
  LET kernel_end == pmm_align_up_4k(bss_end)
      freed == UNION {FreedBy(r) : r \in rs}
      reserved ==
        ReservedBy(0, PMM_LOW_RESERVED)
          \cup (IF kernel_end > PMM_LOW_RESERVED
                THEN ReservedBy(PMM_LOW_RESERVED,
                                kernel_end - PMM_LOW_RESERVED)
                ELSE {})
          \cup (IF info_end > mb_info
                THEN ReservedBy(mb_info, info_end - mb_info) ELSE {})
      clear == freed \ reserved
  IN  [bitmap |-> [f \in Frames |-> IF f \in clear THEN 0 ELSE 1],
       free_frames |-> Cardinality(clear),
       hint |-> 0]

(* ensure_2mb_mapped returns -1. *)
CannotMap(addr, len) ==
  len # 0 /\ (addr >= PMM_MAX_PHYS \/ len > PMM_MAX_PHYS - addr)

(* Mutant: only the first 2MB page of the region is mapped. *)
ensure_2mb_mapped_First(dir, addr, len) ==
  IF len = 0 THEN dir ELSE dir \cup {addr \div PMM_2MB}

(* The directory after ensure_2mb_mapped succeeded: the entry of every 2MB  *)
(* page that [addr, addr + len) touches is present.                         *)
ensure_2mb_mapped(dir, addr, len) ==
  IF len = 0 THEN dir ELSE dir \cup (addr \div PMM_2MB) .. ((addr + len - 1) \div PMM_2MB)

(* Mutant: the number of 2MB pages is rounded down. *)
pmm_extend_identity_Floor(dir, max_end) ==
  dir \cup (PdIndices \cap (1 .. (max_end \div PMM_2MB) - 1))

(* pmm_extend_identity: entries 1 .. n-1, n = max_end / 2MB rounded up. *)
pmm_extend_identity(dir, max_end) ==
  dir \cup (PdIndices \cap (1 .. ((max_end + PMM_2MB - 1) \div PMM_2MB) - 1))

(* The largest (clipped) end of a usable range, 0 when there is none. *)
MaxEnd(rs) == Max({0} \cup {ClippedEnd(r.base, r.length) : r \in rs})

-----------------------------------------------------------------------------
(* mb2_init *)

(* The words at an offset; where no tag starts they are of no use. *)
TagAt(off) ==
  IF off \in DOMAIN env.tags THEN env.tags[off]
  ELSE [type |-> 99, size |-> 0, entry_size |-> 0, entries |-> <<>>]

(* The entries of a tag that the loop copies, and all it has copied. *)
UsableIn(tag, off) ==
  {off} \X {i \in 1 .. EntryCount(tag) :
              tag.entries[i].type = MB2_MMAP_TYPE_AVAILABLE}
UsableRanges == {env.tags[r[1]].entries[r[2]] : r \in ranges}

(* Mutant: a tag of size 0 is not refused. *)
BadSize_NoMinimum(tag, off) == off + tag.size > env.total_size

(* Mutant: a tag without contents is refused. *)
BadSize_NoEmptyTag(tag, off) == tag.size <= 8 \/ off + tag.size > env.total_size

(* At least a tag header, and not beyond the end of the structure. *)
BadSize(tag, off) == tag.size < 8 \/ off + tag.size > env.total_size

(* The byte intervals of the structure that a round of the loop reads. *)
TagReads(tag, off) ==
  LET entry(i) == off + 16 + i * tag.entry_size
  IN  {<<off, off + 8>>} \cup
      (IF BadSize(tag, off) \/ tag.type # MB2_TAG_MMAP \/ tag.size < 16 THEN {}
       ELSE {<<off + 8, off + 12>>}
              \cup {<<entry(i), entry(i) + 20>> : i \in 0 .. EntryCount(tag) - 1})

(* mb2_init returns -1. *)
Refused(tag, off) ==
  \/ BadSize(tag, off)
  \/ tag.type = MB2_TAG_MMAP /\ (tag.size < 16 \/ tag.entry_size < 24)
  \/ Cardinality(ranges) + Cardinality(UsableIn(tag, off)) > MB2_MAX_RANGES

-----------------------------------------------------------------------------
NotInitialised ==
  [bitmap |-> [f \in Frames |-> 0], free_frames |-> 0, hint |-> 0]

(* .bss is zero, boot.asm maps the first 2MB. *)
BootInit ==
  /\ env \in BootEnvs
  /\ stage = "map_header"
  /\ pd = {0}
  /\ p = HEADER /\ ranges = {}
  /\ stray = {}
  /\ test = [before |-> 0, frames |-> <<>>, pool |-> {}]
  /\ pmm = NotInitialised
  /\ held = {}
  /\ ret = 0

MappedIn(dir, lo, hi) == (lo \div PMM_2MB) .. ((hi - 1) \div PMM_2MB) \subseteq dir

(* Intervals S of the structure, of length len, are read. *)
Read(S, len) ==
  stray' = stray \cup {r \in S : \/ r[2] > len
                                 \/ ~MappedIn(pd, env.mb_info + r[1],
                                              env.mb_info + r[2])}

Fail == stage' = "halted" /\ UNCHANGED <<pd, p, ranges>>
NotRunning == UNCHANGED <<pmm, held, ret, env, test>>

MapHeader ==
  /\ stage = "map_header"
  /\ IF env.mb_info = 0 \/ CannotMap(env.mb_info, HEADER) THEN Fail
     ELSE /\ pd' = ensure_2mb_mapped(pd, env.mb_info, HEADER)
          /\ stage' = "read_size"
          /\ UNCHANGED <<p, ranges>>
  /\ UNCHANGED stray /\ NotRunning

(* Reads total_size and maps the rest of the structure. *)
MapBody ==
  /\ stage = "read_size"
  /\ Read({<<0, 4>>}, HEADER)
  /\ IF \/ env.total_size = 0 \/ env.total_size > INFO_SIZE_MAX
        \/ CannotMap(env.mb_info, env.total_size)
     THEN Fail
     ELSE /\ pd' = ensure_2mb_mapped(pd, env.mb_info, env.total_size)
          /\ stage' = "parse"
          /\ UNCHANGED <<p, ranges>>
  /\ NotRunning

(* One round of the loop of mb2_init, at a tag that is not the end tag. *)
ParseTag ==
  /\ stage = "parse" /\ p + 8 <= env.total_size
  /\ \E tag \in {TagAt(p)} :
       /\ Read(TagReads(tag, p), env.total_size)
       /\ tag.type # MB2_TAG_END
       /\ IF Refused(tag, p) THEN Fail
          ELSE /\ ranges' = ranges \cup UsableIn(tag, p)
               /\ p' = Align8(p + tag.size)
               /\ UNCHANGED <<stage, pd>>
  /\ NotRunning

(* The end tag, or no room for another tag. *)
ParseEnd ==
  /\ stage = "parse"
  /\ IF p + 8 <= env.total_size
     THEN TagAt(p).type = MB2_TAG_END /\ Read({<<p, p + 8>>}, env.total_size)
     ELSE UNCHANGED stray
  /\ stage' = "bitmap"
  /\ UNCHANGED <<pd, p, ranges>> /\ NotRunning

BitmapInit ==
  /\ stage = "bitmap"
  /\ pmm' = pmm_bitmap_init(UsableRanges, env.bss_end, env.mb_info,
                            Add(env.mb_info, env.total_size))
  /\ stage' = "extend"
  /\ UNCHANGED <<env, pd, p, ranges, stray, test, held, ret>>

ExtendIdentity ==
  /\ stage = "extend"
  /\ pd' = pmm_extend_identity(pd, MaxEnd(UsableRanges))
  /\ stage' = "running"
  /\ UNCHANGED <<p, ranges, stray>> /\ NotRunning

Running ==
  /\ stage \in {"running", "tested"}
  /\ Next
  /\ UNCHANGED <<env, stage, pd, p, ranges, stray, test>>

-----------------------------------------------------------------------------
(* pmm_self_test, called by kmain once the heap has taken its frames. *)
OutsideTest == UNCHANGED <<held, ret, env, pd, p, ranges, stray>>

TestBegin ==
  /\ stage = "running"
  /\ test' = [before |-> pmm.free_frames, frames |-> <<>>,
              pool |-> ClearFrames(pmm)]
  /\ stage' = "test_alloc"
  /\ UNCHANGED pmm /\ OutsideTest

(* The checks on a new frame. *)
GoodFrame(pa) ==
  /\ pa % PMM_FRAME_SIZE = 0
  /\ pa >= pmm_align_up_4k(env.bss_end)
  /\ ~(pa < env.mb_info + env.total_size /\ pa + PMM_FRAME_SIZE > env.mb_info)

(* One round of an allocating loop. *)
TestTake(at, good, bad) ==
  /\ stage = at /\ Len(test.frames) < PMM_SELF_TEST_FRAMES
  /\ \E r \in {pmm_alloc_frame(pmm)} :
       /\ pmm' = r.pmm
       /\ test' = IF r.pa = 0 THEN test ELSE [test EXCEPT !.frames = Append(@, r.pa)]
       /\ stage' = IF r.pa # 0 /\ good[r.pa] THEN at ELSE bad
  /\ OutsideTest

Anything == [pa \in {f * PMM_FRAME_SIZE : f \in Frames} |-> TRUE]
Checked == [pa \in DOMAIN Anything |-> GoodFrame(pa)]

(* The highest frame lies above 2MB, and each frame, written in turn, still *)
(* holds its own pattern: no two of them are the same.                      *)
TestPatterns ==
  /\ stage = "test_alloc" /\ Len(test.frames) = PMM_SELF_TEST_FRAMES
  /\ stage' = IF (\E pa \in ToSet(test.frames) : pa > PMM_2MB)
                   /\ IsInjective(test.frames)
              THEN "test_free" ELSE "test_undo"
  /\ UNCHANGED <<pmm, test>> /\ OutsideTest

(* The second set is complete. *)
TestReused ==
  /\ stage = "test_reuse" /\ Len(test.frames) = PMM_SELF_TEST_FRAMES
  /\ stage' = "reuse_free"
  /\ UNCHANGED <<pmm, test>> /\ OutsideTest

Releasing == {"test_free", "test_undo", "reuse_free", "reuse_undo"}

(* Mutant: the loop stops one frame early. *)
Released_OneShort(frames) == Len(frames) <= 1

(* A releasing loop has gone through its frames. *)
Released(frames) == frames = <<>>

(* One round of a releasing loop; it runs after a failure too. *)
TestFree ==
  /\ stage \in Releasing /\ ~Released(test.frames)
  /\ pmm' = pmm_free_frame(pmm, Head(test.frames))
  /\ test' = [test EXCEPT !.frames = Tail(@)]
  /\ UNCHANGED stage /\ OutsideTest

(* The end of a releasing loop: the frames must be back before the second   *)
(* set is taken.                                                            *)
TestFreed ==
  /\ stage \in Releasing /\ Released(test.frames)
  /\ stage' = IF stage = "test_free" /\ pmm.free_frames = test.before
              THEN "test_reuse"
              ELSE IF stage = "reuse_free" THEN "tested" ELSE "halted"
  /\ test' = [test EXCEPT !.frames = <<>>]
  /\ UNCHANGED pmm /\ OutsideTest

SelfTest ==
  \/ TestTake("test_alloc", Checked, "test_undo")
  \/ TestPatterns
  \/ TestTake("test_reuse", Anything, "reuse_undo")
  \/ TestReused
  \/ TestFree \/ TestFreed

BootStep ==
  MapHeader \/ MapBody \/ ParseTag \/ ParseEnd \/ BitmapInit \/ ExtendIdentity

BootNext == BootStep \/ Running \/ TestBegin \/ SelfTest

(* The CPU keeps executing pmm_init and pmm_self_test. *)
BootSpec == BootInit /\ [][BootNext]_bootVars
              /\ WF_bootVars(BootStep) /\ WF_bootVars(SelfTest)

-----------------------------------------------------------------------------
(* Before IDT and page fault handling can help, nothing is read from        *)
(* unmapped memory or from outside the structure: the header is mapped      *)
(* before total_size is read, the whole before mb2_init walks it, and no    *)
(* size found in the structure leads the walk out of it.                    *)
ReadsMapped == stray = {}

(* Whatever the sizes in the structure are, the walk comes to an end: boot  *)
(* reaches a running system or stops, and the self-test gives its verdict.  *)
BootEnds ==
  /\ <>(stage \notin {"map_header", "read_size", "parse", "bitmap", "extend"})
  /\ (stage = "test_alloc") ~> (stage \in {"tested", "halted"})

(* The memory map as a reader of the multiboot2 format finds it: entries of *)
(* the tags before the end tag.                                             *)
MapEntries ==
  UNION {ToSet(env.tags[o].entries) :
           o \in {o \in DOMAIN env.tags :
                    /\ env.tags[o].type = MB2_TAG_MMAP
                    /\ o + 8 <= env.total_size
                    /\ \A q \in DOMAIN env.tags :
                         q < o => env.tags[q].type # MB2_TAG_END}}

(* A structure the multiboot2 format allows, of a size and at a place the   *)
(* kernel supports: tags one after the other at multiples of 8 up to an end *)
(* tag, whole entries, no more usable ranges than the array holds.          *)
WellFormedUpTo(end) ==
  LET before == {o \in DOMAIN env.tags : o < end}
  IN  /\ env.tags[end].type = MB2_TAG_END /\ end + 8 = env.total_size
      /\ \A o \in before : \E next \in DOMAIN env.tags :
           /\ env.tags[o].size >= HEADER
           /\ o + env.tags[o].size \in next - 7 .. next
      /\ \A o \in before : env.tags[o].type = MB2_TAG_MMAP =>
           /\ env.tags[o].entry_size >= 24
           /\ env.tags[o].size = 16 + env.tags[o].entry_size * Len(env.tags[o].entries)
      /\ Cardinality(UNION {UsableIn(env.tags[o], o) : o \in before}) <= MB2_MAX_RANGES
      /\ env.total_size <= INFO_SIZE_MAX
      /\ env.mb_info > 0 /\ env.mb_info + env.total_size <= PMM_MAX_PHYS
WellFormed == \E end \in DOMAIN env.tags : WellFormedUpTo(end)

(* pmm_init gives up only on a structure that is malformed or too large:    *)
(* tags of odd sizes, empty ones and entries longer than 24 bytes are read  *)
(* as the format says.                                                      *)
HaltsForCause == stage = "halted" /\ pmm = NotInitialised => ~WellFormed

(* The regions the kernel must never hand out, as byte intervals over the   *)
(* integers: low memory and image, and the multiboot2 information.          *)
Reserved == {<<0, PMM_LOW_RESERVED>>, <<0, env.bss_end>>,
             <<env.mb_info, env.mb_info + env.total_size>>}

FrameLo(f) == f * PMM_FRAME_SIZE
FrameHi(f) == (f + 1) * PMM_FRAME_SIZE

(* Reference definition of the frames that may be handed out: wholly inside *)
(* one usable range, clear of every reserved byte, no wrap-around.          *)
Allocatable ==
  {f \in Frames :
     /\ \E r \in MapEntries :
          /\ r.type = MB2_MMAP_TYPE_AVAILABLE
          /\ r.base <= FrameLo(f) /\ FrameHi(f) <= r.base + r.length
     /\ \A s \in Reserved : FrameHi(f) <= s[1] \/ s[2] <= FrameLo(f)}

(* Once the system runs, free and held frames are exactly the allocatable   *)
(* ones: "what is allocated always lies in a usable range of the memory     *)
(* map" (pmm.h), no kernel or boot data is ever handed out, and no usable   *)
(* frame is lost to rounding, clipping or overflow, to an odd tag size or   *)
(* to the self-test.                                                        *)
PoolExact ==
  stage \in {"running", "tested"} =>
    ClearFrames(pmm) \cup {pa \div PMM_FRAME_SIZE : pa \in held} = Allocatable

(* Every frame that is or can be handed out can be written through the      *)
(* identity map, so using it does not fault.                                *)
PoolMapped ==
  stage = "running" =>
    \A f \in ClearFrames(pmm) \cup {pa \div PMM_FRAME_SIZE : pa \in held} :
      MappedIn(pd, FrameLo(f), FrameHi(f))

(* Boot hands the allocator over in a state its proofs start from. *)
HandsOver == [][stage = "extend" /\ stage' = "running" => Booted(pmm')]_bootVars

TestStages == {"test_alloc", "test_reuse"} \cup Releasing

(* The self-test accepts exactly the machines with enough free frames, and  *)
(* on every path out of it the pool is the one it found.                    *)
SelfTestNeutral ==
  [][(stage \in TestStages /\ stage' \in {"tested", "halted"}) =>
       /\ (stage' = "tested") = (Cardinality(test.pool) >= PMM_SELF_TEST_FRAMES)
       /\ ClearFrames(pmm') = test.pool]_bootVars

(* The stages in which the bitmap counts. *)
Serving == {"extend", "running", "tested"} \cup TestStages

(* From the first count on, through allocations, releases of every kind of  *)
(* address and the rounds of the self-test, pmm_free_frames is the number   *)
(* of clear bits: the early return of pmm_alloc_frame refuses no frame that *)
(* is free.                                                                 *)
CounterExact == stage \in Serving => CountExact

(* All the while no frame below pmm_hint is free: reuse is lowest-first and *)
(* the second pass of pmm_alloc_frame finds nothing.                        *)
HintNeverHigh == stage \in Serving => HintSound

(* A frame that a caller holds stays marked used, also while the self-test  *)
(* takes and releases its own: neither the next caller nor the test gets it.*)
HeldStaysUsed == stage \in Serving => NoDoubleGrant

(* Boot, allocator and self-test together implement the abstract pool: it   *)
(* consists of the allocatable frames, every request of a caller returns    *)
(* the lowest free one and 0 exactly when there is none, bad addresses      *)
(* change nothing, and callers never notice boot or the test.               *)
FreeForCallers ==
  IF stage \in {"running", "tested"} THEN ClearFrames(pmm)
  ELSE Allocatable \ {pa \div PMM_FRAME_SIZE : pa \in held}
BootPool == INSTANCE FramePool WITH
              PoolAddrs <- {f * PMM_FRAME_SIZE : f \in Frames},
              free <- {f * PMM_FRAME_SIZE : f \in FreeForCallers}
BootImplementsPool == BootPool!Spec
=============================================================================
