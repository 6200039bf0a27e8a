-------------------------------- MODULE Pmm --------------------------------
(* The bitmap frame allocator of src/pmm.c after pmm_init has filled the   *)
(* bitmap.  The kernel is single-core and no interrupt handler allocates,   *)
(* so each call is one step.  The operators are pure functions of the       *)
(* allocator's static variables, so that other modules can call them.       *)
EXTENDS Integers, FiniteSets, FiniteSetsExt

CONSTANTS PMM_FRAME_COUNT,   \* number of 4KB frames the bitmap covers
          PhysAddrs          \* addresses that callers pass to pmm_free_frame

PMM_FRAME_SIZE == 4096
PMM_MAX_PHYS == PMM_FRAME_COUNT * PMM_FRAME_SIZE
Frames == 0 .. PMM_FRAME_COUNT - 1

ASSUME FrameCountAssumption == PMM_FRAME_COUNT \in Nat \ {0}
ASSUME PhysAddrsAssumption == PhysAddrs \subseteq Nat

VARIABLES pmm,    \* [bitmap, free_frames, hint]: the statics of pmm.c
          held,   \* addresses handed out and not yet given back
          ret     \* the value of the latest pmm_alloc_frame()

pmmVars == <<pmm, held, ret>>

-----------------------------------------------------------------------------
(* Bit 1 = unusable, bit 0 = free. *)
ClearFrames(p) == {f \in Frames : p.bitmap[f] = 0}

Used(p, pa) == p.bitmap[pa \div PMM_FRAME_SIZE] = 1

(* One pass of the inner loop of pmm_alloc_frame: the first clear frame at  *)
(* or after s, PMM_FRAME_COUNT when the loop runs off the end.              *)
ScanFrom(p, s) ==
  LET clear == {f \in ClearFrames(p) : f >= s}
  IN  IF clear = {} THEN PMM_FRAME_COUNT ELSE Min(clear)

(* Mutant: the search starts one frame after the hint. *)
pmm_alloc_frame_SkipOne(p) ==
  LET frame == ScanFrom(p, p.hint + 1)
  IN  IF p.free_frames = 0 \/ frame = PMM_FRAME_COUNT
      THEN [pmm |-> p, pa |-> 0]
      ELSE [pmm |-> [bitmap |-> [p.bitmap EXCEPT ![frame] = 1],
                     free_frames |-> p.free_frames - 1,
                     hint |-> frame + 1],
            pa |-> frame * PMM_FRAME_SIZE]

(* Mutant: the bit of the frame handed out is not set. *)
pmm_alloc_frame_NoSet(p) ==
  LET start == IF p.hint >= PMM_FRAME_COUNT THEN 0 ELSE p.hint
      first == ScanFrom(p, start)
      frame == IF first < PMM_FRAME_COUNT THEN first ELSE ScanFrom(p, 0)
  IN  IF p.free_frames = 0 \/ frame = PMM_FRAME_COUNT
      THEN [pmm |-> p, pa |-> 0]
      ELSE [pmm |-> [p EXCEPT !.free_frames = @ - 1, !.hint = frame + 1],
            pa |-> frame * PMM_FRAME_SIZE]

(* Scan from the hint to the end, then once more from 0. *)
pmm_alloc_frame(p) ==
  LET start == IF p.hint >= PMM_FRAME_COUNT THEN 0 ELSE p.hint
      first == ScanFrom(p, start)
      frame == IF first < PMM_FRAME_COUNT THEN first ELSE ScanFrom(p, 0)
  IN  IF p.free_frames = 0 \/ frame = PMM_FRAME_COUNT
      THEN [pmm |-> p, pa |-> 0]
      ELSE [pmm |-> [bitmap |-> [p.bitmap EXCEPT ![frame] = 1],
                     free_frames |-> p.free_frames - 1,
                     hint |-> frame + 1],
            pa |-> frame * PMM_FRAME_SIZE]

(* The inputs pmm_free_frame ignores: 0, unaligned, out of range, or free. *)
IgnoredByFree(p, pa) ==
  \/ pa = 0
  \/ pa % PMM_FRAME_SIZE # 0
  \/ pa >= PMM_MAX_PHYS
  \/ pa < PMM_MAX_PHYS /\ ~Used(p, pa)

(* Mutant: the hint is not lowered. *)
pmm_free_frame_NoHint(p, pa) ==
  IF IgnoredByFree(p, pa) THEN p
  ELSE [p EXCEPT !.bitmap[pa \div PMM_FRAME_SIZE] = 0,
                 !.free_frames = @ + 1]

(* Mutant: the test for a frame that is already free is missing. *)
pmm_free_frame_NoTest(p, pa) ==
  IF pa = 0 \/ pa % PMM_FRAME_SIZE # 0 \/ pa >= PMM_MAX_PHYS THEN p
  ELSE LET frame == pa \div PMM_FRAME_SIZE
       IN  [bitmap |-> [p.bitmap EXCEPT ![frame] = 0],
            free_frames |-> p.free_frames + 1,
            hint |-> IF frame < p.hint THEN frame ELSE p.hint]

pmm_free_frame(p, pa) ==
  IF IgnoredByFree(p, pa) THEN p
  ELSE LET frame == pa \div PMM_FRAME_SIZE
       IN  [bitmap |-> [p.bitmap EXCEPT ![frame] = 0],
            free_frames |-> p.free_frames + 1,
            hint |-> IF frame < p.hint THEN frame ELSE p.hint]

-----------------------------------------------------------------------------
(* What pmm_bitmap_init leaves behind: some frames clear, never frame 0,    *)
(* the counter recounted, the hint at 0.                                    *)
Booted(p) ==
  /\ p \in [bitmap : [Frames -> {0, 1}], free_frames : Nat, hint : Nat]
  /\ 0 \notin ClearFrames(p)
  /\ p.free_frames = Cardinality(ClearFrames(p))
  /\ p.hint = 0

Init ==
  /\ pmm \in [bitmap : [Frames -> {0, 1}],
              free_frames : 0 .. PMM_FRAME_COUNT, hint : {0}]
  /\ Booted(pmm)
  /\ held = {}
  /\ ret = 0

AllocFrame ==
  LET r == pmm_alloc_frame(pmm)
  IN  /\ pmm' = r.pmm
      /\ ret' = r.pa
      /\ held' = IF r.pa = 0 THEN held ELSE held \cup {r.pa}

(* Callers give back what they hold, or pass one of the addresses that      *)
(* pmm.h says are ignored.  A used frame that was never handed out (kernel  *)
(* image, low 1MB) is outside the contract: nothing in the code rejects it. *)
FreeFrame(pa) ==
  /\ pa \in held \/ IgnoredByFree(pmm, pa)
  /\ pmm' = pmm_free_frame(pmm, pa)
  /\ held' = held \ {pa}
  /\ UNCHANGED ret

Next ==
  \/ AllocFrame
  \/ \E pa \in PhysAddrs : FreeFrame(pa)

Spec == Init /\ [][Next]_pmmVars

-----------------------------------------------------------------------------
(* Types: one bit per frame, a counter and a hint within the frame count,   *)
(* and callers hold aligned frame addresses other than 0.                   *)
TypeOK ==
  /\ pmm \in [bitmap : [Frames -> {0, 1}],
              free_frames : 0 .. PMM_FRAME_COUNT,
              hint : 0 .. PMM_FRAME_COUNT]
  /\ held \subseteq {f * PMM_FRAME_SIZE : f \in Frames \ {0}}
  /\ ret \in {f * PMM_FRAME_SIZE : f \in Frames}

(* pmm_free_frames, maintained incrementally by alloc and free, is always   *)
(* the number of clear bits: the early return "free_frames == 0" of         *)
(* pmm_alloc_frame can neither refuse a free frame nor let a scan fail.     *)
CountExact == pmm.free_frames = Cardinality(ClearFrames(pmm))

(* Everything below the search hint is in use.  Hence the first pass always *)
(* finds the lowest free frame and the second pass of pmm_alloc_frame has   *)
(* nothing left to find.                                                    *)
HintSound == \A f \in Frames : f < pmm.hint => pmm.bitmap[f] = 1

(* A frame somebody holds is marked used, so it is never handed out twice.  *)
NoDoubleGrant == \A pa \in held : Used(pmm, pa)

(* No call creates or loses a frame: free and held frames together are the  *)
(* frames that boot made available, whatever is passed to pmm_free_frame.   *)
PoolOf(p, h) == {f * PMM_FRAME_SIZE : f \in ClearFrames(p)} \cup h
Conservation == [][PoolOf(pmm', held') = PoolOf(pmm, held)]_pmmVars

(* The allocator implements the abstract pool: a request returns the lowest *)
(* free frame, 0 exactly when none is free, and bad addresses change        *)
(* nothing.                                                                 *)
Pool == INSTANCE FramePool WITH
          PoolAddrs <- {f * PMM_FRAME_SIZE : f \in Frames},
          free <- {f * PMM_FRAME_SIZE : f \in ClearFrames(pmm)}
ImplementsPool == Pool!Spec

(* The inductive invariant of the proofs. *)
IInv == TypeOK /\ CountExact /\ HintSound /\ NoDoubleGrant
             /\ 0 \notin ClearFrames(pmm)
=============================================================================
