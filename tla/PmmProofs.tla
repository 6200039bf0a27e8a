----------------------------- MODULE PmmProofs -----------------------------
(* Proofs about Pmm for every number of frames and every set of addresses   *)
(* callers may pass.                                                        *)
EXTENDS Pmm, FiniteSetTheorems, TLAPS

-----------------------------------------------------------------------------
(* Helpers. *)

(* A non-empty set of naturals has a least element, and Min returns it. *)
LEMMA MinIsLeast ==
  ASSUME NEW S \in SUBSET Nat, S # {}
  PROVE  /\ Min(S) \in S
         /\ \A y \in S : Min(S) <= y
<1> DEFINE R == OpToRel(<, Nat)
<1>1. IsWellFoundedOn(R, Nat)
  BY NatLessThanWellFounded
<1>2. \E x \in S : \A y \in S : ~ (<<y, x>> \in R)
  <2> HIDE DEF R
  <2> QED BY <1>1, WFMin
<1>3. PICK x \in S : \A y \in S : ~ (<<y, x>> \in R)
  BY <1>2
<1>4. ASSUME NEW y \in S PROVE x <= y
  <2>1. x \in Nat /\ y \in Nat
    OBVIOUS
  <2>2. y < x => <<y, x>> \in R
    BY <2>1 DEF OpToRel
  <2> QED
    <3> HIDE DEF R
    <3> QED BY <1>3, <2>1, <2>2
<1> QED BY <1>4 DEF Min

(* The clear frames are a finite set, as every set of frames is. *)
LEMMA ClearFinite ==
  ASSUME NEW p
  PROVE  /\ IsFiniteSet(ClearFrames(p))
         /\ Cardinality(ClearFrames(p)) \in 0 .. PMM_FRAME_COUNT
<1>1. IsFiniteSet(Frames) /\ Cardinality(Frames) = PMM_FRAME_COUNT
  BY FS_Interval, FrameCountAssumption DEF Frames
<1>2. ClearFrames(p) \in SUBSET Frames
  BY DEF ClearFrames
<1>3. IsFiniteSet(ClearFrames(p)) /\ Cardinality(ClearFrames(p)) <= PMM_FRAME_COUNT
  BY <1>1, <1>2, FS_Subset
<1> QED BY <1>3, FS_CardinalityType, FrameCountAssumption

(* One pass of the search finds the first clear frame at or after s, or     *)
(* there is none.                                                           *)
LEMMA ScanFinds ==
  ASSUME NEW p, NEW s \in Nat
  PROVE  \/ /\ ScanFrom(p, s) = PMM_FRAME_COUNT
            /\ \A f \in ClearFrames(p) : f < s
         \/ /\ ScanFrom(p, s) \in ClearFrames(p)
            /\ ScanFrom(p, s) >= s
            /\ \A f \in ClearFrames(p) : f >= s => ScanFrom(p, s) <= f
<1> DEFINE C == {f \in ClearFrames(p) : f >= s}
<1>1. C \in SUBSET Nat
  BY FrameCountAssumption DEF ClearFrames, Frames
<1>2. CASE C = {}
  <2>1. ScanFrom(p, s) = PMM_FRAME_COUNT
    BY <1>2 DEF ScanFrom
  <2>2. \A f \in ClearFrames(p) : f < s
    BY <1>2, FrameCountAssumption DEF ClearFrames, Frames
  <2> QED BY <2>1, <2>2
<1>3. CASE C # {}
  <2>1. ScanFrom(p, s) = Min(C)
    BY <1>3 DEF ScanFrom
  <2>2. Min(C) \in C /\ \A y \in C : Min(C) <= y
    <3> HIDE DEF C
    <3> QED BY <1>1, <1>3, MinIsLeast
  <2> QED BY <2>1, <2>2
<1> QED BY <1>2, <1>3

-----------------------------------------------------------------------------
(* The invariant of the allocator's own statics, without the callers. *)
PmmType(p) == p \in [bitmap : [Frames -> {0, 1}],
                     free_frames : 0 .. PMM_FRAME_COUNT,
                     hint : 0 .. PMM_FRAME_COUNT]
PmmInv(p) ==
  /\ PmmType(p)
  /\ p.free_frames = Cardinality(ClearFrames(p))
  /\ \A f \in Frames : f < p.hint => p.bitmap[f] = 1
  /\ 0 \notin ClearFrames(p)

(* The allocator after frame f has been handed out. *)
Grant(p, f) == [bitmap |-> [p.bitmap EXCEPT ![f] = 1],
                free_frames |-> p.free_frames - 1,
                hint |-> f + 1]

(* pmm_alloc_frame hands out the lowest clear frame, or refuses because     *)
(* there is none; the second pass of its loop never contributes.            *)
LEMMA AllocMeaning ==
  ASSUME NEW p, PmmInv(p)
  PROVE  \/ /\ ClearFrames(p) = {}
            /\ pmm_alloc_frame(p) = [pmm |-> p, pa |-> 0]
         \/ \E f \in ClearFrames(p) :
              /\ \A g \in ClearFrames(p) : f <= g
              /\ pmm_alloc_frame(p) = [pmm |-> Grant(p, f),
                                       pa |-> f * PMM_FRAME_SIZE]
<1> DEFINE start == IF p.hint >= PMM_FRAME_COUNT THEN 0 ELSE p.hint
           first == ScanFrom(p, start)
           frame == IF first < PMM_FRAME_COUNT THEN first ELSE ScanFrom(p, 0)
<1>1. p.hint \in Nat /\ start \in Nat /\ p.hint <= PMM_FRAME_COUNT
  BY FrameCountAssumption DEF PmmInv, PmmType
<1>2. \A f \in ClearFrames(p) : f \in Nat /\ f < PMM_FRAME_COUNT /\ f >= p.hint
  BY <1>1, FrameCountAssumption DEF PmmInv, PmmType, ClearFrames, Frames
<1>3. CASE ClearFrames(p) = {}
  <2>1. p.free_frames = 0
    BY <1>3, FS_EmptySet DEF PmmInv
  <2> QED BY <1>3, <2>1 DEF pmm_alloc_frame
<1>4. CASE ClearFrames(p) # {}
  <2>1. p.free_frames # 0
    BY <1>4, ClearFinite, FS_EmptySet DEF PmmInv
  <2>2. PICK f0 \in ClearFrames(p) : TRUE
    BY <1>4
  <2>3. start = p.hint
    BY <1>1, <1>2, <2>2, FrameCountAssumption
  <2>4. /\ first \in ClearFrames(p)
        /\ \A g \in ClearFrames(p) : first <= g
    <3> HIDE DEF start
    <3> QED BY <1>1, <1>2, <2>2, <2>3, ScanFinds
  <2>5. frame = first /\ frame < PMM_FRAME_COUNT /\ frame # PMM_FRAME_COUNT
    <3> HIDE DEF first
    <3> QED BY <1>2, <2>4, FrameCountAssumption
  <2>6. pmm_alloc_frame(p) = IF p.free_frames = 0 \/ frame = PMM_FRAME_COUNT
                             THEN [pmm |-> p, pa |-> 0]
                             ELSE [pmm |-> Grant(p, frame),
                                   pa |-> frame * PMM_FRAME_SIZE]
    BY DEF pmm_alloc_frame, Grant
  <2> QED
    <3> HIDE DEF frame, first
    <3> QED BY <2>1, <2>4, <2>5, <2>6
<1> QED BY <1>3, <1>4

(* Handing out the lowest clear frame keeps the allocator's invariant. *)
LEMMA GrantKeepsInv ==
  ASSUME NEW p, PmmInv(p), NEW f \in ClearFrames(p),
         \A g \in ClearFrames(p) : f <= g
  PROVE  /\ PmmInv(Grant(p, f))
         /\ ClearFrames(Grant(p, f)) = ClearFrames(p) \ {f}
<1> DEFINE q == Grant(p, f)
<1>1. /\ q.bitmap = [p.bitmap EXCEPT ![f] = 1]
      /\ q.free_frames = p.free_frames - 1
      /\ q.hint = f + 1
      /\ q = [bitmap |-> q.bitmap, free_frames |-> q.free_frames, hint |-> q.hint]
  BY DEF Grant
<1>2. f \in Frames /\ f \in Nat /\ f + 1 \in 0 .. PMM_FRAME_COUNT
  BY FrameCountAssumption DEF ClearFrames, Frames
<1>3. p.bitmap \in [Frames -> {0, 1}] /\ q.bitmap \in [Frames -> {0, 1}]
  BY <1>1, <1>2 DEF PmmInv, PmmType
<1>4. ClearFrames(q) = ClearFrames(p) \ {f}
  BY <1>1, <1>2, <1>3 DEF ClearFrames
<1>5. Cardinality(ClearFrames(q)) = Cardinality(ClearFrames(p)) - 1
  BY <1>4, ClearFinite, FS_RemoveElement
<1>6. q.free_frames = Cardinality(ClearFrames(q))
  BY <1>1, <1>5 DEF PmmInv
<1>7. q.free_frames \in 0 .. PMM_FRAME_COUNT
  BY <1>6, ClearFinite
<1>8. \A g \in Frames : g < q.hint => q.bitmap[g] = 1
  <2> SUFFICES ASSUME NEW g \in Frames, g < f + 1
               PROVE  q.bitmap[g] = 1
    BY <1>1
  <2>1. CASE g = f
    BY <1>1, <1>2, <1>3, <2>1
  <2>2. CASE g # f
    <3>1. g \in Nat /\ g < f
      BY <1>2, <2>2, FrameCountAssumption DEF Frames
    <3>2. g \notin ClearFrames(p)
      BY <1>2, <3>1
    <3> QED BY <1>1, <1>3, <2>2, <3>2 DEF ClearFrames
  <2> QED BY <2>1, <2>2
<1>9. 0 \notin ClearFrames(q)
  BY <1>4 DEF PmmInv
<1> QED
  <2> HIDE DEF q
  <2>1. PmmType(q)
    BY <1>1, <1>2, <1>3, <1>7 DEF PmmType
  <2>2. PmmInv(q)
    BY <1>6, <1>8, <1>9, <2>1 DEF PmmInv
  <2> QED BY <1>4, <2>2 DEF q

(* Taking back a used frame other than frame 0 keeps it too. *)
LEMMA FreeKeepsInv ==
  ASSUME NEW p, PmmInv(p), NEW f \in Frames \ {0}, p.bitmap[f] = 1
  PROVE  LET q == pmm_free_frame(p, f * PMM_FRAME_SIZE)
         IN  /\ PmmInv(q)
             /\ ClearFrames(q) = ClearFrames(p) \cup {f}
<1> DEFINE pa == f * PMM_FRAME_SIZE
           q == [bitmap |-> [p.bitmap EXCEPT ![f] = 0],
                 free_frames |-> p.free_frames + 1,
                 hint |-> IF f < p.hint THEN f ELSE p.hint]
<1>1. f \in Nat /\ f > 0 /\ f < PMM_FRAME_COUNT
  BY FrameCountAssumption DEF Frames
<1>2. pa \div PMM_FRAME_SIZE = f /\ pa % PMM_FRAME_SIZE = 0
  BY <1>1 DEF PMM_FRAME_SIZE
<1>3. pa # 0 /\ ~(pa >= PMM_MAX_PHYS)
  BY <1>1, FrameCountAssumption DEF PMM_FRAME_SIZE, PMM_MAX_PHYS
<1>4. ~IgnoredByFree(p, pa)
  <2> HIDE DEF pa
  <2> QED BY <1>2, <1>3 DEF IgnoredByFree, Used
<1>5. pmm_free_frame(p, pa) = q
  <2> HIDE DEF pa
  <2> QED BY <1>2, <1>4 DEF pmm_free_frame
<1>6. /\ p.bitmap \in [Frames -> {0, 1}] /\ q.bitmap \in [Frames -> {0, 1}]
      /\ p.hint \in 0 .. PMM_FRAME_COUNT /\ q.hint \in 0 .. PMM_FRAME_COUNT
  BY <1>1, FrameCountAssumption DEF PmmInv, PmmType
<1>7. ClearFrames(q) = ClearFrames(p) \cup {f}
  BY <1>1, <1>6 DEF ClearFrames
<1>8. Cardinality(ClearFrames(q)) = Cardinality(ClearFrames(p)) + 1
  <2>1. f \notin ClearFrames(p)
    BY DEF ClearFrames
  <2> QED BY <1>7, <2>1, ClearFinite, FS_AddElement
<1>9. /\ q.free_frames = Cardinality(ClearFrames(q))
      /\ q.free_frames \in 0 .. PMM_FRAME_COUNT
  <2>1. q.free_frames = p.free_frames + 1
    OBVIOUS
  <2>2. p.free_frames = Cardinality(ClearFrames(p))
    BY DEF PmmInv
  <2> QED BY <1>8, <2>1, <2>2, ClearFinite
<1>10. \A g \in Frames : g < q.hint => q.bitmap[g] = 1
  <2> SUFFICES ASSUME NEW g \in Frames, g < q.hint
               PROVE  q.bitmap[g] = 1
    OBVIOUS
  <2>1. g \in Nat /\ g < p.hint /\ g # f
    BY <1>1, <1>6, FrameCountAssumption DEF Frames
  <2> QED BY <1>6, <2>1 DEF PmmInv
<1>11. 0 \notin ClearFrames(q)
  BY <1>7 DEF PmmInv
<1> QED
  <2>1. PmmType(q)
    BY <1>6, <1>9 DEF PmmType
  <2>2. PmmInv(q)
    <3> HIDE DEF q
    <3> QED BY <1>9, <1>10, <1>11, <2>1 DEF PmmInv
  <2> QED
    <3> HIDE DEF q
    <3> QED BY <1>5, <1>7, <2>2

-----------------------------------------------------------------------------
(* The allocator with its callers. *)

(* The inductive invariant is the allocator's invariant, the callers' types *)
(* and the fact that what they hold is marked used.                         *)
HeldType == /\ held \subseteq {f * PMM_FRAME_SIZE : f \in Frames \ {0}}
            /\ ret \in {f * PMM_FRAME_SIZE : f \in Frames}

(* The invariant is one of the statics, one of what callers hold, and the *)
(* link between the two.                                                  *)
LEMMA IInvParts == IInv <=> PmmInv(pmm) /\ HeldType /\ NoDoubleGrant
  BY DEF IInv, TypeOK, CountExact, HintSound, PmmInv, PmmType, HeldType

(* Frame addresses name their frames. *)
LEMMA FrameOfAddr ==
  ASSUME NEW f \in Frames
  PROVE  /\ f \in Nat
         /\ f * PMM_FRAME_SIZE \in Nat
         /\ (f * PMM_FRAME_SIZE) \div PMM_FRAME_SIZE = f
         /\ f # 0 => f * PMM_FRAME_SIZE # 0
<1>1. f \in Nat
  BY FrameCountAssumption DEF Frames
<1> QED BY <1>1 DEF PMM_FRAME_SIZE

(* What boot hands over. *)
LEMMA InitInv == Init => IInv
<1> SUFFICES ASSUME Init PROVE IInv
  OBVIOUS
<1>1. PmmType(pmm)
  BY FrameCountAssumption DEF Init, PmmType
<1>2. PmmInv(pmm)
  BY <1>1, FrameCountAssumption DEF Init, Booted, PmmInv, Frames
<1>3. 0 \in Frames /\ 0 = 0 * PMM_FRAME_SIZE
  BY FrameCountAssumption DEF Frames, PMM_FRAME_SIZE
<1>4. HeldType /\ NoDoubleGrant
  BY <1>3 DEF Init, HeldType, NoDoubleGrant
<1> QED BY <1>2, <1>4, IInvParts

(* What a step does, seen from the pool: it hands out the lowest clear      *)
(* frame, refuses, takes one back, or changes nothing.                      *)
StepTake ==
  \E f \in ClearFrames(pmm) :
    /\ \A g \in ClearFrames(pmm) : f <= g
    /\ ClearFrames(pmm') = ClearFrames(pmm) \ {f}
    /\ held' = held \cup {f * PMM_FRAME_SIZE}
    /\ ret' = f * PMM_FRAME_SIZE
    /\ pmm' = Grant(pmm, f)
StepRefuse == ClearFrames(pmm) = {} /\ pmm' = pmm /\ held' = held /\ ret' = 0
StepGive ==
  \E f \in Frames \ {0} :
    /\ f * PMM_FRAME_SIZE \in held
    /\ pmm.bitmap[f] = 1
    /\ ClearFrames(pmm') = ClearFrames(pmm) \cup {f}
    /\ held' = held \ {f * PMM_FRAME_SIZE}
    /\ ret' = ret
    /\ pmm' = pmm_free_frame(pmm, f * PMM_FRAME_SIZE)

(* An allocation takes the lowest free frame or answers 0. *)
LEMMA AllocStep ==
  ASSUME IInv, AllocFrame
  PROVE  StepTake \/ StepRefuse
<1> DEFINE r == pmm_alloc_frame(pmm)
<1>1. PmmInv(pmm)
  BY IInvParts
<1>2. CASE ClearFrames(pmm) = {} /\ r = [pmm |-> pmm, pa |-> 0]
  BY <1>2 DEF AllocFrame, StepRefuse
<1>3. ASSUME NEW f \in ClearFrames(pmm),
             \A g \in ClearFrames(pmm) : f <= g,
             r = [pmm |-> Grant(pmm, f), pa |-> f * PMM_FRAME_SIZE]
      PROVE  StepTake
  <2>1. f \in Frames /\ f # 0
    BY <1>1 DEF ClearFrames, PmmInv
  <2>2. r.pa # 0 /\ r.pa = f * PMM_FRAME_SIZE /\ r.pmm = Grant(pmm, f)
    BY <1>3, <2>1, FrameOfAddr
  <2>3. pmm' = Grant(pmm, f) /\ ret' = f * PMM_FRAME_SIZE
        /\ held' = held \cup {f * PMM_FRAME_SIZE}
    <3> HIDE DEF r
    <3> QED BY <2>2 DEF AllocFrame, r
  <2>4. ClearFrames(Grant(pmm, f)) = ClearFrames(pmm) \ {f}
    BY <1>1, <1>3, GrantKeepsInv
  <2> QED BY <1>3, <2>3, <2>4 DEF StepTake
<1> QED BY <1>1, <1>2, <1>3, AllocMeaning

(* A release gives a held frame back or changes nothing. *)
LEMMA FreeStep ==
  ASSUME IInv, NEW pa \in PhysAddrs, FreeFrame(pa)
  PROVE  StepGive \/ UNCHANGED pmmVars
<1>1. PmmInv(pmm) /\ HeldType /\ NoDoubleGrant
  BY IInvParts
<1>2. CASE pa \in held
  <2>1. PICK f \in Frames \ {0} : pa = f * PMM_FRAME_SIZE
    BY <1>1, <1>2 DEF HeldType
  <2>2. pmm.bitmap[f] = 1
    BY <1>1, <1>2, <2>1, FrameOfAddr DEF NoDoubleGrant, Used
  <2>3. ClearFrames(pmm_free_frame(pmm, pa)) = ClearFrames(pmm) \cup {f}
    BY <1>1, <2>1, <2>2, FreeKeepsInv
  <2> QED BY <1>2, <2>1, <2>2, <2>3 DEF FreeFrame, StepGive
<1>3. CASE pa \notin held
  <2>1. IgnoredByFree(pmm, pa)
    BY <1>3 DEF FreeFrame
  <2>2. pmm' = pmm /\ held' = held /\ ret' = ret
    BY <1>3, <2>1 DEF FreeFrame, pmm_free_frame
  <2> QED BY <2>2 DEF pmmVars
<1> QED BY <1>2, <1>3

(* Every step is one of these. *)
LEMMA NextStep ==
  ASSUME IInv, [Next]_pmmVars
  PROVE  StepTake \/ StepRefuse \/ StepGive \/ UNCHANGED pmmVars
  BY AllocStep, FreeStep DEF Next

(* Each of them keeps counter, hint and ownership. *)
LEMMA NextInv == IInv /\ [Next]_pmmVars => IInv'
<1>0. (PmmInv(pmm) /\ HeldType /\ NoDoubleGrant)' => IInv'
  BY IInvParts, PTL
<1> SUFFICES ASSUME IInv, [Next]_pmmVars
             PROVE  PmmInv(pmm') /\ HeldType' /\ NoDoubleGrant'
  BY <1>0
<1>1. PmmInv(pmm) /\ HeldType /\ NoDoubleGrant
  BY IInvParts
<1>2. CASE StepTake
  <2>1. PICK f \in ClearFrames(pmm) :
          /\ \A g \in ClearFrames(pmm) : f <= g
          /\ ClearFrames(pmm') = ClearFrames(pmm) \ {f}
          /\ held' = held \cup {f * PMM_FRAME_SIZE}
          /\ ret' = f * PMM_FRAME_SIZE
          /\ pmm' = Grant(pmm, f)
    BY <1>2 DEF StepTake
  <2>2. PmmInv(pmm')
    BY <1>1, <2>1, GrantKeepsInv
  <2>3. f \in Frames \ {0}
    BY <1>1 DEF PmmInv, ClearFrames
  <2>4. HeldType'
    BY <1>1, <2>1, <2>3 DEF HeldType
  <2>5. \A pa \in held' : Used(pmm', pa)
    <3> SUFFICES ASSUME NEW pa \in held' PROVE Used(pmm', pa)
      OBVIOUS
    <3>1. PICK e \in Frames : pa = e * PMM_FRAME_SIZE
      BY <2>4 DEF HeldType
    <3>2. e = f \/ pmm.bitmap[e] = 1
      BY <1>1, <2>1, <2>3, <3>1, FrameOfAddr DEF NoDoubleGrant, Used
    <3>3. pmm.bitmap \in [Frames -> {0, 1}]
      BY <1>1 DEF PmmInv, PmmType
    <3>4. pmm'.bitmap[e] = 1
      BY <2>1, <2>3, <3>2, <3>3 DEF Grant
    <3> QED BY <3>1, <3>4, FrameOfAddr DEF Used
  <2> QED BY <2>2, <2>4, <2>5 DEF NoDoubleGrant
<1>3. CASE StepRefuse
  <2>1. 0 \in Frames /\ 0 = 0 * PMM_FRAME_SIZE
    BY FrameCountAssumption DEF Frames, PMM_FRAME_SIZE
  <2> QED BY <1>1, <1>3, <2>1 DEF StepRefuse, HeldType, NoDoubleGrant
<1>4. CASE StepGive
  <2>1. PICK f \in Frames \ {0} :
          /\ f * PMM_FRAME_SIZE \in held
          /\ pmm.bitmap[f] = 1
          /\ ClearFrames(pmm') = ClearFrames(pmm) \cup {f}
          /\ held' = held \ {f * PMM_FRAME_SIZE}
          /\ ret' = ret
          /\ pmm' = pmm_free_frame(pmm, f * PMM_FRAME_SIZE)
    BY <1>4 DEF StepGive
  <2>2. PmmInv(pmm')
    BY <1>1, <2>1, FreeKeepsInv
  <2>3. HeldType'
    BY <1>1, <2>1 DEF HeldType
  <2>4. \A pa \in held' : Used(pmm', pa)
    <3> SUFFICES ASSUME NEW pa \in held' PROVE Used(pmm', pa)
      OBVIOUS
    <3>1. PICK e \in Frames \ {0} : pa = e * PMM_FRAME_SIZE
      BY <2>3 DEF HeldType
    <3>2. pmm.bitmap[e] = 1 /\ e # f
      BY <1>1, <2>1, <3>1, FrameOfAddr DEF NoDoubleGrant, Used
    <3>3. e \notin ClearFrames(pmm')
      BY <2>1, <3>2 DEF ClearFrames
    <3>4. pmm'.bitmap[e] = 1
      BY <2>2, <3>3 DEF PmmInv, PmmType, ClearFrames
    <3> QED BY <3>1, <3>4, FrameOfAddr DEF Used
  <2> QED BY <2>2, <2>3, <2>4 DEF NoDoubleGrant
<1>5. CASE UNCHANGED pmmVars
  BY <1>1, <1>5 DEF pmmVars, HeldType, NoDoubleGrant
<1> QED BY <1>2, <1>3, <1>4, <1>5, NextStep

-----------------------------------------------------------------------------
(* The inductive invariant holds in every reachable state: in particular    *)
(* the counter of free frames is exact, nothing below the hint is free, and *)
(* no frame is held and free at once.                                       *)
THEOREM PmmInvariant == Spec => []IInv
<1>1. Init => IInv
  BY InitInv
<1>2. IInv /\ [Next]_pmmVars => IInv'
  BY NextInv
<1> QED BY <1>1, <1>2, PTL DEF Spec

(* The statics keep their types: the counter never underflows below 0 and   *)
(* the hint never passes the frame count.                                   *)
THEOREM PmmTypes == Spec => []TypeOK
  BY PmmInvariant, PTL DEF IInv

(* pmm_free_frames always counts the clear bits. *)
THEOREM PmmCount == Spec => []CountExact
  BY PmmInvariant, PTL DEF IInv

(* Nothing below pmm_hint is free, so pmm_alloc_frame is lowest-first and   *)
(* its second pass is never needed.                                         *)
THEOREM PmmHint == Spec => []HintSound
  BY PmmInvariant, PTL DEF IInv

(* A frame that is held is never free, so it is never handed out twice. *)
THEOREM PmmNoDoubleGrant == Spec => []NoDoubleGrant
  BY PmmInvariant, PTL DEF IInv

(* No step creates or loses a frame. *)
THEOREM PmmConservation == Spec => Conservation
<1>1. IInv /\ [Next]_pmmVars => [PoolOf(pmm', held') = PoolOf(pmm, held)]_pmmVars
  <2> SUFFICES ASSUME IInv, [Next]_pmmVars
               PROVE  [PoolOf(pmm', held') = PoolOf(pmm, held)]_pmmVars
    OBVIOUS
  <2>1. CASE StepTake
    BY <2>1 DEF StepTake, PoolOf
  <2>2. CASE StepRefuse
    BY <2>2 DEF StepRefuse, PoolOf
  <2>3. CASE StepGive
    BY <2>3 DEF StepGive, PoolOf
  <2> QED BY <2>1, <2>2, <2>3, NextStep
<1> QED BY <1>1, PmmInvariant, PTL DEF Spec, Conservation

(* The bitmap allocator implements the abstract pool of frames. *)
THEOREM PmmRefinesPool == Spec => ImplementsPool
<1> DEFINE A(S) == {f * PMM_FRAME_SIZE : f \in S}
<1>1. Init => Pool!Init
  <2> SUFFICES ASSUME Init PROVE Pool!Init
    OBVIOUS
  <2>1. A(ClearFrames(pmm)) \subseteq A(Frames)
    BY DEF ClearFrames
  <2>2. 0 \notin A(ClearFrames(pmm))
    <3>1. \A f \in ClearFrames(pmm) : f \in Frames /\ f # 0
      BY DEF Init, Booted, ClearFrames
    <3> QED BY <3>1, FrameOfAddr
  <2> QED BY <2>1, <2>2 DEF Init, Pool!Init
<1>2. IInv /\ [Next]_pmmVars => [Pool!Next]_(Pool!poolVars)
  <2> SUFFICES ASSUME IInv, [Next]_pmmVars
               PROVE  [Pool!Next]_(Pool!poolVars)
    OBVIOUS
  <2>0. PmmInv(pmm)
    BY IInvParts
  <2>1. CASE StepTake
    <3>1. PICK f \in ClearFrames(pmm) :
            /\ \A g \in ClearFrames(pmm) : f <= g
            /\ ClearFrames(pmm') = ClearFrames(pmm) \ {f}
            /\ held' = held \cup {f * PMM_FRAME_SIZE}
            /\ ret' = f * PMM_FRAME_SIZE
      BY <2>1 DEF StepTake
    <3>2. \A g \in ClearFrames(pmm) : g \in Nat
      BY FrameCountAssumption DEF ClearFrames, Frames
    <3>3. A(ClearFrames(pmm')) = A(ClearFrames(pmm)) \ {f * PMM_FRAME_SIZE}
      BY <3>1, <3>2 DEF PMM_FRAME_SIZE
    <3>4. \A o \in A(ClearFrames(pmm)) : f * PMM_FRAME_SIZE <= o
      BY <3>1, <3>2 DEF PMM_FRAME_SIZE
    <3>5. Pool!Take
      BY <3>1, <3>3, <3>4 DEF Pool!Take
    <3> QED BY <3>5 DEF Pool!Next
  <2>2. CASE StepRefuse
    BY <2>2 DEF StepRefuse, Pool!Next, Pool!Refuse
  <2>3. CASE StepGive
    <3>1. Pool!Give
      BY <2>3 DEF StepGive, Pool!Give
    <3> QED BY <3>1 DEF Pool!Next
  <2>4. CASE UNCHANGED pmmVars
    BY <2>4 DEF pmmVars, Pool!poolVars
  <2> QED BY <2>1, <2>2, <2>3, <2>4, NextStep
<1> QED BY <1>1, <1>2, PmmInvariant, PTL DEF Spec, ImplementsPool, Pool!Spec
=============================================================================
