------------------------------ MODULE VmProofs ------------------------------
(* Proofs about virtual memory for every number of frames, every size of    *)
(* the tables, every heap and every set of pages kernel code may map, and   *)
(* about vm_self_test for every layout of the pages it uses that vm.h       *)
(* allows.                                                                  *)
EXTENDS VmTest, PmmProofs

-----------------------------------------------------------------------------
(* The inductive invariant, part by part. *)

Contents == [Index -> Int]
Memory == [Phys -> Contents]

(* The levels of the tables below a set S of address spaces. *)
L1(m, S) == Targets(m, S)
L2(m, S) == Targets(m, L1(m, S))
L3(m, S) == Targets(m, L2(m, S))
AllTables(m, S) == S \cup L1(m, S) \cup L2(m, S) \cup L3(m, S)

Present(e) == e \notin {0, HUGE}

(* An entry that is present has one place: tables are not linked twice. *)
LinkedOnce(m, T) ==
  \A t1, t2 \in T, i, j \in Index :
    Present(m[t1][i]) /\ m[t1][i] = m[t2][j] => t1 = t2 /\ i = j

(* Spaces share tables, but only at the same index. *)
SharedInPlace(m, S) ==
  \A t1, t2 \in S, i, j \in Index :
    Present(m[t1][i]) /\ m[t1][i] = m[t2][j] => i = j

Forest(m, S) ==
  /\ AllTables(m, S) \subseteq Phys \ {0}
  /\ S \cap L1(m, S) = {} /\ S \cap L2(m, S) = {} /\ S \cap L3(m, S) = {}
  /\ L1(m, S) \cap L2(m, S) = {} /\ L1(m, S) \cap L3(m, S) = {}
  /\ L2(m, S) \cap L3(m, S) = {}
  /\ SharedInPlace(m, S)
  /\ LinkedOnce(m, L1(m, S))
  /\ LinkedOnce(m, L2(m, S))

(* D are the frames that hold data: the allocator marks used what was never *)
(* free, the tables and D; only data frames are mapped.                     *)
Owned(m, p, S, D) ==
  /\ D \subseteq Phys \ {0} /\ D \subseteq usable
  /\ D \cap AllTables(m, S) = {}
  /\ Targets(m, L3(m, S)) \subseteq D
  /\ \A pa \in Phys : Used(p, pa) <=> pa \notin usable \/ pa \in AllTables(m, S) \cup D

(* The heap's PML4 entry is the same everywhere, and it exists before a     *)
(* second space does.                                                       *)
HalfShared(m, S) ==
  /\ \A s \in S : m[s][HALF] = m[BootPml4][HALF]
  /\ S = {BootPml4} \/ Present(m[BootPml4][HALF])

(* boot.asm's identity map hangs below PML4 entry 0, and only its PD holds  *)
(* huge entries.                                                            *)
BootMap(m, S) ==
  /\ m[BootPml4][0] = BootPdpt
  /\ m[BootPdpt][0] = BootPd
  /\ \A t \in AllTables(m, S) \ {BootPd}, i \in Index : m[t][i] # HUGE

Good(m, p, S, D) ==
  /\ PmmInv(p)
  /\ m \in Memory
  /\ BootPml4 \in S
  /\ Forest(m, S)
  /\ Owned(m, p, S, D)
  /\ HalfShared(m, S)
  /\ BootMap(m, S)

HeapFrames(m) == UNION {Translate(m, BootPml4, page) : page \in HeapPages}

(* Heap pages are backed by frames of their own; other pages that are       *)
(* mapped are kernel code's and show frames it holds, the set H.            *)
OwnersKnown(m, S, H) ==
  /\ HeapFrames(m) \cap H = {}
  /\ \A p1, p2 \in HeapPages :
       p1 # p2 => Translate(m, BootPml4, p1) \cap Translate(m, BootPml4, p2) = {}
  /\ \A s \in S, page \in Pages \ HeapPages :
       Translate(m, s, page) # {} =>
         page \in ClientPages /\ Translate(m, s, page) \subseteq H

CpuTypes ==
  /\ usable \in Memories
  /\ cr3 \in spaces
  /\ DOMAIN tlb \subseteq Pages
  /\ \/ access = NoAccess
     \/ access \in [va : VirtAddrs(Pages), fetch : BOOLEAN,
                    write : Contents \cup {NoWrite}]
  /\ vm_in_fault = FALSE

(* heap_init's first write comes before everything else. *)
HeapFirst ==
  Present(mem[BootPml4][HALF]) \/ (access # NoAccess /\ access.va.page \in HeapPages)

VmInv ==
  /\ Good(mem, pmm, spaces, HeapFrames(mem) \cup held)
  /\ OwnersKnown(mem, spaces, held)
  /\ CpuTypes
  /\ HeapFirst
  /\ TlbCoherent

-----------------------------------------------------------------------------
(* Frames and the allocator. *)

(* Indexes and addresses are what they look like. *)
LEMMA Basics ==
  /\ 0 \in Index /\ HALF \in Index /\ HALF # 0
  /\ BootPml4 \in Phys \ {0} /\ BootPdpt \in Phys \ {0} /\ BootPd \in Phys \ {0}
  /\ BootPml4 # BootPdpt /\ BootPml4 # BootPd /\ BootPdpt # BootPd
  /\ 0 \in Phys /\ HUGE \notin Phys
  /\ Phys \subseteq Int
  /\ Zero \in Contents /\ Dirty \in Contents
<1>1. 0 \in Index /\ HALF \in Index /\ HALF # 0
  BY VmAssumption DEF Index
<1>2. /\ BootPml4 \in Phys /\ BootPdpt \in Phys /\ BootPd \in Phys
      /\ BootPml4 = 4096 /\ BootPdpt = 8192 /\ BootPd = 12288
  BY VmAssumption DEF BootPml4, BootPdpt, BootPd, BootTables, PMM_FRAME_SIZE
<1>3. 0 \in Phys
  <2>1. 0 \in Frames /\ 0 = 0 * PMM_FRAME_SIZE
    BY FrameCountAssumption DEF Frames, PMM_FRAME_SIZE
  <2> QED BY <2>1 DEF Phys
<1>4. HUGE \notin Phys
  <2>1. \A f \in Frames : f * PMM_FRAME_SIZE # HUGE
    BY FrameCountAssumption DEF Frames, PMM_FRAME_SIZE, HUGE
  <2> QED BY <2>1 DEF Phys
<1>5. Phys \subseteq Int
  <2>1. \A f \in Frames : f * PMM_FRAME_SIZE \in Int
    BY FrameCountAssumption DEF Frames, PMM_FRAME_SIZE
  <2> QED BY <2>1 DEF Phys
<1>6. Zero \in Contents /\ Dirty \in Contents
  BY <1>2 DEF Zero, Dirty, Contents
<1> QED BY <1>1, <1>2, <1>3, <1>4, <1>5, <1>6

(* What pmm_alloc_frame returns is 0, or a frame that was free and that is  *)
(* the only one to change.                                                  *)
LEMMA AllocFresh ==
  ASSUME NEW p, PmmInv(p)
  PROVE  LET r == pmm_alloc_frame(p)
         IN  \/ /\ r = [pmm |-> p, pa |-> 0]
                /\ p.free_frames = 0
             \/ /\ r = [pmm |-> r.pmm, pa |-> r.pa]
                /\ PmmInv(r.pmm)
                /\ r.pa \in Phys \ {0} /\ ~Used(p, r.pa)
                /\ \A pa \in Phys : Used(r.pmm, pa) <=> Used(p, pa) \/ pa = r.pa
                /\ r.pmm.free_frames = p.free_frames - 1
                /\ p.free_frames > 0
<1> DEFINE r == pmm_alloc_frame(p)
<1>0. p.free_frames = Cardinality(ClearFrames(p)) /\ p.free_frames \in Nat
  BY ClearFinite DEF PmmInv
<1>1. CASE ClearFrames(p) = {} /\ r = [pmm |-> p, pa |-> 0]
  BY <1>0, <1>1, FS_EmptySet
<1>2. ASSUME NEW f \in ClearFrames(p), \A g \in ClearFrames(p) : f <= g,
             r = [pmm |-> Grant(p, f), pa |-> f * PMM_FRAME_SIZE]
      PROVE  /\ r = [pmm |-> r.pmm, pa |-> r.pa]
             /\ PmmInv(r.pmm)
             /\ r.pa \in Phys \ {0} /\ ~Used(p, r.pa)
             /\ \A pa \in Phys : Used(r.pmm, pa) <=> Used(p, pa) \/ pa = r.pa
             /\ r.pmm.free_frames = p.free_frames - 1
             /\ p.free_frames > 0
  <2>1. f \in Frames /\ f # 0 /\ p.bitmap[f] = 0
    BY DEF ClearFrames, PmmInv
  <2>2. PmmInv(r.pmm)
    BY <1>2, GrantKeepsInv
  <2>3. r.pa \in Phys \ {0} /\ ~Used(p, r.pa)
    BY <1>2, <2>1, FrameOfAddr DEF Phys, Used
  <2>4. ASSUME NEW pa \in Phys
        PROVE  Used(r.pmm, pa) <=> Used(p, pa) \/ pa = r.pa
    <3>1. PICK g \in Frames : pa = g * PMM_FRAME_SIZE
      BY DEF Phys
    <3>2. pa \div PMM_FRAME_SIZE = g /\ (pa = r.pa <=> g = f)
      BY <1>2, <2>1, <3>1, FrameOfAddr
    <3>3. p.bitmap \in [Frames -> {0, 1}]
      BY DEF PmmInv, PmmType
    <3>4. r.pmm.bitmap = [p.bitmap EXCEPT ![f] = 1]
      BY <1>2 DEF Grant
    <3> QED BY <2>1, <3>2, <3>3, <3>4 DEF Used
  <2>5. r.pmm.free_frames = p.free_frames - 1
    BY <1>2 DEF Grant
  <2>6. p.free_frames > 0
    BY <1>0, ClearFinite, FS_EmptySet
  <2>7. r = [pmm |-> r.pmm, pa |-> r.pa]
    BY <1>2
  <2> QED BY <2>2, <2>3, <2>4, <2>5, <2>6, <2>7
<1>3. \/ ClearFrames(p) = {} /\ r = [pmm |-> p, pa |-> 0]
      \/ \E f \in ClearFrames(p) :
           /\ \A g \in ClearFrames(p) : f <= g
           /\ r = [pmm |-> Grant(p, f), pa |-> f * PMM_FRAME_SIZE]
  BY AllocMeaning
<1> HIDE DEF r
<1> QED BY <1>1, <1>2, <1>3 DEF r

(* pmm_free_frame on a used frame makes it, and only it, free. *)
LEMMA FreeFresh ==
  ASSUME NEW p, PmmInv(p), NEW pa \in Phys \ {0}, Used(p, pa)
  PROVE  LET q == pmm_free_frame(p, pa)
         IN  /\ PmmInv(q)
             /\ \A x \in Phys : Used(q, x) <=> Used(p, x) /\ x # pa
<1> DEFINE q == pmm_free_frame(p, pa)
<1>1. PICK f \in Frames : pa = f * PMM_FRAME_SIZE
  BY DEF Phys
<1>2. f # 0
  BY <1>1 DEF PMM_FRAME_SIZE
<1>3. p.bitmap[f] = 1
  BY <1>1, FrameOfAddr DEF Used
<1>4. PmmInv(q) /\ ClearFrames(q) = ClearFrames(p) \cup {f}
  BY <1>1, <1>2, <1>3, FreeKeepsInv
<1>5. p.bitmap \in [Frames -> {0, 1}] /\ q.bitmap \in [Frames -> {0, 1}]
  <2> HIDE DEF q
  <2> QED BY <1>4 DEF PmmInv, PmmType
<1>6. ASSUME NEW x \in Phys
      PROVE  Used(q, x) <=> Used(p, x) /\ x # pa
  <2>1. PICK g \in Frames : x = g * PMM_FRAME_SIZE
    BY DEF Phys
  <2>2. x \div PMM_FRAME_SIZE = g /\ (x = pa <=> g = f)
    BY <1>1, <2>1, FrameOfAddr
  <2> HIDE DEF q
  <2> QED BY <1>4, <1>5, <2>2 DEF Used, ClearFrames
<1> QED BY <1>4, <1>6

-----------------------------------------------------------------------------
(* Tables and translations. *)

(* The targets of some tables are their present entries. *)
LEMMA TargetsMember ==
  ASSUME NEW m, NEW T, NEW x
  PROVE  x \in Targets(m, T) <=>
           Present(x) /\ \E t \in T, i \in Index : m[t][i] = x
  BY DEF Targets, Present

(* The entries an address uses. *)
E1(m, s, page) == m[s][page[1]]
E2(m, s, page) == m[E1(m, s, page)][page[2]]
E3(m, s, page) == m[E2(m, s, page)][page[3]]
E4(m, s, page) == m[E3(m, s, page)][page[4]]

(* The MMU finds a page table. *)
Reaches(m, s, page) ==
  Present(E1(m, s, page)) /\ Present(E2(m, s, page)) /\ Present(E3(m, s, page))

(* The MMU translates a page if all four entries are present. *)
LEMMA TranslateEntries ==
  ASSUME NEW m, NEW s, NEW page
  PROVE  Translate(m, s, page) =
           IF Reaches(m, s, page) /\ Present(E4(m, s, page))
           THEN {E4(m, s, page)} ELSE {}
<1>1. \A t, i : Follow(m, {t}, i) = IF Present(m[t][i]) THEN {m[t][i]} ELSE {}
  BY DEF Follow, Present
<1>2. \A i : Follow(m, {}, i) = {}
  BY DEF Follow
<1> DEFINE a == Follow(m, {s}, page[1])
           b == Follow(m, a, page[2])
           c == Follow(m, b, page[3])
           d == Follow(m, c, page[4])
<1>3. Translate(m, s, page) = d
  BY DEF Translate, Path
<1>4. a = IF Present(E1(m, s, page)) THEN {E1(m, s, page)} ELSE {}
  BY <1>1 DEF E1
<1> HIDE DEF a
<1>5. b = IF Present(E1(m, s, page)) /\ Present(E2(m, s, page))
          THEN {E2(m, s, page)} ELSE {}
  BY <1>1, <1>2, <1>4 DEF E2
<1> HIDE DEF b
<1>6. c = IF Reaches(m, s, page) THEN {E3(m, s, page)} ELSE {}
  BY <1>1, <1>2, <1>5 DEF E3, Reaches
<1> HIDE DEF c
<1>7. d = IF Reaches(m, s, page) /\ Present(E4(m, s, page))
          THEN {E4(m, s, page)} ELSE {}
  BY <1>1, <1>2, <1>6 DEF E4
<1> QED BY <1>3, <1>7

(* Each entry that is present leads to a table of the next level. *)
LEMMA PathLevels ==
  ASSUME NEW m, NEW S, NEW s \in S, NEW page \in Pages
  PROVE  /\ Present(E1(m, s, page)) => E1(m, s, page) \in L1(m, S)
         /\ Present(E1(m, s, page)) /\ Present(E2(m, s, page)) =>
              E2(m, s, page) \in L2(m, S)
         /\ Reaches(m, s, page) => E3(m, s, page) \in L3(m, S)
         /\ Reaches(m, s, page) /\ Present(E4(m, s, page)) =>
              E4(m, s, page) \in Targets(m, L3(m, S))
<1>1. page[1] \in Index /\ page[2] \in Index /\ page[3] \in Index /\ page[4] \in Index
  BY DEF Pages
<1>2. Present(E1(m, s, page)) => E1(m, s, page) \in L1(m, S)
  BY <1>1, TargetsMember DEF E1, L1
<1>3. ASSUME Present(E1(m, s, page)), Present(E2(m, s, page))
      PROVE  E2(m, s, page) \in L2(m, S)
  BY <1>1, <1>2, <1>3, TargetsMember DEF E2, L2
<1>4. ASSUME Reaches(m, s, page)
      PROVE  E3(m, s, page) \in L3(m, S)
  BY <1>1, <1>3, <1>4, TargetsMember DEF E3, L3, Reaches
<1>5. ASSUME Reaches(m, s, page), Present(E4(m, s, page))
      PROVE  E4(m, s, page) \in Targets(m, L3(m, S))
  BY <1>1, <1>4, <1>5, TargetsMember DEF E4
<1> QED BY <1>2, <1>3, <1>4, <1>5

(* Every entry of a page table is the translation of some page. *)
LEMMA TargetsTranslated ==
  ASSUME NEW m, NEW S, NEW x \in Targets(m, L3(m, S))
  PROVE  \E s \in S, page \in Pages : Translate(m, s, page) = {x}
<1>1. PICK t3 \in L3(m, S), i4 \in Index : m[t3][i4] = x
  BY TargetsMember
<1>2. PICK t2 \in L2(m, S), i3 \in Index : m[t2][i3] = t3
  BY TargetsMember DEF L3
<1>3. PICK t1 \in L1(m, S), i2 \in Index : m[t1][i2] = t2
  BY TargetsMember DEF L2
<1>4. PICK s \in S, i1 \in Index : m[s][i1] = t1
  BY TargetsMember DEF L1
<1>5. Present(x) /\ Present(t3) /\ Present(t2) /\ Present(t1)
  BY TargetsMember DEF L1, L2, L3
<1> DEFINE page == <<i1, i2, i3, i4>>
<1>6. page \in Pages
  BY DEF Pages
<1>7. /\ E1(m, s, page) = t1 /\ E2(m, s, page) = t2 /\ E3(m, s, page) = t3
      /\ E4(m, s, page) = x
  BY <1>1, <1>2, <1>3, <1>4 DEF E1, E2, E3, E4
<1>8. Translate(m, s, page) = {x}
  <2> HIDE DEF page
  <2> QED BY <1>5, <1>7, TranslateEntries DEF Reaches
<1> QED BY <1>6, <1>8

-----------------------------------------------------------------------------
(* A new table: frame f is cleared and linked at entry i of table t. *)
Link(m, t, i, f) == [m EXCEPT ![f] = Zero, ![t][i] = f]

(* A new table is empty, and one entry of one old table leads to it. *)
LEMMA LinkEntries ==
  ASSUME NEW m \in Memory, NEW t \in Phys, NEW f \in Phys \ {0}, t # f,
         NEW i \in Index
  PROVE  /\ Link(m, t, i, f) \in Memory
         /\ \A x \in Phys, j \in Index :
              Link(m, t, i, f)[x][j] = IF x = f THEN 0
                                       ELSE IF x = t /\ j = i THEN f
                                       ELSE m[x][j]
         /\ \A x \in Phys \ {t, f} : Link(m, t, i, f)[x] = m[x]
<1> DEFINE n == Link(m, t, i, f)
<1>1. DOMAIN m = Phys /\ \A x \in Phys : m[x] \in Contents
  BY DEF Memory
<1>2. /\ n = [x \in Phys |-> IF x = t THEN [m[t] EXCEPT ![i] = f]
                             ELSE IF x = f THEN Zero ELSE m[x]]
  BY <1>1 DEF Link, Memory
<1>4. /\ [m[t] EXCEPT ![i] = f] \in Contents
      /\ \A j \in Index : [m[t] EXCEPT ![i] = f][j] = IF j = i THEN f ELSE m[t][j]
  BY <1>1, Basics DEF Contents
<1>5. Zero \in Contents /\ \A j \in Index : Zero[j] = 0
  BY Basics DEF Zero
<1>6. n \in Memory
  BY <1>1, <1>2, <1>4, <1>5 DEF Memory
<1> HIDE DEF n
<1>7. \A x \in Phys : n[x] = IF x = t THEN [m[t] EXCEPT ![i] = f]
                             ELSE IF x = f THEN Zero ELSE m[x]
  BY <1>2
<1>8. \A x \in Phys, j \in Index :
        n[x][j] = IF x = f THEN 0 ELSE IF x = t /\ j = i THEN f ELSE m[x][j]
  BY <1>4, <1>5, <1>7
<1> QED BY <1>6, <1>7, <1>8 DEF n

(* Tables with the same entries have the same targets. *)
LEMMA TargetsSame ==
  ASSUME NEW m, NEW n, NEW T, \A t \in T, i \in Index : n[t][i] = m[t][i]
  PROVE  Targets(n, T) = Targets(m, T)
  BY TargetsMember

(* The link gives one set of tables a new target, f, and none to others. *)
LEMMA TargetsLink ==
  ASSUME NEW m \in Memory, NEW t \in Phys, NEW f \in Phys \ {0}, t # f,
         NEW i \in Index, m[t][i] = 0, NEW T \in SUBSET Phys, f \notin T
  PROVE  LET n == Link(m, t, i, f)
         IN  /\ t \in T => Targets(n, T) = Targets(m, T) \cup {f}
             /\ t \notin T => Targets(n, T) = Targets(m, T)
             /\ t \notin T => Targets(n, T \cup {f}) = Targets(m, T)
<1> DEFINE n == Link(m, t, i, f)
<1>1. \A x \in Phys, j \in Index :
        n[x][j] = IF x = f THEN 0 ELSE IF x = t /\ j = i THEN f ELSE m[x][j]
  BY LinkEntries
<1>2. Present(f) /\ ~Present(0)
  BY Basics DEF Present
<1> HIDE DEF n
<1>3. ASSUME t \in T PROVE Targets(n, T) = Targets(m, T) \cup {f}
  <2>1. ASSUME NEW x PROVE x \in Targets(n, T) => x \in Targets(m, T) \cup {f}
    BY <1>1, <2>1, TargetsMember
  <2>2. ASSUME NEW x \in Targets(m, T) PROVE x \in Targets(n, T)
    <3>1. PICK u \in T, j \in Index : m[u][j] = x /\ Present(x)
      BY TargetsMember
    <3>2. n[u][j] = x
      BY <1>1, <1>2, <3>1
    <3> QED BY <3>1, <3>2, TargetsMember
  <2>3. f \in Targets(n, T)
    <3>1. n[t][i] = f
      BY <1>1
    <3> QED BY <1>2, <1>3, <3>1, TargetsMember
  <2> QED BY <2>1, <2>2, <2>3
<1>4. ASSUME t \notin T PROVE Targets(n, T) = Targets(m, T)
  BY <1>1, <1>4, TargetsSame
<1>5. ASSUME t \notin T PROVE Targets(n, T \cup {f}) = Targets(m, T)
  <2>1. ASSUME NEW x PROVE x \in Targets(n, T \cup {f}) <=> x \in Targets(n, T)
    BY <1>1, <1>2, TargetsMember
  <2> QED BY <1>4, <1>5, <2>1
<1> QED BY <1>3, <1>4, <1>5 DEF n

(* The link keeps entries unique. *)
LEMMA UniqueLink ==
  ASSUME NEW m \in Memory, NEW t \in Phys, NEW f \in Phys \ {0}, t # f,
         NEW i \in Index, m[t][i] = 0, NEW T \in SUBSET Phys, f \notin T,
         f \notin Targets(m, T)
  PROVE  LET n == Link(m, t, i, f)
         IN  /\ LinkedOnce(m, T) => LinkedOnce(n, T)
             /\ LinkedOnce(m, T) /\ t \notin T => LinkedOnce(n, T \cup {f})
             /\ SharedInPlace(m, T) => SharedInPlace(n, T)
<1> DEFINE n == Link(m, t, i, f)
<1>1. \A x \in Phys, j \in Index :
        n[x][j] = IF x = f THEN 0 ELSE IF x = t /\ j = i THEN f ELSE m[x][j]
  BY LinkEntries
<1>2. Present(f) /\ ~Present(0)
  BY Basics DEF Present
<1>3. \A x \in T, j \in Index : m[x][j] # f
  BY <1>2, TargetsMember
<1> HIDE DEF n
<1>4. ASSUME LinkedOnce(m, T) PROVE LinkedOnce(n, T)
  BY <1>1, <1>2, <1>3, <1>4 DEF LinkedOnce
<1>5. ASSUME LinkedOnce(m, T), t \notin T PROVE LinkedOnce(n, T \cup {f})
  BY <1>1, <1>2, <1>3, <1>5 DEF LinkedOnce
<1>6. ASSUME SharedInPlace(m, T) PROVE SharedInPlace(n, T)
  BY <1>1, <1>2, <1>3, <1>6 DEF SharedInPlace
<1> QED BY <1>4, <1>5, <1>6 DEF n

-----------------------------------------------------------------------------
(* What a walk may do to the tables and what it leaves alone. *)
Level(k, m, S) == IF k = 0 THEN S ELSE IF k = 1 THEN L1(m, S)
                  ELSE IF k = 2 THEN L2(m, S) ELSE L3(m, S)

Grows(m, n, S, D) ==
  /\ \A t \in AllTables(m, S), i \in Index : m[t][i] # 0 => n[t][i] = m[t][i]
  /\ \A x \in D : n[x] = m[x]
  /\ \A s \in S, page \in Pages : Translate(n, s, page) = Translate(m, s, page)
  /\ L1(m, S) \subseteq L1(n, S)
  /\ L2(m, S) \subseteq L2(n, S)
  /\ L3(m, S) \subseteq L3(n, S)
  /\ Targets(n, L3(n, S)) = Targets(m, L3(m, S))

(* Growth is reflexive ... *)
LEMMA GrowsRefl ==
  ASSUME NEW m, NEW S, NEW D
  PROVE  Grows(m, m, S, D)
  BY DEF Grows

(* ... and transitive, so that a walk grows the tables level by level. *)
LEMMA GrowsTrans ==
  ASSUME NEW m, NEW n, NEW o, NEW S, NEW D, Grows(m, n, S, D), Grows(n, o, S, D)
  PROVE  Grows(m, o, S, D)
<1>1. AllTables(m, S) \subseteq AllTables(n, S)
  BY DEF Grows, AllTables
<1>2. \A t \in AllTables(m, S), i \in Index : m[t][i] # 0 => o[t][i] = m[t][i]
  BY <1>1 DEF Grows
<1>3. \A s \in S, page \in Pages : Translate(o, s, page) = Translate(m, s, page)
  BY DEF Grows
<1> QED BY <1>2, <1>3 DEF Grows

(* A frame the allocator says is free is neither a table nor data. *)
LEMMA FreshUnknown ==
  ASSUME NEW m, NEW p, NEW S, NEW D, Good(m, p, S, D), NEW f \in Phys, ~Used(p, f)
  PROVE  f \notin AllTables(m, S) /\ f \notin D /\ f \in usable
  BY DEF Good, Owned

(* No page is translated differently after a link: it ends in a table that  *)
(* is not a page table, and the new table is empty.                         *)
LEMMA TranslateLink ==
  ASSUME NEW m \in Memory, NEW S, AllTables(m, S) \subseteq Phys,
         NEW t \in Phys, NEW f \in Phys \ {0}, t # f,
         NEW i \in Index, m[t][i] = 0, f \notin AllTables(m, S), t \notin L3(m, S),
         NEW s \in S, NEW page \in Pages
  PROVE  Translate(Link(m, t, i, f), s, page) = Translate(m, s, page)
<1> DEFINE n == Link(m, t, i, f)
<1> SUFFICES Translate(n, s, page) = Translate(m, s, page)
  OBVIOUS
<1>1. \A x \in Phys, j \in Index :
        n[x][j] = IF x = f THEN 0 ELSE IF x = t /\ j = i THEN f ELSE m[x][j]
  BY LinkEntries
<1>2. Present(f) /\ ~Present(0)
  BY Basics DEF Present
<1>3. page[1] \in Index /\ page[2] \in Index /\ page[3] \in Index /\ page[4] \in Index
  BY DEF Pages
<1> HIDE DEF n
<1>4. \A x \in AllTables(m, S), j \in Index :
        n[x][j] = m[x][j] \/ (m[x][j] = 0 /\ n[x][j] = f)
  BY <1>1
<1>5. \A j \in Index : n[f][j] = 0
  BY <1>1
<1>6. \A x \in L3(m, S), j \in Index : n[x][j] = m[x][j]
  BY <1>1 DEF AllTables
<1>7. /\ s \in AllTables(m, S)
      /\ Present(E1(m, s, page)) => E1(m, s, page) \in AllTables(m, S)
      /\ Present(E1(m, s, page)) /\ Present(E2(m, s, page)) =>
           E2(m, s, page) \in AllTables(m, S)
      /\ Reaches(m, s, page) => E3(m, s, page) \in L3(m, S)
  BY PathLevels DEF AllTables
<1>8. CASE ~Present(E1(m, s, page))
  <2>1. \/ E1(n, s, page) = E1(m, s, page)
        \/ E1(n, s, page) = f /\ E2(n, s, page) = 0
    BY <1>3, <1>4, <1>5, <1>7 DEF E1, E2
  <2> QED BY <1>2, <1>8, <2>1, TranslateEntries DEF Reaches
<1>9. CASE Present(E1(m, s, page)) /\ ~Present(E2(m, s, page))
  <2>1. E1(n, s, page) = E1(m, s, page)
    BY <1>2, <1>3, <1>4, <1>7, <1>9 DEF E1
  <2>2. \/ E2(n, s, page) = E2(m, s, page)
        \/ E2(n, s, page) = f /\ E3(n, s, page) = 0
    BY <1>3, <1>4, <1>5, <1>7, <1>9, <2>1 DEF E2, E3
  <2> QED BY <1>2, <1>9, <2>2, TranslateEntries DEF Reaches
<1>10. CASE /\ Present(E1(m, s, page)) /\ Present(E2(m, s, page))
            /\ ~Present(E3(m, s, page))
  <2>1. E1(n, s, page) = E1(m, s, page)
    BY <1>2, <1>3, <1>4, <1>7, <1>10 DEF E1
  <2>2. E2(n, s, page) = E2(m, s, page)
    BY <1>2, <1>3, <1>4, <1>7, <1>10, <2>1 DEF E2
  <2>3. \/ E3(n, s, page) = E3(m, s, page)
        \/ E3(n, s, page) = f /\ E4(n, s, page) = 0
    BY <1>3, <1>4, <1>5, <1>7, <1>10, <2>2 DEF E3, E4
  <2> QED BY <1>2, <1>10, <2>3, TranslateEntries DEF Reaches
<1>11. CASE Reaches(m, s, page)
  <2>1. E1(n, s, page) = E1(m, s, page)
    BY <1>2, <1>3, <1>4, <1>7, <1>11 DEF E1, Reaches
  <2>2. E2(n, s, page) = E2(m, s, page)
    BY <1>2, <1>3, <1>4, <1>7, <1>11, <2>1 DEF E2, Reaches
  <2>3. E3(n, s, page) = E3(m, s, page)
    BY <1>2, <1>3, <1>4, <1>7, <1>11, <2>2 DEF E3, Reaches
  <2>4. E4(n, s, page) = E4(m, s, page)
    BY <1>3, <1>6, <1>7, <1>11, <2>3 DEF E4
  <2> QED BY <2>1, <2>2, <2>3, <2>4, TranslateEntries DEF Reaches
<1> QED BY <1>8, <1>9, <1>10, <1>11 DEF Reaches

(* Where the link ends, by level of the table that gets it. *)
LEMMA LinkLevels ==
  ASSUME NEW m \in Memory, NEW S, Forest(m, S), NEW k \in 0 .. 2,
         NEW t \in Level(k, m, S), NEW f \in Phys \ {0}, NEW i \in Index,
         m[t][i] = 0, f \notin AllTables(m, S)
  PROVE  LET n == Link(m, t, i, f)
         IN  /\ L1(n, S) = L1(m, S) \cup (IF k = 0 THEN {f} ELSE {})
             /\ L2(n, S) = L2(m, S) \cup (IF k = 1 THEN {f} ELSE {})
             /\ L3(n, S) = L3(m, S) \cup (IF k = 2 THEN {f} ELSE {})
             /\ Targets(n, L3(n, S)) = Targets(m, L3(m, S))
             /\ SharedInPlace(n, S)
             /\ LinkedOnce(n, L1(n, S))
             /\ LinkedOnce(n, L2(n, S))
<1> DEFINE n == Link(m, t, i, f)
           A == S
           B == L1(m, S)
           C == L2(m, S)
           E == L3(m, S)
<1>1. /\ t \in Phys /\ t # f
      /\ A \in SUBSET Phys /\ B \in SUBSET Phys /\ C \in SUBSET Phys /\ E \in SUBSET Phys
      /\ f \notin A /\ f \notin B /\ f \notin C /\ f \notin E
  BY DEF Forest, AllTables, Level
<1>2. /\ B = Targets(m, A) /\ C = Targets(m, B) /\ E = Targets(m, C)
  BY DEF L1, L2, L3
<1>3. /\ L1(n, S) = Targets(n, A) /\ L2(n, S) = Targets(n, L1(n, S))
      /\ L3(n, S) = Targets(n, L2(n, S))
  BY DEF L1, L2, L3
<1>4. /\ A \cap B = {} /\ A \cap C = {} /\ A \cap E = {}
      /\ B \cap C = {} /\ B \cap E = {} /\ C \cap E = {}
      /\ SharedInPlace(m, A) /\ LinkedOnce(m, B) /\ LinkedOnce(m, C)
  BY DEF Forest
<1>5. \A T \in SUBSET Phys : f \notin T =>
        /\ t \in T => Targets(n, T) = Targets(m, T) \cup {f}
        /\ t \notin T => Targets(n, T) = Targets(m, T)
        /\ t \notin T => Targets(n, T \cup {f}) = Targets(m, T)
  BY <1>1, TargetsLink
<1>6. \A T \in SUBSET Phys : f \notin T /\ f \notin Targets(m, T) =>
        /\ LinkedOnce(m, T) => LinkedOnce(n, T)
        /\ LinkedOnce(m, T) /\ t \notin T => LinkedOnce(n, T \cup {f})
        /\ SharedInPlace(m, T) => SharedInPlace(n, T)
  BY <1>1, UniqueLink
<1>7. SharedInPlace(n, S) /\ LinkedOnce(n, B) /\ LinkedOnce(n, C)
  BY <1>1, <1>2, <1>4, <1>6
<1>8. CASE k = 0
  <2>1. t \in A /\ t \notin B /\ t \notin C /\ t \notin E
    BY <1>4, <1>8 DEF Level
  <2> HIDE DEF n, A, B, C, E
  <2>2. L1(n, S) = B \cup {f}
    BY <1>1, <1>2, <1>3, <1>5, <2>1
  <2>3. L2(n, S) = C
    BY <1>1, <1>2, <1>3, <1>5, <2>1, <2>2
  <2>4. L3(n, S) = E
    BY <1>1, <1>2, <1>3, <1>5, <2>1, <2>3
  <2>5. Targets(n, L3(n, S)) = Targets(m, E)
    BY <1>1, <1>5, <2>1, <2>4
  <2>6. LinkedOnce(n, B \cup {f})
    BY <1>1, <1>2, <1>4, <1>6, <2>1
  <2> QED BY <1>7, <1>8, <2>2, <2>3, <2>4, <2>5, <2>6 DEF n, B, C, E
<1>9. CASE k = 1
  <2>1. t \notin A /\ t \in B /\ t \notin C /\ t \notin E
    BY <1>4, <1>9 DEF Level
  <2> HIDE DEF n, A, B, C, E
  <2>2. L1(n, S) = B
    BY <1>1, <1>2, <1>3, <1>5, <2>1
  <2>3. L2(n, S) = C \cup {f}
    BY <1>1, <1>2, <1>3, <1>5, <2>1, <2>2
  <2>4. L3(n, S) = E
    BY <1>1, <1>2, <1>3, <1>5, <2>1, <2>3
  <2>5. Targets(n, L3(n, S)) = Targets(m, E)
    BY <1>1, <1>5, <2>1, <2>4
  <2>6. LinkedOnce(n, C \cup {f})
    BY <1>1, <1>2, <1>4, <1>6, <2>1
  <2> QED BY <1>7, <1>9, <2>2, <2>3, <2>4, <2>5, <2>6 DEF n, B, C, E
<1>10. CASE k = 2
  <2>1. t \notin A /\ t \notin B /\ t \in C /\ t \notin E
    BY <1>4, <1>10 DEF Level
  <2> HIDE DEF n, A, B, C, E
  <2>2. L1(n, S) = B
    BY <1>1, <1>2, <1>3, <1>5, <2>1
  <2>3. L2(n, S) = C
    BY <1>1, <1>2, <1>3, <1>5, <2>1, <2>2
  <2>4. L3(n, S) = E \cup {f}
    BY <1>1, <1>2, <1>3, <1>5, <2>1, <2>3
  <2>5. Targets(n, L3(n, S)) = Targets(m, E)
    BY <1>1, <1>5, <2>1, <2>4
  <2> QED BY <1>7, <1>10, <2>2, <2>3, <2>4, <2>5 DEF n, B, C, E
<1> QED BY <1>8, <1>9, <1>10

(* Linking a fresh frame below a table that is not a page table keeps the   *)
(* tables in order and maps nothing.                                        *)
LEMMA LinkGood ==
  ASSUME NEW m, NEW p, NEW q, NEW S, NEW D, Good(m, p, S, D),
         NEW k \in 0 .. 2, NEW t \in Level(k, m, S), NEW i \in Index, m[t][i] = 0,
         NEW f \in Phys \ {0}, ~Used(p, f), PmmInv(q),
         \A pa \in Phys : Used(q, pa) <=> Used(p, pa) \/ pa = f
  PROVE  LET n == Link(m, t, i, f)
         IN  /\ Good(n, q, S, D)
             /\ Grows(m, n, S, D)
             /\ f \in Level(k + 1, n, S)
             /\ f \notin AllTables(m, S)
             /\ n[t][i] = f
             /\ n[f] = Zero
             /\ \A x \in AllTables(m, S), j \in Index :
                  x # t \/ j # i => n[x][j] = m[x][j]
<1> DEFINE n == Link(m, t, i, f)
           A == AllTables(m, S)
<1>1. f \notin A /\ f \notin D /\ f \in usable
  BY FreshUnknown
<1>2. m \in Memory /\ Forest(m, S) /\ Owned(m, p, S, D) /\ HalfShared(m, S)
      /\ BootMap(m, S) /\ BootPml4 \in S
  BY DEF Good
<1>3. A \subseteq Phys \ {0} /\ t \in A /\ t \in Phys /\ t # f
  BY <1>1, <1>2 DEF Forest, AllTables, Level
<1>4. /\ n \in Memory
      /\ \A x \in Phys, j \in Index :
           n[x][j] = IF x = f THEN 0 ELSE IF x = t /\ j = i THEN f ELSE m[x][j]
      /\ \A x \in Phys \ {t, f} : n[x] = m[x]
  BY <1>2, <1>3, LinkEntries
<1>5. /\ L1(n, S) = L1(m, S) \cup (IF k = 0 THEN {f} ELSE {})
      /\ L2(n, S) = L2(m, S) \cup (IF k = 1 THEN {f} ELSE {})
      /\ L3(n, S) = L3(m, S) \cup (IF k = 2 THEN {f} ELSE {})
      /\ Targets(n, L3(n, S)) = Targets(m, L3(m, S))
      /\ SharedInPlace(n, S)
      /\ LinkedOnce(n, L1(n, S))
      /\ LinkedOnce(n, L2(n, S))
  BY <1>1, <1>2, LinkLevels
<1>6. t \notin L3(m, S)
  BY <1>2 DEF Level, Forest
<1>7. \A s \in S, page \in Pages : Translate(n, s, page) = Translate(m, s, page)
  BY <1>1, <1>2, <1>3, <1>6, TranslateLink
<1>8. n[f] = Zero
  <2>1. DOMAIN m = Phys
    BY <1>2 DEF Memory
  <2> QED BY <1>3, <2>1 DEF Link
<1> HIDE DEF n
<1>9. AllTables(n, S) = A \cup {f}
  BY <1>5 DEF AllTables
<1>10. Forest(n, S)
  <2>1. AllTables(n, S) \subseteq Phys \ {0}
    BY <1>3, <1>9
  <2>2. /\ f \notin S /\ f \notin L1(m, S) /\ f \notin L2(m, S) /\ f \notin L3(m, S)
    BY <1>1 DEF AllTables
  <2>3. /\ S \cap L1(n, S) = {} /\ S \cap L2(n, S) = {} /\ S \cap L3(n, S) = {}
        /\ L1(n, S) \cap L2(n, S) = {} /\ L1(n, S) \cap L3(n, S) = {}
        /\ L2(n, S) \cap L3(n, S) = {}
    BY <1>2, <1>5, <2>2 DEF Forest
  <2> QED BY <1>5, <2>1, <2>3 DEF Forest
<1>11. Owned(n, q, S, D)
  <2>1. /\ D \subseteq Phys \ {0} /\ D \subseteq usable /\ D \cap A = {}
        /\ Targets(m, L3(m, S)) \subseteq D
    BY <1>2 DEF Owned
  <2>2. \A pa \in Phys : Used(p, pa) <=> pa \notin usable \/ pa \in A \cup D
    BY <1>2 DEF Owned
  <2>3. \A pa \in Phys : Used(q, pa) <=>
          pa \notin usable \/ pa \in AllTables(n, S) \cup D
    BY <1>9, <2>2
  <2> QED BY <1>1, <1>5, <1>9, <2>1, <2>3 DEF Owned
<1>12. HalfShared(n, S)
  <2>1. S \subseteq Phys /\ f \notin S
    BY <1>1, <1>3 DEF AllTables
  <2>2. CASE t \in S /\ i = HALF
    <3>1. m[BootPml4][HALF] = 0
      BY <1>2, <2>2 DEF HalfShared
    <3>2. S = {BootPml4} /\ t = BootPml4
      BY <1>2, <2>2, <3>1 DEF HalfShared, Present
    <3> QED BY <3>2 DEF HalfShared
  <2>3. CASE ~(t \in S /\ i = HALF)
    <3>1. \A s \in S : n[s][HALF] = m[s][HALF]
      BY <1>4, <2>1, <2>3, Basics
    <3> QED BY <1>2, <3>1 DEF HalfShared
  <2> QED BY <2>2, <2>3
<1>13. BootMap(n, S)
  <2>1. BootPml4 # f /\ n[BootPml4][0] = BootPdpt
    <3>1. m[BootPml4][0] = BootPdpt /\ BootPml4 \in A
      BY <1>2 DEF BootMap, AllTables
    <3> QED BY <1>1, <1>4, <3>1, Basics
  <2>2. BootPdpt \in A
    <3>1. m[BootPml4][0] = BootPdpt /\ Present(BootPdpt)
      BY <1>2, Basics DEF BootMap, Present
    <3> QED BY <1>2, <3>1, TargetsMember, Basics DEF AllTables, L1
  <2>3. n[BootPdpt][0] = BootPd
    <3>1. m[BootPdpt][0] = BootPd
      BY <1>2 DEF BootMap
    <3> QED BY <1>1, <1>4, <2>2, <3>1, Basics
  <2>4. ASSUME NEW x \in AllTables(n, S) \ {BootPd}, NEW j \in Index
        PROVE  n[x][j] # HUGE
    <3>1. x \in Phys
      BY <1>3, <1>9
    <3>2. x # f => m[x][j] # HUGE
      BY <1>2, <1>9 DEF BootMap
    <3>3. HUGE # 0 /\ HUGE # f
      BY Basics
    <3> QED BY <1>4, <3>1, <3>2, <3>3
  <2> QED BY <2>1, <2>3, <2>4 DEF BootMap
<1>14. Grows(m, n, S, D)
  <2>1. \A x \in A, j \in Index : m[x][j] # 0 => n[x][j] = m[x][j]
    BY <1>1, <1>3, <1>4
  <2>2. \A x \in D : n[x] = m[x]
    BY <1>1, <1>2, <1>3, <1>4 DEF Owned
  <2> QED BY <1>5, <1>7, <2>1, <2>2 DEF Grows
<1>15. f \in Level(k + 1, n, S)
  BY <1>5 DEF Level
<1>16. Good(n, q, S, D) /\ n[t][i] = f
  BY <1>2, <1>3, <1>4, <1>10, <1>11, <1>12, <1>13 DEF Good
<1>17. \A x \in A, j \in Index : x # t \/ j # i => n[x][j] = m[x][j]
  BY <1>1, <1>3, <1>4
<1> QED BY <1>1, <1>8, <1>14, <1>15, <1>16, <1>17 DEF n

(* boot.asm's tables keep their levels. *)
LEMMA BootLevels ==
  ASSUME NEW m, NEW p, NEW S, NEW D, Good(m, p, S, D)
  PROVE  BootPml4 \in S /\ BootPdpt \in L1(m, S) /\ BootPd \in L2(m, S)
<1>1. BootPml4 \in S /\ m[BootPml4][0] = BootPdpt /\ m[BootPdpt][0] = BootPd
  BY DEF Good, BootMap
<1>2. Present(BootPdpt) /\ Present(BootPd) /\ 0 \in Index
  BY Basics DEF Present
<1>3. BootPdpt \in L1(m, S)
  BY <1>1, <1>2, TargetsMember DEF L1
<1> QED BY <1>1, <1>2, <1>3, TargetsMember DEF L2

(* Outside the first gigabyte the path of a page meets no huge entry. *)
LEMMA PathPlain ==
  ASSUME NEW m, NEW p, NEW S, NEW D, Good(m, p, S, D), NEW s \in S,
         NEW page \in Pages, ~Low(page)
  PROVE  /\ E1(m, s, page) # HUGE
         /\ Present(E1(m, s, page)) => E2(m, s, page) # HUGE
         /\ Present(E1(m, s, page)) /\ Present(E2(m, s, page)) => E3(m, s, page) # HUGE
         /\ Reaches(m, s, page) => E4(m, s, page) # HUGE
<1>2. page[1] \in Index /\ page[2] \in Index /\ page[3] \in Index /\ page[4] \in Index
  BY DEF Pages
<1>3. /\ Forest(m, S) /\ BootPml4 \in S
      /\ m[BootPml4][0] = BootPdpt /\ m[BootPdpt][0] = BootPd
      /\ \A t \in AllTables(m, S) \ {BootPd}, i \in Index : m[t][i] # HUGE
  BY DEF Good, BootMap
<1>4. BootPdpt \in L1(m, S) /\ BootPd \in L2(m, S)
  BY BootLevels
<1>5. E1(m, s, page) # HUGE
  <2>1. s \in AllTables(m, S) \ {BootPd}
    BY <1>3, <1>4 DEF Forest, AllTables
  <2> QED BY <1>2, <1>3, <2>1 DEF E1
<1>6. ASSUME Present(E1(m, s, page))
      PROVE  /\ E1(m, s, page) = BootPdpt => page[1] = 0
             /\ E2(m, s, page) # HUGE
  <2>1. E1(m, s, page) \in L1(m, S)
    BY <1>6, PathLevels
  <2>2. E1(m, s, page) = BootPdpt => page[1] = 0
    BY <1>2, <1>3, <1>6, Basics DEF E1, Forest, SharedInPlace
  <2>3. E1(m, s, page) \in AllTables(m, S) \ {BootPd}
    BY <1>3, <1>4, <2>1 DEF Forest, AllTables
  <2> QED BY <1>2, <1>3, <2>2, <2>3 DEF E2
<1>7. ASSUME Present(E1(m, s, page)), Present(E2(m, s, page))
      PROVE  E3(m, s, page) # HUGE
  <2>1. E1(m, s, page) \in L1(m, S) /\ E2(m, s, page) \in L2(m, S)
    BY <1>7, PathLevels
  <2>2. E2(m, s, page) # BootPd
    <3>1. SUFFICES ASSUME E2(m, s, page) = BootPd PROVE FALSE
      OBVIOUS
    <3>2. E1(m, s, page) = BootPdpt /\ page[2] = 0
      BY <1>2, <1>3, <1>4, <1>7, <2>1, <3>1, Basics DEF E2, Forest, LinkedOnce
    <3> QED BY <1>6, <1>7, <3>2 DEF Low
  <2>3. E2(m, s, page) \in AllTables(m, S) \ {BootPd}
    BY <2>1, <2>2 DEF AllTables
  <2> QED BY <1>2, <1>3, <2>3 DEF E3
<1>8. ASSUME Reaches(m, s, page)
      PROVE  E4(m, s, page) # HUGE
  <2>1. E3(m, s, page) \in L3(m, S)
    BY <1>8, PathLevels
  <2>2. E3(m, s, page) \in AllTables(m, S) \ {BootPd}
    BY <1>3, <1>4, <2>1 DEF Forest, AllTables
  <2> QED BY <1>2, <1>3, <2>2 DEF E4
<1> QED BY <1>5, <1>6, <1>7, <1>8

-----------------------------------------------------------------------------
(* vm_walk. *)

(* A walk that has come to a table of level k. *)
StandsAt(w, k, S, D) ==
  /\ w = [ok |-> TRUE, mem |-> w.mem, pmm |-> w.pmm, table |-> w.table]
  /\ Good(w.mem, w.pmm, S, D)
  /\ w.table \in Level(k, w.mem, S)

(* What one level of it, along entry i, leads to. *)
Descends(w, r, k, i, create, S, D) ==
  /\ r = [ok |-> r.ok, mem |-> r.mem, pmm |-> r.pmm, table |-> r.table]
  /\ r.ok \in BOOLEAN
  /\ Good(r.mem, r.pmm, S, D)
  /\ Grows(w.mem, r.mem, S, D)
  /\ r.ok => /\ r.table \in Level(k + 1, r.mem, S)
             /\ r.mem[w.table][i] = r.table
             /\ Present(r.table)
             /\ w.mem[w.table][i] = 0 => r.table \notin AllTables(w.mem, S)
  /\ \A x \in AllTables(w.mem, S), j \in Index :
       x # w.table \/ j # i => r.mem[x][j] = w.mem[x][j]
  /\ ~create => r.mem = w.mem /\ r.pmm = w.pmm
  /\ ~r.ok => ~Present(w.mem[w.table][i])
  /\ ~r.ok /\ create /\ w.mem[w.table][i] # HUGE => r.pmm.free_frames = 0
  /\ Present(w.mem[w.table][i]) => r.ok /\ r.pmm = w.pmm /\ r.mem = w.mem
  /\ w.mem[w.table][i] = 0 /\ create /\ w.pmm.free_frames > 0 =>
       /\ r.ok /\ r.pmm.free_frames = w.pmm.free_frames - 1
       /\ r.mem[r.table] = Zero

(* One level: the entry is followed, or a new table is linked there, or the *)
(* walk fails and changes nothing.                                          *)
LEMMA DescendGood ==
  ASSUME NEW w, NEW S, NEW D, NEW k \in 0 .. 2, StandsAt(w, k, S, D),
         NEW i \in Index, NEW create \in BOOLEAN
  PROVE  Descends(w, Descend(w, i, create), k, i, create, S, D)
<1> DEFINE e == w.mem[w.table][i]
           a == pmm_alloc_frame(w.pmm)
           r == Descend(w, i, create)
<1> SUFFICES Descends(w, r, k, i, create, S, D)
  OBVIOUS
<1>0. /\ w = [ok |-> TRUE, mem |-> w.mem, pmm |-> w.pmm, table |-> w.table]
      /\ w.ok = TRUE /\ Good(w.mem, w.pmm, S, D) /\ w.table \in Level(k, w.mem, S)
      /\ PmmInv(w.pmm) /\ ~Present(0)
  BY DEF StandsAt, Good, Present
<1>1. CASE Present(e)
  <2>1. r = [ok |-> TRUE, mem |-> w.mem, pmm |-> w.pmm, table |-> e]
    BY <1>0, <1>1 DEF Descend, Present
  <2>2. e \in Level(k + 1, w.mem, S)
    BY <1>0, <1>1, TargetsMember DEF Level, L1, L2, L3
  <2> HIDE DEF r
  <2>3. /\ Good(r.mem, r.pmm, S, D) /\ Grows(w.mem, r.mem, S, D)
        /\ r.mem = w.mem /\ r.pmm = w.pmm /\ r.table = e /\ r.ok = TRUE
    BY <1>0, <2>1, GrowsRefl
  <2>4. r = [ok |-> r.ok, mem |-> r.mem, pmm |-> r.pmm, table |-> r.table]
    BY <2>1
  <2>5. w.mem[w.table][i] # 0
    BY <1>1 DEF Present
  <2> QED BY <1>0, <1>1, <2>2, <2>3, <2>4, <2>5 DEF Descends
<1>2. CASE \/ e = HUGE
           \/ e = 0 /\ (~create \/ a.pa = 0)
  <2>0. r = [w EXCEPT !.ok = FALSE]
    BY <1>0, <1>2 DEF Descend, HUGE
  <2>1. r = [ok |-> FALSE, mem |-> w.mem, pmm |-> w.pmm, table |-> w.table]
    <3> HIDE DEF r
    <3> QED BY <1>0, <2>0
  <2>2. ~Present(e)
    BY <1>2 DEF Present
  <2>3. create /\ w.pmm.free_frames > 0 => e # 0
    BY <1>0, <1>2, AllocFresh, Basics
  <2> HIDE DEF r
  <2>4. /\ Good(r.mem, r.pmm, S, D) /\ Grows(w.mem, r.mem, S, D)
        /\ r.mem = w.mem /\ r.pmm = w.pmm /\ r.ok = FALSE
    BY <1>0, <2>1, GrowsRefl
  <2>5. r = [ok |-> r.ok, mem |-> r.mem, pmm |-> r.pmm, table |-> r.table]
    BY <2>1
  <2>6. create /\ e # HUGE => w.pmm.free_frames = 0
    BY <1>0, <1>2, AllocFresh, Basics
  <2> QED BY <2>2, <2>3, <2>4, <2>5, <2>6 DEF Descends
<1>3. CASE e = 0 /\ create /\ a.pa # 0
  <2>1. r = [ok |-> TRUE, mem |-> Link(w.mem, w.table, i, a.pa), pmm |-> a.pmm,
             table |-> a.pa]
    BY <1>0, <1>3 DEF Descend, Link
  <2>2. /\ a.pa \in Phys \ {0} /\ ~Used(w.pmm, a.pa) /\ PmmInv(a.pmm)
        /\ \A pa \in Phys : Used(a.pmm, pa) <=> Used(w.pmm, pa) \/ pa = a.pa
        /\ a.pmm.free_frames = w.pmm.free_frames - 1
    BY <1>0, <1>3, AllocFresh
  <2> DEFINE n == Link(w.mem, w.table, i, a.pa)
  <2>3. /\ Good(n, a.pmm, S, D) /\ Grows(w.mem, n, S, D)
        /\ a.pa \in Level(k + 1, n, S)
        /\ n[w.table][i] = a.pa /\ n[a.pa] = Zero
        /\ a.pa \notin AllTables(w.mem, S)
        /\ \A x \in AllTables(w.mem, S), j \in Index :
             x # w.table \/ j # i => n[x][j] = w.mem[x][j]
    <3> HIDE DEF a
    <3> QED BY <1>0, <1>3, <2>2, LinkGood
  <2>4. Present(a.pa)
    BY <2>2, Basics DEF Present
  <2> HIDE DEF r, n
  <2>5. r.ok = TRUE /\ r.mem = n /\ r.pmm = a.pmm /\ r.table = a.pa
    BY <2>1 DEF n
  <2>6. r = [ok |-> r.ok, mem |-> r.mem, pmm |-> r.pmm, table |-> r.table]
    BY <2>1
  <2> HIDE DEF a
  <2> QED BY <1>0, <1>3, <2>2, <2>3, <2>4, <2>5, <2>6 DEF Descends
<1> QED BY <1>1, <1>2, <1>3 DEF Present

(* After a failed level the walk is over. *)
LEMMA DescendStops ==
  ASSUME NEW w, w.ok = FALSE, NEW i, NEW create
  PROVE  Descend(w, i, create) = w
  BY DEF Descend

(* What a walk to the table of a page may lead to. *)
Walks(m, p, w, S, D, s, page, create) ==
  /\ w.ok \in BOOLEAN
  /\ Good(w.mem, w.pmm, S, D)
  /\ Grows(m, w.mem, S, D)
  /\ w.ok => /\ Reaches(w.mem, s, page)
             /\ E3(w.mem, s, page) = w.table
             /\ w.table \in L3(w.mem, S)
             /\ m[s][page[1]] = 0 => E1(w.mem, s, page) \notin AllTables(m, S)
  /\ \A t \in S, j \in Index : t # s \/ j # page[1] => w.mem[t][j] = m[t][j]
  /\ ~create => w.mem = m /\ w.pmm = p
  /\ ~create /\ ~w.ok => Translate(m, s, page) = {}
  /\ ~w.ok /\ create /\ ~Low(page) => w.pmm.free_frames = 0

(* A walk that succeeds ends in the page's table; one that fails has used   *)
(* up the frames and at most added empty tables; one that may not create    *)
(* changes nothing.                                                         *)
LEMMA WalkGood ==
  ASSUME NEW m, NEW p, NEW S, NEW D, Good(m, p, S, D), NEW s \in S,
         NEW page \in Pages, NEW create \in BOOLEAN,
         NEW w \in vm_walk(m, p, s, page, create)
  PROVE  Walks(m, p, w, S, D, s, page, create)
<1> DEFINE w0 == [ok |-> TRUE, mem |-> m, pmm |-> p, table |-> s]
           w1 == Descend(w0, page[1], create)
           w2 == Descend(w1, page[2], create)
           w3 == Descend(w2, page[3], create)
<1>0. page[1] \in Index /\ page[2] \in Index /\ page[3] \in Index
  BY DEF Pages
<1>1. w = w3
  BY DEF vm_walk
<1>2. /\ w1 = [ok |-> w1.ok, mem |-> w1.mem, pmm |-> w1.pmm, table |-> w1.table]
      /\ w1.ok \in BOOLEAN /\ Good(w1.mem, w1.pmm, S, D) /\ Grows(m, w1.mem, S, D)
      /\ w1.ok => /\ w1.table \in L1(w1.mem, S) /\ w1.mem[s][page[1]] = w1.table
                  /\ Present(w1.table)
                  /\ m[s][page[1]] = 0 => w1.table \notin AllTables(m, S)
      /\ \A t \in S, j \in Index : t # s \/ j # page[1] => w1.mem[t][j] = m[t][j]
      /\ ~create => w1.mem = m /\ w1.pmm = p
      /\ ~w1.ok => ~Present(m[s][page[1]])
      /\ ~w1.ok /\ create /\ ~Low(page) => w1.pmm.free_frames = 0
  <2>0. /\ ~Low(page) => m[s][page[1]] # HUGE
        /\ S \subseteq AllTables(m, S)
    BY PathPlain DEF E1, AllTables
  <2>1. /\ w0.mem = m /\ w0.pmm = p /\ w0.table = s /\ StandsAt(w0, 0, S, D)
    BY DEF StandsAt, Level
  <2>2. Descends(w0, w1, 0, page[1], create, S, D)
    <3> HIDE DEF w0
    <3> QED BY <1>0, <2>1, DescendGood, 0 \in 0 .. 2
  <2>3. \A x : Level(0 + 1, x, S) = L1(x, S)
    BY DEF Level
  <2> HIDE DEF w0, w1
  <2> QED BY <2>0, <2>1, <2>2, <2>3 DEF Descends
<1> HIDE DEF w1
<1>3. CASE ~w1.ok
  <2>0. w1.ok = FALSE
    BY <1>2, <1>3
  <2>1. w3 = w1
    BY <2>0, DescendStops
  <2>2. Translate(m, s, page) = {}
    BY <1>2, <1>3, TranslateEntries DEF Reaches, E1
  <2> QED BY <1>1, <1>2, <1>3, <2>1, <2>2 DEF Walks
<1>4. CASE w1.ok
  <2>1. /\ w2 = [ok |-> w2.ok, mem |-> w2.mem, pmm |-> w2.pmm, table |-> w2.table]
        /\ w2.ok \in BOOLEAN /\ Good(w2.mem, w2.pmm, S, D)
        /\ Grows(w1.mem, w2.mem, S, D)
        /\ w2.ok => /\ w2.table \in L2(w2.mem, S)
                    /\ w2.mem[w1.table][page[2]] = w2.table /\ Present(w2.table)
        /\ \A t \in S, j \in Index : w2.mem[t][j] = w1.mem[t][j]
        /\ ~create => w2.mem = m /\ w2.pmm = p
        /\ ~w2.ok => ~Present(w1.mem[w1.table][page[2]])
        /\ ~w2.ok /\ create /\ ~Low(page) => w2.pmm.free_frames = 0
    <3>1. StandsAt(w1, 1, S, D)
      BY <1>2, <1>4 DEF StandsAt, Level
    <3>2. Descends(w1, w2, 1, page[2], create, S, D)
      BY <1>0, <3>1, DescendGood, 1 \in 0 .. 2
    <3>3. \A x : Level(1 + 1, x, S) = L2(x, S)
      BY DEF Level
    <3>4. ~Low(page) => w1.mem[w1.table][page[2]] # HUGE
      BY <1>2, <1>4, PathPlain DEF E1, E2
    <3>5. \A t \in S : t \in AllTables(w1.mem, S) /\ t # w1.table
      BY <1>2, <1>4 DEF AllTables, Good, Forest
    <3> HIDE DEF w2
    <3> QED BY <1>2, <3>2, <3>3, <3>4, <3>5 DEF Descends
  <2> HIDE DEF w2
  <2>2. Grows(m, w2.mem, S, D)
    BY <1>2, <2>1, GrowsTrans
  <2>3. CASE ~w2.ok
    <3>0. w2.ok = FALSE
      BY <2>1, <2>3
    <3>1. w3 = w2
      BY <3>0, DescendStops
    <3>2. \A t \in S, j \in Index : t # s \/ j # page[1] => w2.mem[t][j] = m[t][j]
      BY <1>2, <2>1
    <3>3. ASSUME ~create PROVE Translate(m, s, page) = {}
      <4>1. ~Present(E2(m, s, page))
        BY <1>2, <1>4, <2>1, <2>3, <3>3 DEF E1, E2
      <4> QED BY <4>1, TranslateEntries DEF Reaches
    <3> QED BY <1>1, <2>1, <2>2, <2>3, <3>1, <3>2, <3>3 DEF Walks
  <2>4. CASE w2.ok
    <3>1. /\ w3.ok \in BOOLEAN /\ Good(w3.mem, w3.pmm, S, D)
          /\ Grows(w2.mem, w3.mem, S, D)
          /\ w3.ok => /\ w3.table \in L3(w3.mem, S)
                      /\ w3.mem[w2.table][page[3]] = w3.table /\ Present(w3.table)
          /\ \A t \in S, j \in Index : w3.mem[t][j] = w2.mem[t][j]
          /\ ~create => w3.mem = m /\ w3.pmm = p
          /\ ~w3.ok => ~Present(w2.mem[w2.table][page[3]])
          /\ ~w3.ok /\ create /\ ~Low(page) => w3.pmm.free_frames = 0
      <4>1. StandsAt(w2, 2, S, D)
        BY <2>1, <2>4 DEF StandsAt, Level
      <4>2. Descends(w2, w3, 2, page[3], create, S, D)
        BY <1>0, <4>1, DescendGood, 2 \in 0 .. 2
      <4>3. \A x : Level(2 + 1, x, S) = L3(x, S)
        BY DEF Level
      <4>4. ASSUME ~Low(page) PROVE w2.mem[w2.table][page[3]] # HUGE
        <5>1. E1(w2.mem, s, page) = w1.table
          <6>1. s \in AllTables(w1.mem, S) /\ w1.table # 0
            BY <1>2, <1>4 DEF AllTables, Present
          <6> QED BY <1>0, <1>2, <1>4, <2>1, <6>1 DEF E1, Grows
        <5>2. E2(w2.mem, s, page) = w2.table
          BY <2>1, <2>4, <5>1 DEF E2
        <5> QED BY <1>2, <1>4, <2>1, <2>4, <4>4, <5>1, <5>2, PathPlain DEF E3
      <4>5. \A t \in S : t \in AllTables(w2.mem, S) /\ t # w2.table
        BY <2>1, <2>4 DEF AllTables, Good, Forest
      <4> HIDE DEF w3
      <4> QED BY <2>1, <4>2, <4>3, <4>4, <4>5 DEF Descends
    <3> HIDE DEF w3
    <3>2. Grows(m, w3.mem, S, D)
      BY <2>2, <3>1, GrowsTrans
    <3>3. w2.mem[s][page[1]] = w1.table
      <4>1. s \in AllTables(w1.mem, S) /\ w1.table # 0
        BY <1>2, <1>4 DEF AllTables, Present
      <4> QED BY <1>0, <1>2, <1>4, <2>1, <4>1 DEF Grows
    <3>4. w3.mem[s][page[1]] = w1.table /\ w3.mem[w1.table][page[2]] = w2.table
      <4>1. /\ s \in AllTables(w2.mem, S) /\ w1.table # 0 /\ w2.table # 0
            /\ w1.table \in AllTables(w2.mem, S)
        BY <1>2, <1>4, <2>1, <2>4 DEF AllTables, Present, Grows
      <4> QED BY <1>0, <2>1, <2>4, <3>1, <3>3, <4>1 DEF Grows
    <3>5. ASSUME w3.ok
          PROVE  /\ Reaches(w3.mem, s, page) /\ E3(w3.mem, s, page) = w3.table
                 /\ E1(w3.mem, s, page) = w1.table
      <4>1. /\ E1(w3.mem, s, page) = w1.table
            /\ E2(w3.mem, s, page) = w2.table
            /\ E3(w3.mem, s, page) = w3.table
        BY <3>1, <3>4, <3>5 DEF E1, E2, E3
      <4> QED BY <1>2, <1>4, <2>1, <2>4, <3>1, <3>5, <4>1 DEF Reaches
    <3>6. \A t \in S, j \in Index : t # s \/ j # page[1] => w3.mem[t][j] = m[t][j]
      BY <1>2, <2>1, <3>1
    <3>7. ASSUME ~create, ~w3.ok PROVE Translate(m, s, page) = {}
      <4>1. ~Present(E3(m, s, page))
        BY <1>2, <1>4, <2>1, <2>4, <3>1, <3>7 DEF E1, E2, E3
      <4> QED BY <4>1, TranslateEntries DEF Reaches
    <3> QED BY <1>1, <1>2, <1>4, <3>1, <3>2, <3>5, <3>6, <3>7 DEF Walks
  <2> QED BY <2>1, <2>3, <2>4
<1> QED BY <1>2, <1>3, <1>4

-----------------------------------------------------------------------------
(* Writes that leave PML4s, PDPTs and PDs alone. *)
SetFrame(m, x, c) == [m EXCEPT ![x] = c]
SetEntry(m, t, i, v) == [m EXCEPT ![t][i] = v]

(* A change confined to last-level tables keeps the forest and every walk *)
(* down to them.                                                          *)
LEMMA UpperSame ==
  ASSUME NEW m, NEW n \in Memory, NEW p, NEW S, NEW D, Good(m, p, S, D),
         \A t \in S \cup L1(m, S) \cup L2(m, S) : n[t] = m[t],
         Targets(n, L3(m, S)) \subseteq D,
         \A t \in L3(m, S), i \in Index : n[t][i] # HUGE
  PROVE  /\ L1(n, S) = L1(m, S) /\ L2(n, S) = L2(m, S) /\ L3(n, S) = L3(m, S)
         /\ Good(n, p, S, D)
         /\ \A s \in S, page \in Pages :
              /\ E1(n, s, page) = E1(m, s, page)
              /\ Reaches(n, s, page) <=> Reaches(m, s, page)
              /\ Reaches(m, s, page) => E3(n, s, page) = E3(m, s, page)
<1>1. L1(n, S) = L1(m, S)
  BY TargetsSame DEF L1
<1>2. L2(n, S) = L2(m, S)
  BY <1>1, TargetsSame DEF L2
<1>3. L3(n, S) = L3(m, S)
  BY <1>2, TargetsSame DEF L3
<1>4. AllTables(n, S) = AllTables(m, S)
  BY <1>1, <1>2, <1>3 DEF AllTables
<1>5. Forest(n, S)
  <2>1. SharedInPlace(n, S) /\ LinkedOnce(n, L1(m, S)) /\ LinkedOnce(n, L2(m, S))
    BY DEF Good, Forest, SharedInPlace, LinkedOnce
  <2> QED BY <1>1, <1>2, <1>3, <1>4, <2>1 DEF Good, Forest
<1>6. Owned(n, p, S, D)
  BY <1>3, <1>4 DEF Good, Owned
<1>7. HalfShared(n, S)
  BY DEF Good, HalfShared
<1>8. BootMap(n, S)
  <2>1. n[BootPml4] = m[BootPml4] /\ n[BootPdpt] = m[BootPdpt]
    BY BootLevels
  <2>2. \A t \in AllTables(m, S) \ {BootPd}, i \in Index : n[t][i] # HUGE
    BY DEF Good, BootMap, AllTables
  <2> QED BY <1>4, <2>1, <2>2 DEF Good, BootMap
<1>9. Good(n, p, S, D)
  BY <1>5, <1>6, <1>7, <1>8 DEF Good
<1>10. ASSUME NEW s \in S, NEW page \in Pages
       PROVE  /\ E1(n, s, page) = E1(m, s, page)
              /\ Reaches(n, s, page) <=> Reaches(m, s, page)
              /\ Reaches(m, s, page) => E3(n, s, page) = E3(m, s, page)
  <2>1. E1(n, s, page) = E1(m, s, page)
    BY DEF E1
  <2>2. Present(E1(m, s, page)) => E2(n, s, page) = E2(m, s, page)
    BY <2>1, PathLevels DEF E2
  <2>3. Present(E1(m, s, page)) /\ Present(E2(m, s, page)) =>
          E3(n, s, page) = E3(m, s, page)
    BY <2>2, PathLevels DEF E3
  <2> QED BY <2>1, <2>2, <2>3 DEF Reaches
<1> QED BY <1>1, <1>2, <1>3, <1>9, <1>10

(* A page table is reached along one path only. *)
LEMMA OnePath ==
  ASSUME NEW m, NEW S, Forest(m, S), NEW s1 \in S, NEW s2 \in S,
         NEW p1 \in Pages, NEW p2 \in Pages, Reaches(m, s1, p1), Reaches(m, s2, p2),
         E3(m, s1, p1) = E3(m, s2, p2)
  PROVE  /\ E1(m, s1, p1) = E1(m, s2, p2)
         /\ p1[1] = p2[1] /\ p1[2] = p2[2] /\ p1[3] = p2[3]
<1>1. /\ p1[1] \in Index /\ p1[2] \in Index /\ p1[3] \in Index
      /\ p2[1] \in Index /\ p2[2] \in Index /\ p2[3] \in Index
  BY DEF Pages
<1>2. /\ E1(m, s1, p1) \in L1(m, S) /\ E1(m, s2, p2) \in L1(m, S)
      /\ E2(m, s1, p1) \in L2(m, S) /\ E2(m, s2, p2) \in L2(m, S)
      /\ Present(E1(m, s1, p1)) /\ Present(E2(m, s1, p1)) /\ Present(E3(m, s1, p1))
  BY PathLevels DEF Reaches
<1>3. E2(m, s1, p1) = E2(m, s2, p2) /\ p1[3] = p2[3]
  BY <1>1, <1>2 DEF E3, Forest, LinkedOnce
<1>4. E1(m, s1, p1) = E1(m, s2, p2) /\ p1[2] = p2[2]
  BY <1>1, <1>2, <1>3 DEF E2, Forest, LinkedOnce
<1>5. p1[1] = p2[1]
  BY <1>1, <1>2, <1>4 DEF E1, Forest, SharedInPlace
<1> QED BY <1>3, <1>4, <1>5

(* A page is its four indexes. *)
LEMMA SamePage ==
  ASSUME NEW p1 \in Pages, NEW p2 \in Pages,
         p1[1] = p2[1], p1[2] = p2[2], p1[3] = p2[3], p1[4] = p2[4]
  PROVE  p1 = p2
  BY DEF Pages

(* What a new value v for the entry of one page does. *)
Writes(m, n, p, S, D, s, page, v) ==
  LET new == IF v = 0 THEN {} ELSE {v}
  IN  /\ Good(n, p, S, D)
      /\ \A x \in Phys \ {E3(m, s, page)} : n[x] = m[x]
      /\ Translate(n, s, page) = new
      /\ \A s2 \in S, p2 \in Pages :
           \/ Translate(n, s2, p2) = Translate(m, s2, p2)
           \/ p2 = page /\ Translate(n, s2, p2) = new
      /\ \A s2 \in S : IF E1(m, s2, page) = E1(m, s, page)
                       THEN Translate(n, s2, page) = new
                       ELSE Translate(n, s2, page) = Translate(m, s2, page)

(* Writing the entry of one page maps or unmaps that page, in every space   *)
(* that has its page table, and no other page.                              *)
LEMMA EntryWrite ==
  ASSUME NEW m, NEW p, NEW S, NEW D, Good(m, p, S, D), NEW s \in S,
         NEW page \in Pages, Reaches(m, s, page), NEW v \in D \cup {0}
  PROVE  Writes(m, SetEntry(m, E3(m, s, page), page[4], v), p, S, D, s, page, v)
<1> DEFINE t == E3(m, s, page)
           n == SetEntry(m, t, page[4], v)
           new == IF v = 0 THEN {} ELSE {v}
<1>1. t \in L3(m, S) /\ page[4] \in Index /\ \A p2 \in Pages : p2[4] \in Index
  BY PathLevels DEF Pages
<1>2. m \in Memory /\ Forest(m, S) /\ D \subseteq Phys \ {0} /\ v \in Phys
      /\ L3(m, S) \subseteq Phys
  BY Basics DEF Good, Owned, Forest, AllTables
<1>3. m[t] \in Contents
  BY <1>1, <1>2 DEF Memory
<1>4. /\ n \in Memory
      /\ \A x \in Phys \ {t} : n[x] = m[x]
      /\ \A j \in Index : n[t][j] = IF j = page[4] THEN v ELSE m[t][j]
  <2>1. /\ [m[t] EXCEPT ![page[4]] = v] \in Contents
        /\ \A j \in Index : [m[t] EXCEPT ![page[4]] = v][j]
                              = IF j = page[4] THEN v ELSE m[t][j]
    BY <1>1, <1>2, <1>3, Basics DEF Contents
  <2>2. n = [m EXCEPT ![t] = [m[t] EXCEPT ![page[4]] = v]]
    BY DEF SetEntry
  <2> HIDE DEF n, t
  <2> QED BY <1>1, <1>2, <2>1, <2>2 DEF Memory
<1>5. (v = 0 <=> ~Present(v)) /\ v # HUGE
  BY <1>2, Basics DEF Present
<1> HIDE DEF t, n
<1>6. \A x \in S \cup L1(m, S) \cup L2(m, S) : n[x] = m[x]
  BY <1>1, <1>2, <1>4 DEF Forest, AllTables
<1>7. Targets(n, L3(m, S)) \subseteq D
  <2>1. ASSUME NEW x \in Targets(n, L3(m, S)) PROVE x \in D
    <3>1. PICK u \in L3(m, S), j \in Index : n[u][j] = x /\ Present(x)
      BY TargetsMember
    <3>2. x = v \/ m[u][j] = x
      BY <1>2, <1>4, <3>1
    <3>3. Targets(m, L3(m, S)) \subseteq D
      BY DEF Good, Owned
    <3> QED BY <1>5, <3>1, <3>2, <3>3, TargetsMember
  <2> QED BY <2>1
<1>8. \A u \in L3(m, S), j \in Index : n[u][j] # HUGE
  <2>1. \A u \in L3(m, S), j \in Index : m[u][j] # HUGE
    <3>1. BootPd \notin L3(m, S)
      BY <1>2, BootLevels DEF Forest
    <3> QED BY <3>1 DEF Good, BootMap, AllTables
  <2> QED BY <1>2, <1>4, <1>5, <2>1
<1>9. /\ Good(n, p, S, D)
      /\ \A s2 \in S, p2 \in Pages :
           /\ E1(n, s2, p2) = E1(m, s2, p2)
           /\ Reaches(n, s2, p2) <=> Reaches(m, s2, p2)
           /\ Reaches(m, s2, p2) => E3(n, s2, p2) = E3(m, s2, p2)
  BY <1>4, <1>6, <1>7, <1>8, UpperSame
<1>10. ASSUME NEW s2 \in S, NEW p2 \in Pages, Reaches(m, s2, p2),
              E3(m, s2, p2) = t, p2[4] = page[4]
       PROVE  Translate(n, s2, p2) = new
  <2>1. E4(n, s2, p2) = v /\ Reaches(n, s2, p2)
    BY <1>1, <1>4, <1>9, <1>10 DEF E4
  <2> QED BY <1>5, <2>1, TranslateEntries
<1>11. ASSUME NEW s2 \in S, NEW p2 \in Pages
       PROVE  \/ Translate(n, s2, p2) = Translate(m, s2, p2)
              \/ /\ p2 = page /\ Translate(n, s2, p2) = new
                 /\ E1(m, s2, page) = E1(m, s, page)
  <2>1. CASE ~Reaches(m, s2, p2)
    BY <1>9, <2>1, TranslateEntries
  <2>2. CASE Reaches(m, s2, p2) /\ ~(E3(m, s2, p2) = t /\ p2[4] = page[4])
    <3>1. E4(n, s2, p2) = E4(m, s2, p2)
      <4>1. E3(m, s2, p2) \in Phys
        BY <1>2, <2>2, PathLevels
      <4> QED BY <1>1, <1>4, <1>9, <2>2, <4>1 DEF E4
    <3> QED BY <1>9, <2>2, <3>1, TranslateEntries
  <2>3. CASE Reaches(m, s2, p2) /\ E3(m, s2, p2) = t /\ p2[4] = page[4]
    <3>1. p2 = page /\ E1(m, s2, page) = E1(m, s, page)
      BY <1>2, <2>3, OnePath, SamePage DEF t
    <3> QED BY <1>10, <2>3, <3>1
  <2> QED BY <2>1, <2>2, <2>3
<1>12. ASSUME NEW s2 \in S, E1(m, s2, page) = E1(m, s, page)
       PROVE  Translate(n, s2, page) = new
  <2>1. Reaches(m, s2, page) /\ E3(m, s2, page) = t
    BY <1>12 DEF Reaches, E3, E2, t
  <2> QED BY <1>10, <2>1
<1>13. Writes(m, n, p, S, D, s, page, v)
  <2>1. \A s2 \in S : E1(m, s2, page) # E1(m, s, page) =>
          Translate(n, s2, page) = Translate(m, s2, page)
    BY <1>11
  <2> QED BY <1>4, <1>9, <1>11, <1>12, <2>1 DEF Writes, t
<1> QED BY <1>13 DEF n, t

(* Data written to a frame that is no table disturbs no table. *)
LEMMA DataWrite ==
  ASSUME NEW m, NEW p, NEW S, NEW D, Good(m, p, S, D), NEW x \in Phys,
         x \notin AllTables(m, S), NEW c \in Contents
  PROVE  LET n == SetFrame(m, x, c)
         IN  /\ Good(n, p, S, D)
             /\ n[x] = c
             /\ \A y \in Phys \ {x} : n[y] = m[y]
             /\ \A s \in S, page \in Pages : Translate(n, s, page) = Translate(m, s, page)
             /\ Targets(n, L3(n, S)) = Targets(m, L3(m, S))
<1> DEFINE n == SetFrame(m, x, c)
<1>1. m \in Memory /\ AllTables(m, S) \subseteq Phys
  BY DEF Good, Forest
<1>2. n \in Memory /\ n[x] = c /\ \A y \in Phys \ {x} : n[y] = m[y]
  BY <1>1 DEF Memory, SetFrame
<1> HIDE DEF n
<1>3. \A t \in AllTables(m, S) : n[t] = m[t]
  BY <1>1, <1>2
<1>4. Targets(n, L3(m, S)) = Targets(m, L3(m, S))
  BY <1>3, TargetsSame DEF AllTables
<1>5. Targets(m, L3(m, S)) \subseteq D
  BY DEF Good, Owned
<1>6. \A t \in L3(m, S), i \in Index : n[t][i] # HUGE
  <2>1. BootPd \notin L3(m, S)
    BY BootLevels DEF Good, Forest
  <2> QED BY <1>3, <2>1 DEF Good, BootMap, AllTables
<1>7. /\ L3(n, S) = L3(m, S)
      /\ Good(n, p, S, D)
      /\ \A s \in S, page \in Pages :
           /\ Reaches(n, s, page) <=> Reaches(m, s, page)
           /\ Reaches(m, s, page) => E3(n, s, page) = E3(m, s, page)
  <2>1. \A t \in S \cup L1(m, S) \cup L2(m, S) : n[t] = m[t]
    BY <1>3 DEF AllTables
  <2> QED BY <1>2, <1>4, <1>5, <1>6, <2>1, UpperSame
<1>8. ASSUME NEW s \in S, NEW page \in Pages
      PROVE  Translate(n, s, page) = Translate(m, s, page)
  <2>1. Reaches(m, s, page) => E4(n, s, page) = E4(m, s, page)
    BY <1>3, <1>7, PathLevels DEF E4, AllTables
  <2> QED BY <1>7, <2>1, TranslateEntries
<1> QED BY <1>2, <1>4, <1>7, <1>8 DEF n

-----------------------------------------------------------------------------
(* Frames that become data, and data frames that are given back. *)

(* A fresh frame becomes a data frame. *)
LEMMA TakeData ==
  ASSUME NEW m, NEW p, NEW q, NEW S, NEW D, Good(m, p, S, D),
         NEW f \in Phys \ {0}, ~Used(p, f), PmmInv(q),
         \A pa \in Phys : Used(q, pa) <=> Used(p, pa) \/ pa = f
  PROVE  Good(m, q, S, D \cup {f})
<1>1. f \notin AllTables(m, S) /\ f \notin D /\ f \in usable
  BY FreshUnknown
<1>2. \A pa \in Phys : Used(q, pa) <=>
        pa \notin usable \/ pa \in AllTables(m, S) \cup (D \cup {f})
  BY DEF Good, Owned
<1>3. /\ D \subseteq Phys \ {0} /\ D \subseteq usable
      /\ D \cap AllTables(m, S) = {} /\ Targets(m, L3(m, S)) \subseteq D
  BY DEF Good, Owned
<1>4. Owned(m, q, S, D \cup {f})
  BY <1>1, <1>2, <1>3 DEF Owned
<1> QED BY <1>4 DEF Good

(* A data frame that nothing maps becomes free. *)
LEMMA GiveData ==
  ASSUME NEW m, NEW p, NEW S, NEW D, Good(m, p, S, D), NEW f \in D,
         f \notin Targets(m, L3(m, S))
  PROVE  Good(m, pmm_free_frame(p, f), S, D \ {f})
<1> DEFINE q == pmm_free_frame(p, f)
<1>1. /\ D \subseteq Phys \ {0} /\ D \subseteq usable
      /\ D \cap AllTables(m, S) = {} /\ Targets(m, L3(m, S)) \subseteq D
      /\ \A pa \in Phys : Used(p, pa) <=> pa \notin usable \/ pa \in AllTables(m, S) \cup D
  BY DEF Good, Owned
<1>2. f \in Phys \ {0} /\ Used(p, f) /\ PmmInv(p) /\ f \notin AllTables(m, S)
      /\ f \in usable
  BY <1>1 DEF Good
<1>3. PmmInv(q) /\ \A x \in Phys : Used(q, x) <=> Used(p, x) /\ x # f
  BY <1>2, FreeFresh
<1> HIDE DEF q
<1>4. Owned(m, q, S, D \ {f})
  <2>1. \A pa \in Phys : Used(q, pa) <=>
          pa \notin usable \/ pa \in AllTables(m, S) \cup (D \ {f})
    BY <1>1, <1>2, <1>3
  <2> QED BY <1>1, <2>1 DEF Owned
<1>5. Good(m, q, S, D \ {f})
  BY <1>3, <1>4 DEF Good
<1> QED BY <1>5 DEF q

(* f is a further space that translates no page differently from the        *)
(* kernel's.                                                                *)
Joins(m, n, q, S, D, f) ==
  /\ Good(n, q, S \cup {f}, D)
  /\ f \notin S /\ n[BootPml4] = m[BootPml4]
  /\ \A t \in S : n[t] = m[t]
  /\ \A i \in 1 .. HALF - 1 : n[f][i] = 0
  /\ \A s \in S, page \in Pages : Translate(n, s, page) = Translate(m, s, page)
  /\ \A page \in Pages :
       \/ Translate(n, f, page) = {}
       \/ Translate(n, f, page) = Translate(m, BootPml4, page)

(* A new space: frame f becomes a PML4 with the kernel's entries. *)
LEMMA NewSpace ==
  ASSUME NEW m, NEW p, NEW q, NEW S, NEW D, Good(m, p, S, D),
         Present(m[BootPml4][HALF]),
         NEW f \in Phys \ {0}, ~Used(p, f), PmmInv(q),
         \A pa \in Phys : Used(q, pa) <=> Used(p, pa) \/ pa = f
  PROVE  Joins(m, SetFrame(m, f, NewPml4(m[BootPml4])), q, S, D, f)
<1> DEFINE c == NewPml4(m[BootPml4])
           n == SetFrame(m, f, c)
           R == S \cup {f}
<1>1. f \notin AllTables(m, S) /\ f \notin D /\ f \in usable
  BY FreshUnknown
<1>2. /\ m \in Memory /\ BootPml4 \in S /\ AllTables(m, S) \subseteq Phys \ {0}
      /\ Forest(m, S)
  BY DEF Good, Forest
<1>3. /\ c \in Contents
      /\ \A i \in Index : c[i] = m[BootPml4][i] \/ c[i] = 0
      /\ c[HALF] = m[BootPml4][HALF]
      /\ \A i \in 1 .. HALF - 1 : c[i] = 0
  <2>1. m[BootPml4] \in Contents
    BY <1>2, Basics DEF Memory
  <2>2. HALF >= HALF
    BY VmAssumption
  <2>3. c = [i \in Index |-> IF i = 0 \/ i >= HALF THEN m[BootPml4][i] ELSE 0]
    BY DEF NewPml4
  <2>4. \A i \in 1 .. HALF - 1 : i \in Index /\ i # 0 /\ ~(i >= HALF)
    BY VmAssumption DEF Index
  <2> HIDE DEF c
  <2> QED BY <2>1, <2>2, <2>3, <2>4, Basics DEF Contents
<1>4. n[f] = c /\ (\A y \in Phys \ {f} : n[y] = m[y]) /\ n \in Memory
  <2> HIDE DEF c
  <2> QED BY <1>2, <1>3 DEF Memory, SetFrame
<1>5. /\ Good(n, p, S, D)
      /\ \A s \in S, page \in Pages : Translate(n, s, page) = Translate(m, s, page)
  <2>1. f \in Phys /\ c \in Contents
    BY <1>3
  <2> HIDE DEF c
  <2> QED BY <1>1, <2>1, DataWrite
<1> HIDE DEF c, n
<1>6. \A t \in AllTables(m, S) : n[t] = m[t] /\ t # f
  BY <1>1, <1>2, <1>4
<1>7. n[BootPml4] = m[BootPml4] /\ f \notin S
  BY <1>2, <1>6 DEF AllTables
<1>8. L1(n, S) = L1(m, S) /\ L2(n, S) = L2(m, S) /\ L3(n, S) = L3(m, S)
  <2>1. L1(n, S) = L1(m, S)
    BY <1>6, TargetsSame DEF L1, AllTables
  <2>2. L2(n, S) = L2(m, S)
    BY <1>6, <2>1, TargetsSame DEF L2, AllTables
  <2> QED BY <1>6, <2>1, <2>2, TargetsSame DEF L3, AllTables
<1>9. L1(n, R) = L1(n, S)
  <2>1. ASSUME NEW x PROVE x \in Targets(n, R) <=> x \in Targets(n, S)
    <3>1. ~Present(0)
      BY DEF Present
    <3>2. \A i \in Index : Present(n[f][i]) => n[f][i] = n[BootPml4][i]
      BY <1>3, <1>4, <1>7, <3>1
    <3> QED BY <1>2, <3>2, TargetsMember
  <2> QED BY <2>1 DEF L1
<1>10. L2(n, R) = L2(n, S) /\ L3(n, R) = L3(n, S)
  BY <1>9 DEF L2, L3
<1>11. AllTables(n, R) = AllTables(n, S) \cup {f} /\ AllTables(n, S) = AllTables(m, S)
  BY <1>8, <1>9, <1>10 DEF AllTables
<1>12. Forest(n, R)
  <2>1. SharedInPlace(n, R)
    <3>1. SharedInPlace(n, S)
      BY <1>5 DEF Good, Forest
    <3>2. ~Present(0)
      BY DEF Present
    <3>3. \A t \in R : \E u \in S : \A i \in Index :
            Present(n[t][i]) => n[t][i] = n[u][i]
      BY <1>2, <1>3, <1>4, <1>7, <3>2
    <3>4. ASSUME NEW t1 \in R, NEW t2 \in R, NEW i \in Index, NEW j \in Index,
                 Present(n[t1][i]), n[t1][i] = n[t2][j]
          PROVE  i = j
      <4>1. PICK u1 \in S : \A k \in Index : Present(n[t1][k]) => n[t1][k] = n[u1][k]
        BY <3>3
      <4>2. PICK u2 \in S : \A k \in Index : Present(n[t2][k]) => n[t2][k] = n[u2][k]
        BY <3>3
      <4>3. n[u1][i] = n[u2][j] /\ Present(n[u1][i])
        BY <3>4, <4>1, <4>2
      <4> QED BY <3>1, <4>3 DEF SharedInPlace
    <3> QED BY <3>4 DEF SharedInPlace
  <2>2. Forest(n, S)
    BY <1>5 DEF Good
  <2>3. f \notin L1(n, S) /\ f \notin L2(n, S) /\ f \notin L3(n, S)
    BY <1>1, <1>8 DEF AllTables
  <2>4. /\ R \cap L1(n, R) = {} /\ R \cap L2(n, R) = {} /\ R \cap L3(n, R) = {}
        /\ L1(n, R) \cap L2(n, R) = {} /\ L1(n, R) \cap L3(n, R) = {}
        /\ L2(n, R) \cap L3(n, R) = {}
    BY <1>9, <1>10, <2>2, <2>3 DEF Forest
  <2>5. AllTables(n, R) \subseteq Phys \ {0}
    BY <1>2, <1>11
  <2>6. LinkedOnce(n, L1(n, R)) /\ LinkedOnce(n, L2(n, R))
    BY <1>9, <1>10, <2>2 DEF Forest
  <2> QED BY <2>1, <2>4, <2>5, <2>6 DEF Forest
<1>13. Owned(n, q, R, D)
  <2>1. Owned(n, p, S, D)
    BY <1>5 DEF Good
  <2>2. \A pa \in Phys : Used(q, pa) <=>
          pa \notin usable \/ pa \in AllTables(n, R) \cup D
    BY <1>11, <2>1 DEF Owned
  <2>3. D \cap AllTables(n, R) = {} /\ Targets(n, L3(n, R)) \subseteq D
    BY <1>1, <1>10, <1>11, <2>1 DEF Owned
  <2> QED BY <2>1, <2>2, <2>3 DEF Owned
<1>14. HalfShared(n, R)
  <2>1. HalfShared(n, S)
    BY <1>5 DEF Good
  <2> QED BY <1>3, <1>4, <1>7, <2>1 DEF HalfShared
<1>15. BootMap(n, R)
  <2>1. BootMap(n, S)
    BY <1>5 DEF Good
  <2>2. \A i \in Index : n[f][i] # HUGE
    <3>1. BootPml4 \in AllTables(n, S) \ {BootPd}
      BY <1>2, Basics DEF AllTables
    <3>2. \A i \in Index : n[BootPml4][i] # HUGE
      BY <2>1, <3>1 DEF BootMap
    <3>3. HUGE # 0
      BY DEF HUGE
    <3> QED BY <1>3, <1>4, <1>7, <3>2, <3>3
  <2> QED BY <1>11, <2>1, <2>2 DEF BootMap
<1>16. ASSUME NEW page \in Pages
       PROVE  \/ Translate(n, f, page) = {}
              \/ Translate(n, f, page) = Translate(m, BootPml4, page)
  <2>1. page[1] \in Index
    BY DEF Pages
  <2>2. E1(n, f, page) = E1(n, BootPml4, page) \/ E1(n, f, page) = 0
    BY <1>3, <1>4, <1>7, <2>1 DEF E1
  <2>3. CASE E1(n, f, page) = 0
    BY <2>3, TranslateEntries DEF Reaches, Present
  <2>4. CASE E1(n, f, page) = E1(n, BootPml4, page)
    <3>1. Translate(n, f, page) = Translate(n, BootPml4, page)
      BY <2>4, TranslateEntries DEF Reaches, E2, E3, E4
    <3> QED BY <1>2, <1>5, <3>1
  <2> QED BY <2>2, <2>3, <2>4
<1>17. Good(n, q, R, D)
  BY <1>2, <1>4, <1>12, <1>13, <1>14, <1>15 DEF Good
<1>18. Joins(m, n, q, S, D, f)
  <2>1. \A t \in S : n[t] = m[t]
    BY <1>6 DEF AllTables
  <2>2. \A i \in 1 .. HALF - 1 : n[f][i] = 0
    BY <1>3, <1>4
  <2> QED BY <1>5, <1>7, <1>16, <1>17, <2>1, <2>2 DEF Joins
<1> QED BY <1>18 DEF n, c

-----------------------------------------------------------------------------
(* vm_map and vm_unmap. *)

(* The page, which was not mapped in space s, shows frame pa there and in   *)
(* the spaces that have its tables; data and other pages are as before.     *)
Maps(m, n, S, D, s, page, pa) ==
  /\ Translate(m, s, page) = {}
  /\ Translate(n, s, page) = {pa}
  /\ \A s2 \in S, p2 \in Pages :
       \/ Translate(n, s2, p2) = Translate(m, s2, p2)
       \/ p2 = page /\ Translate(n, s2, p2) = {pa}
  /\ \A s2 \in S : E1(n, s2, page) = E1(n, s, page) => Translate(n, s2, page) = {pa}
  /\ m[s][page[1]] = 0 =>
       \A s2 \in S \ {s} : Translate(n, s2, page) = Translate(m, s2, page)
  /\ \A x \in D : n[x] = m[x]
  /\ \A t \in S, i \in Index : m[t][i] # 0 => n[t][i] = m[t][i]
  /\ \A t \in S, i \in Index : t # s \/ i # page[1] => n[t][i] = m[t][i]

(* Nothing is mapped: the arguments were refused, the page was mapped       *)
(* before, or all frames are in use.                                        *)
MapFails(m, n, p, S, D, s, va, pa) ==
  /\ Grows(m, n, S, D)
  /\ \A t \in S, i \in Index : t # s \/ i # va.page[1] => n[t][i] = m[t][i]
  /\ \/ RefusesMap(va, pa)
     \/ Translate(m, s, va.page) # {}
     \/ p.free_frames = 0

(* vm_map maps the page, or fails with nothing mapped and the tables it     *)
(* built in place, because of its arguments or for lack of frames.          *)
LEMMA MapGood ==
  ASSUME NEW m, NEW p, NEW S, NEW D, Good(m, p, S, D), NEW s \in S,
         NEW va \in VirtAddrs(Pages), NEW pa, pa \in D \/ RefusesMap(va, pa),
         NEW q \in vm_map(m, p, s, va, pa)
  PROVE  /\ q.ok \in BOOLEAN
         /\ Good(q.mem, q.pmm, S, D)
         /\ ~q.ok => MapFails(m, q.mem, q.pmm, S, D, s, va, pa)
         /\ q.ok => pa \in D /\ Maps(m, q.mem, S, D, s, va.page, pa)
<1> DEFINE page == va.page
<1>0. page \in Pages /\ page[4] \in Index
  BY DEF VirtAddrs, Pages
<1>1. CASE RefusesMap(va, pa)
  <2>1. q = [ok |-> FALSE, mem |-> m, pmm |-> p]
    BY <1>1 DEF vm_map
  <2> QED BY <1>1, <2>1, GrowsRefl DEF MapFails
<1>2. CASE ~RefusesMap(va, pa)
  <2>1. PICK w \in vm_walk(m, p, s, page, TRUE) :
          q = IF ~w.ok \/ w.mem[w.table][page[4]] # 0
              THEN [ok |-> FALSE, mem |-> w.mem, pmm |-> w.pmm]
              ELSE [ok |-> TRUE, pmm |-> w.pmm,
                    mem |-> [w.mem EXCEPT ![w.table][page[4]] = pa]]
    BY <1>2 DEF vm_map
  <2> HIDE DEF page
  <2>2. /\ w.ok \in BOOLEAN
        /\ Good(w.mem, w.pmm, S, D)
        /\ Grows(m, w.mem, S, D)
        /\ w.ok => /\ Reaches(w.mem, s, page)
                   /\ E3(w.mem, s, page) = w.table
                   /\ w.table \in L3(w.mem, S)
                   /\ m[s][page[1]] = 0 => E1(w.mem, s, page) \notin AllTables(m, S)
        /\ \A t \in S, j \in Index : t # s \/ j # page[1] => w.mem[t][j] = m[t][j]
        /\ ~w.ok /\ ~Low(page) => w.pmm.free_frames = 0
    <3>1. Walks(m, p, w, S, D, s, page, TRUE)
      BY <1>0, WalkGood, TRUE \in BOOLEAN
    <3> QED BY <3>1 DEF Walks
  <2>3. CASE ~w.ok \/ w.mem[w.table][page[4]] # 0
    <3>1. q = [ok |-> FALSE, mem |-> w.mem, pmm |-> w.pmm]
      BY <2>1, <2>3
    <3>2. ~Low(page)
      BY <1>2 DEF RefusesMap, page
    <3>3. ASSUME w.ok PROVE Translate(m, s, page) # {}
      <4>1. E4(w.mem, s, page) # 0
        BY <2>2, <2>3, <3>3 DEF E4
      <4>2. E4(w.mem, s, page) # HUGE
        BY <1>0, <2>2, <3>2, <3>3, PathPlain
      <4>3. Translate(w.mem, s, page) # {}
        BY <2>2, <3>3, <4>1, <4>2, TranslateEntries DEF Present
      <4> QED BY <1>0, <2>2, <4>3 DEF Grows
    <3>4. q.ok = FALSE /\ q.mem = w.mem /\ q.pmm = w.pmm
      BY <3>1
    <3>5. Translate(m, s, page) # {} \/ w.pmm.free_frames = 0
      BY <2>2, <3>2, <3>3
    <3>6. MapFails(m, q.mem, q.pmm, S, D, s, va, pa)
      BY <2>2, <3>4, <3>5 DEF page, MapFails
    <3> QED BY <2>2, <3>4, <3>6
  <2>4. CASE w.ok /\ w.mem[w.table][page[4]] = 0
    <3> DEFINE n == SetEntry(w.mem, w.table, page[4], pa)
    <3>1. q = [ok |-> TRUE, mem |-> n, pmm |-> w.pmm]
      BY <2>1, <2>4 DEF SetEntry
    <3>2. pa \in D /\ pa # 0
      BY <1>2 DEF Good, Owned
    <3>3. /\ Good(n, w.pmm, S, D)
          /\ \A x \in Phys \ {w.table} : n[x] = w.mem[x]
          /\ Translate(n, s, page) = {pa}
          /\ \A s2 \in S, p2 \in Pages :
               \/ Translate(n, s2, p2) = Translate(w.mem, s2, p2)
               \/ p2 = page /\ Translate(n, s2, p2) = {pa}
          /\ \A s2 \in S : IF E1(w.mem, s2, page) = E1(w.mem, s, page)
                           THEN Translate(n, s2, page) = {pa}
                           ELSE Translate(n, s2, page) = Translate(w.mem, s2, page)
      <4>1. Writes(w.mem, n, w.pmm, S, D, s, page, pa)
        BY <1>0, <2>2, <2>4, <3>2, EntryWrite
      <4> HIDE DEF n
      <4> QED BY <2>2, <2>4, <3>2, <4>1 DEF Writes
    <3> HIDE DEF n
    <3>4. Translate(m, s, page) = {}
      <4>1. E4(w.mem, s, page) = 0
        BY <2>2, <2>4 DEF E4
      <4>2. Translate(w.mem, s, page) = {}
        BY <4>1, TranslateEntries DEF Present
      <4> QED BY <1>0, <2>2, <4>2 DEF Grows
    <3>5. \A s2 \in S, p2 \in Pages :
            \/ Translate(n, s2, p2) = Translate(m, s2, p2)
            \/ p2 = page /\ Translate(n, s2, p2) = {pa}
      BY <2>2, <3>3 DEF Grows
    <3>6. D \subseteq Phys /\ S \subseteq Phys /\ w.table \notin D /\ w.table \notin S
      BY <2>2, <2>4 DEF Good, Owned, Forest, AllTables
    <3>7. \A x \in D : n[x] = m[x]
      BY <2>2, <3>3, <3>6 DEF Grows
    <3>8. \A t \in S : n[t] = w.mem[t]
      BY <3>3, <3>6
    <3>9. \A t \in S, i \in Index : m[t][i] # 0 => n[t][i] = m[t][i]
      BY <2>2, <3>8 DEF Grows, AllTables
    <3>10. \A s2 \in S : E1(n, s2, page) = E1(n, s, page) => Translate(n, s2, page) = {pa}
      BY <3>3, <3>8 DEF E1
    <3>11. \A t \in S, i \in Index : t # s \/ i # page[1] => n[t][i] = m[t][i]
      BY <2>2, <3>8
    <3>12. ASSUME m[s][page[1]] = 0, NEW s2 \in S \ {s}
           PROVE  Translate(n, s2, page) = Translate(m, s2, page)
      <4>1. E1(w.mem, s, page) \notin AllTables(m, S) /\ Present(E1(w.mem, s, page))
        BY <2>2, <2>4, <3>12 DEF Reaches
      <4>2. E1(w.mem, s2, page) = E1(m, s2, page)
        BY <1>0, <2>2 DEF E1, Pages
      <4>3. Present(E1(m, s2, page)) => E1(m, s2, page) \in AllTables(m, S)
        BY <1>0, PathLevels DEF AllTables
      <4>4. Translate(n, s2, page) = Translate(w.mem, s2, page)
        BY <3>3, <4>1, <4>2, <4>3
      <4> QED BY <1>0, <2>2, <4>4 DEF Grows
    <3>13. Maps(m, n, S, D, s, page, pa)
      BY <3>3, <3>4, <3>5, <3>7, <3>9, <3>10, <3>11, <3>12 DEF Maps
    <3> QED BY <3>1, <3>2, <3>3, <3>13 DEF page
  <2> QED BY <2>2, <2>3, <2>4
<1> QED BY <1>1, <1>2

(* The page is not mapped in space s any more, nor where its table is       *)
(* shared, and pa is what it showed; other pages are as before.             *)
Unmaps(m, n, S, s, page, pa) ==
  /\ pa = 0 => n = m
  /\ Translate(m, s, page) \in {{}, {pa}}
  /\ Translate(n, s, page) = {}
  /\ \A s2 \in S, p2 \in Pages :
       \/ Translate(n, s2, p2) = Translate(m, s2, p2)
       \/ p2 = page /\ Translate(n, s2, p2) = {}
  /\ \A t \in S, i \in Index : n[t][i] = m[t][i]

(* vm_unmap removes the page's translation and returns it. *)
LEMMA UnmapGood ==
  ASSUME NEW m, NEW S, NEW D, Good(m, pmm, S, D), NEW s \in S,
         NEW va \in VirtAddrs(Pages), NEW q \in vm_unmap(m, s, va)
  PROVE  Good(q.mem, pmm, S, D) /\ Unmaps(m, q.mem, S, s, va.page, q.pa)
<1> DEFINE page == va.page
<1>0. page \in Pages /\ page[4] \in Index
  BY DEF VirtAddrs, Pages
<1>1. PICK w \in vm_walk(m, pmm, s, page, FALSE) :
        q = IF w.ok THEN [pa |-> m[w.table][page[4]],
                          mem |-> [m EXCEPT ![w.table][page[4]] = 0]]
            ELSE [pa |-> 0, mem |-> m]
  BY DEF vm_unmap
<1> HIDE DEF page
<1>2. /\ w.ok \in BOOLEAN /\ w.mem = m
      /\ ~w.ok => Translate(m, s, page) = {}
      /\ w.ok => /\ Reaches(w.mem, s, page)
                 /\ E3(w.mem, s, page) = w.table
                 /\ w.table \in L3(w.mem, S)
  <2>1. Walks(m, pmm, w, S, D, s, page, FALSE)
    BY <1>0, WalkGood, FALSE \in BOOLEAN
  <2> QED BY <2>1 DEF Walks
<1>3. CASE ~w.ok
  BY <1>1, <1>2, <1>3 DEF Unmaps, page
<1>4. CASE w.ok
  <2> DEFINE n == SetEntry(m, E3(m, s, page), page[4], 0)
  <2>1. q = [pa |-> m[w.table][page[4]], mem |-> n]
    BY <1>1, <1>2, <1>4 DEF SetEntry
  <2>2. Writes(m, n, pmm, S, D, s, page, 0)
    BY <1>0, <1>2, <1>4, EntryWrite, 0 \in D \cup {0}
  <2>3. ASSUME m[w.table][page[4]] = 0 PROVE n = m
    <3>1. m \in Memory /\ w.table \in Phys
      BY <1>2, <1>4 DEF Good, Forest, AllTables
    <3>2. m[w.table] \in Contents
      BY <3>1 DEF Memory
    <3>3. [m[w.table] EXCEPT ![page[4]] = 0] = m[w.table]
      BY <1>0, <2>3, <3>2 DEF Contents
    <3> QED BY <1>2, <1>4, <3>1, <3>3 DEF SetEntry, Memory
  <2> HIDE DEF n
  <2>4. S \subseteq Phys /\ w.table \notin S
    BY <1>2, <1>4 DEF Good, Forest, AllTables
  <2>5. \A t \in S, i \in Index : n[t][i] = m[t][i]
    BY <1>2, <1>4, <2>2, <2>4 DEF Writes
  <2>6. Translate(m, s, page) \in {{}, {m[w.table][page[4]]}}
    BY <1>2, <1>4, TranslateEntries DEF E4
  <2>7. /\ q.pa = m[w.table][page[4]] /\ q.mem = n
        /\ Good(n, pmm, S, D) /\ Translate(n, s, page) = {}
        /\ \A s2 \in S, p2 \in Pages :
             \/ Translate(n, s2, p2) = Translate(m, s2, p2)
             \/ p2 = page /\ Translate(n, s2, p2) = {}
    BY <2>1, <2>2 DEF Writes
  <2> QED BY <2>3, <2>5, <2>6, <2>7 DEF page, Unmaps
<1> QED BY <1>2, <1>3, <1>4

-----------------------------------------------------------------------------
(* Owners. *)

(* A heap page is the same frame in every space. *)
LEMMA HeapShared ==
  ASSUME NEW m, NEW p, NEW S, NEW D, Good(m, p, S, D), NEW s \in S,
         NEW page \in HeapPages
  PROVE  /\ page \in Pages
         /\ E1(m, s, page) = E1(m, BootPml4, page)
         /\ E1(m, s, page) = m[BootPml4][HALF]
         /\ Translate(m, s, page) = Translate(m, BootPml4, page)
<1>1. page \in Pages /\ page[1] = HALF
  BY VmAssumption
<1>2. /\ E1(m, s, page) = E1(m, BootPml4, page)
      /\ E1(m, s, page) = m[BootPml4][HALF]
  BY <1>1 DEF E1, Good, HalfShared
<1>3. Translate(m, s, page) = Translate(m, BootPml4, page)
  BY <1>2, TranslateEntries DEF Reaches, E2, E3, E4
<1> QED BY <1>1, <1>2, <1>3

(* What does not change any translation does not change the owners. *)
LEMMA SameOwners ==
  ASSUME NEW m, NEW n, NEW S, NEW H, BootPml4 \in S, OwnersKnown(m, S, H),
         \A s \in S, page \in Pages : Translate(n, s, page) = Translate(m, s, page)
  PROVE  HeapFrames(n) = HeapFrames(m) /\ OwnersKnown(n, S, H)
<1>1. \A page \in HeapPages : page \in Pages
  BY VmAssumption
<1>2. \A page \in HeapPages : Translate(n, BootPml4, page) = Translate(m, BootPml4, page)
  BY <1>1
<1>3. HeapFrames(n) = HeapFrames(m)
  BY <1>2 DEF HeapFrames
<1> QED BY <1>2, <1>3 DEF OwnersKnown

(* A frame that kernel code holds and has not mapped is in no page table. *)
LEMMA UnmappedHeld ==
  ASSUME NEW m, NEW p, NEW S, NEW D, NEW H, Good(m, p, S, D), OwnersKnown(m, S, H),
         NEW pa \in H,
         \A s \in S, page \in ClientPages : pa \notin Translate(m, s, page)
  PROVE  /\ pa \notin Targets(m, L3(m, S))
         /\ \A s \in S, page \in Pages : pa \notin Translate(m, s, page)
<1>1. ASSUME NEW s \in S, NEW page \in Pages
      PROVE  pa \notin Translate(m, s, page)
  <2>1. CASE page \in HeapPages
    <3>1. Translate(m, s, page) \subseteq HeapFrames(m)
      BY <2>1, HeapShared DEF HeapFrames
    <3> QED BY <3>1 DEF OwnersKnown
  <2>2. CASE page \notin HeapPages
    BY <2>2 DEF OwnersKnown
  <2> QED BY <2>1, <2>2
<1> QED BY <1>1, TargetsTranslated

(* Mapped pages show data frames. *)
LEMMA TranslateData ==
  ASSUME NEW m, NEW p, NEW S, NEW D, Good(m, p, S, D), NEW s \in S, NEW page \in Pages,
         NEW pa \in Translate(m, s, page)
  PROVE  pa \in D /\ pa \in Phys \ {0} /\ pa \notin AllTables(m, S)
<1>1. Reaches(m, s, page) /\ Present(E4(m, s, page)) /\ pa = E4(m, s, page)
  BY TranslateEntries
<1>2. pa \in Targets(m, L3(m, S))
  BY <1>1, PathLevels
<1> QED BY <1>2 DEF Good, Owned

-----------------------------------------------------------------------------
(* The invariant, step by step. *)

(* The invariant of the next state, from its parts. *)
LEMMA VmInvNext ==
  ASSUME usable' = usable,
         Good(mem', pmm', spaces', HeapFrames(mem') \cup held'),
         OwnersKnown(mem', spaces', held'), CpuTypes', HeapFirst', TlbCoherent'
  PROVE  VmInv'
<1>1. Good(mem, pmm, spaces, HeapFrames(mem) \cup held)'
  BY DEF Good, Owned, HeapFrames
<1>2. OwnersKnown(mem, spaces, held)'
  BY DEF OwnersKnown, HeapFrames
<1> QED BY <1>1, <1>2 DEF VmInv

(* The TLB after an invlpg. *)
LEMMA InvlpgEntries ==
  ASSUME NEW t, NEW page
  PROVE  /\ DOMAIN vm_invlpg(t, page) = DOMAIN t \ {page}
         /\ \A x \in DOMAIN t \ {page} : vm_invlpg(t, page)[x] = t[x]
  BY DEF vm_invlpg, Restrict

(* What an allocation by kernel code leaves alone. *)
OnlyFrames == UNCHANGED <<usable, mem, spaces, cr3, tlb, access, vm_in_fault>>

(* A frame is taken, and nobody maps it yet; or there is none. *)
LEMMA FrameTaken ==
  ASSUME VmInv, AllocFrame, OnlyFrames
  PROVE  /\ VmInv'
         /\ \/ ret' = 0 /\ held' = held /\ pmm'.free_frames = 0
            \/ /\ ret' \in Phys \ {0} /\ ret' \notin held
               /\ held' = held \cup {ret'}
<1> DEFINE r == pmm_alloc_frame(pmm)
           D == HeapFrames(mem) \cup held
<1>1. /\ usable' = usable /\ mem' = mem /\ spaces' = spaces
      /\ cr3' = cr3 /\ tlb' = tlb /\ access' = access /\ vm_in_fault' = vm_in_fault
  BY DEF OnlyFrames
<1>2. Good(mem, pmm, spaces, D) /\ OwnersKnown(mem, spaces, held) /\ PmmInv(pmm)
  BY DEF VmInv, Good
<1>3. pmm' = r.pmm /\ ret' = r.pa /\ held' = IF r.pa = 0 THEN held ELSE held \cup {r.pa}
  BY DEF AllocFrame
<1>4. CpuTypes' /\ HeapFirst' /\ TlbCoherent'
  BY <1>1 DEF VmInv, CpuTypes, HeapFirst, TlbCoherent
<1>5. CASE r = [pmm |-> pmm, pa |-> 0] /\ pmm.free_frames = 0
  <2>1. pmm' = pmm /\ held' = held /\ ret' = 0
    BY <1>3, <1>5
  <2>2. VmInv'
    BY <1>1, <1>2, <1>4, <2>1, VmInvNext
  <2> QED BY <1>5, <2>1, <2>2
<1>6. CASE /\ PmmInv(r.pmm)
           /\ r.pa \in Phys \ {0} /\ ~Used(pmm, r.pa)
           /\ \A pa \in Phys : Used(r.pmm, pa) <=> Used(pmm, pa) \/ pa = r.pa
  <2> HIDE DEF r
  <2>1. Good(mem, pmm', spaces, D \cup {r.pa})
    BY <1>2, <1>3, <1>6, TakeData
  <2>2. held' = held \cup {r.pa} /\ r.pa \notin D
    BY <1>2, <1>3, <1>6, FreshUnknown
  <2>3. OwnersKnown(mem, spaces, held')
    BY <1>2, <2>2 DEF OwnersKnown
  <2>4. HeapFrames(mem') \cup held' = D \cup {r.pa}
    BY <1>1, <2>2
  <2>5. VmInv'
    BY <1>1, <1>4, <2>1, <2>3, <2>4, VmInvNext
  <2> QED BY <1>3, <1>6, <2>2, <2>5
<1> QED BY <1>2, <1>5, <1>6, AllocFresh

(* It gives back one that it does not map. *)
LEMMA FrameGiven ==
  ASSUME VmInv, NEW pa \in held, FreeFrame(pa), OnlyFrames,
         \A s \in spaces, page \in ClientPages : pa \notin Translate(mem, s, page)
  PROVE  VmInv'
<1> DEFINE D == HeapFrames(mem) \cup held
<1>1. /\ usable' = usable /\ mem' = mem /\ spaces' = spaces
      /\ cr3' = cr3 /\ tlb' = tlb /\ access' = access /\ vm_in_fault' = vm_in_fault
  BY DEF OnlyFrames
<1>2. Good(mem, pmm, spaces, D) /\ OwnersKnown(mem, spaces, held)
  BY DEF VmInv
<1>3. pmm' = pmm_free_frame(pmm, pa) /\ held' = held \ {pa}
  BY DEF FreeFrame
<1>4. CpuTypes' /\ HeapFirst' /\ TlbCoherent'
  BY <1>1 DEF VmInv, CpuTypes, HeapFirst, TlbCoherent
<1>5. /\ pa \notin Targets(mem, L3(mem, spaces))
      /\ \A s \in spaces, page \in Pages : pa \notin Translate(mem, s, page)
  BY <1>2, UnmappedHeld
<1>6. Good(mem, pmm', spaces, D \ {pa})
  <2>1. pa \in D
    OBVIOUS
  <2> HIDE DEF D
  <2> QED BY <1>2, <1>3, <1>5, <2>1, GiveData
<1>7. HeapFrames(mem') \cup held' = D \ {pa}
  BY <1>1, <1>2, <1>3 DEF OwnersKnown
<1>8. OwnersKnown(mem, spaces, held')
  BY <1>2, <1>3, <1>5 DEF OwnersKnown
<1> QED BY <1>1, <1>4, <1>6, <1>7, <1>8, VmInvNext

(* The TLB stays coherent when the one page that is translated differently  *)
(* is invalidated.                                                          *)
LEMMA TlbInvalidated ==
  ASSUME TlbCoherent, DOMAIN tlb \subseteq Pages, cr3' = cr3, NEW page,
         tlb' = vm_invlpg(tlb, page),
         \A p2 \in Pages \ {page} : Translate(mem', cr3, p2) = Translate(mem, cr3, p2)
  PROVE  TlbCoherent' /\ DOMAIN tlb' \subseteq Pages
<1>1. /\ DOMAIN tlb' = DOMAIN tlb \ {page}
      /\ \A x \in DOMAIN tlb \ {page} : tlb'[x] = tlb[x]
  BY InvlpgEntries
<1>2. ASSUME NEW x \in DOMAIN tlb' PROVE {tlb'[x]} = Translate(mem', cr3', x)
  BY <1>1 DEF TlbCoherent
<1> QED BY <1>1, <1>2 DEF TlbCoherent

(* Tables that translate the current space as before keep the TLB right. *)
LEMMA TlbKept ==
  ASSUME TlbCoherent, DOMAIN tlb \subseteq Pages, cr3' = cr3, tlb' = tlb,
         \A p2 \in Pages : Translate(mem', cr3, p2) = Translate(mem, cr3, p2)
  PROVE  TlbCoherent' /\ DOMAIN tlb' \subseteq Pages
<1>1. ASSUME NEW x \in DOMAIN tlb' PROVE {tlb'[x]} = Translate(mem', cr3', x)
  BY DEF TlbCoherent
<1> QED BY <1>1 DEF TlbCoherent

(* The pages kernel code maps are not the heap's. *)
LEMMA ClientPage ==
  ASSUME NEW va \in VirtAddrs(ClientPages)
  PROVE  /\ va \in VirtAddrs(Pages) /\ va.page \in Pages
         /\ va.page \in ClientPages /\ va.page \notin HeapPages
  BY VmAssumption DEF VirtAddrs

(* What vm_map comes to when it maps a frame that is held. *)
LEMMA MapOutcome ==
  ASSUME VmInv, NEW s \in spaces, NEW va \in VirtAddrs(ClientPages),
         NEW pa \in held \cup BadPas, NEW ok \in BOOLEAN, Map(s, va, pa, ok)
  PROVE  LET D == HeapFrames(mem) \cup held
         IN  /\ Good(mem', pmm', spaces, D)
             /\ ok => pa \in held /\ Maps(mem, mem', spaces, D, s, va.page, pa)
             /\ ~ok => MapFails(mem, mem', pmm', spaces, D, s, va, pa)
<1> DEFINE D == HeapFrames(mem) \cup held
<1>1. Good(mem, pmm, spaces, D) /\ OwnersKnown(mem, spaces, held)
  BY DEF VmInv
<1>2. PICK q \in vm_map(mem, pmm, s, va, pa) :
        q.ok = ok /\ mem' = q.mem /\ pmm' = q.pmm
  BY DEF Map
<1>3. va \in VirtAddrs(Pages)
  BY ClientPage
<1>4. pa \in held \/ RefusesMap(va, pa)
  <2>1. (BootPml4 + 1) % PMM_FRAME_SIZE # 0
    BY DEF BootPml4, PMM_FRAME_SIZE
  <2>2. PMM_MAX_PHYS >= PMM_MAX_PHYS
    BY FrameCountAssumption DEF PMM_MAX_PHYS, PMM_FRAME_SIZE
  <2> QED BY <2>1, <2>2 DEF BadPas, RefusesMap
<1>5. pa \in D => pa \in held
  <2>1. CASE pa \in held
    BY <2>1
  <2>2. CASE RefusesMap(va, pa) /\ pa \notin held
    <3>1. pa = BootPml4 + 1 \/ pa = PMM_MAX_PHYS
      BY <2>2 DEF BadPas
    <3>2. \A f \in Frames : f * PMM_FRAME_SIZE # BootPml4 + 1
                            /\ f * PMM_FRAME_SIZE # PMM_MAX_PHYS
      BY FrameCountAssumption DEF BootPml4, PMM_FRAME_SIZE, PMM_MAX_PHYS, Frames
    <3>3. D \subseteq Phys
      BY <1>1 DEF Good, Owned
    <3> QED BY <3>1, <3>2, <3>3 DEF Phys
  <2> QED BY <1>4, <2>1, <2>2
<1>6. pa \in D \/ RefusesMap(va, pa)
  BY <1>4
<1>7. /\ Good(mem', pmm', spaces, D)
      /\ ok => pa \in D /\ Maps(mem, mem', spaces, D, s, va.page, pa)
      /\ ~ok => MapFails(mem, mem', pmm', spaces, D, s, va, pa)
  <2> HIDE DEF D
  <2>1. /\ Good(q.mem, q.pmm, spaces, D)
        /\ ~q.ok => MapFails(mem, q.mem, q.pmm, spaces, D, s, va, pa)
        /\ q.ok => pa \in D /\ Maps(mem, q.mem, spaces, D, s, va.page, pa)
    BY <1>1, <1>3, <1>6, MapGood
  <2> QED BY <1>2, <2>1
<1> QED BY <1>5, <1>7

(* It maps one, with or without success. *)
LEMMA MapKeepsInv ==
  ASSUME VmInv, NEW s \in spaces, NEW va \in VirtAddrs(ClientPages),
         NEW pa \in held \cup BadPas, NEW ok \in BOOLEAN, Map(s, va, pa, ok)
  PROVE  VmInv'
<1> DEFINE D == HeapFrames(mem) \cup held
           page == va.page
<1>1. /\ usable' = usable /\ held' = held /\ spaces' = spaces
      /\ cr3' = cr3 /\ access' = access /\ vm_in_fault' = vm_in_fault
      /\ tlb' = IF ok THEN vm_invlpg(tlb, page) ELSE tlb
  BY DEF Map
<1>2. /\ Good(mem, pmm, spaces, D) /\ OwnersKnown(mem, spaces, held)
      /\ BootPml4 \in spaces /\ cr3 \in spaces /\ DOMAIN tlb \subseteq Pages /\ TlbCoherent
  BY DEF VmInv, Good, CpuTypes
<1>4. /\ va \in VirtAddrs(Pages) /\ page \in Pages
      /\ page \in ClientPages /\ page \notin HeapPages
  BY ClientPage
<1>7. /\ Good(mem', pmm', spaces, D)
      /\ ~ok => Grows(mem, mem', spaces, D)
      /\ ok => pa \in held /\ Maps(mem, mem', spaces, D, s, page, pa)
  BY MapOutcome DEF MapFails
<1> HIDE DEF page
<1>8. \A t \in spaces, i \in Index : mem[t][i] # 0 => mem'[t][i] = mem[t][i]
  BY <1>7 DEF Grows, Maps, AllTables
<1>9. CpuTypes' /\ HeapFirst' /\ TlbCoherent'
  <2>1. HeapFirst'
    <3>1. Present(mem[BootPml4][HALF]) => Present(mem'[BootPml4][HALF])
      BY <1>2, <1>8, Basics DEF Present
    <3> QED BY <1>1, <3>1 DEF VmInv, HeapFirst
  <2>2. TlbCoherent' /\ DOMAIN tlb' \subseteq Pages
    <3>1. CASE ok
      <4>1. \A p2 \in Pages \ {page} : Translate(mem', cr3, p2) = Translate(mem, cr3, p2)
        BY <1>2, <1>7, <3>1 DEF Maps
      <4> QED BY <1>1, <1>2, <3>1, <4>1, TlbInvalidated
    <3>2. CASE ~ok
      <4>1. \A p2 \in Pages : Translate(mem', cr3, p2) = Translate(mem, cr3, p2)
        BY <1>2, <1>7, <3>2 DEF Grows
      <4> QED BY <1>1, <1>2, <3>2, <4>1, TlbKept
    <3> QED BY <3>1, <3>2
  <2> QED BY <1>1, <2>1, <2>2 DEF VmInv, CpuTypes
<1>10. HeapFrames(mem') = HeapFrames(mem) /\ OwnersKnown(mem', spaces, held)
  <2>1. CASE ~ok
    BY <1>2, <1>7, <2>1, SameOwners DEF Grows
  <2>2. CASE ok
    <3>1. \A p2 \in HeapPages : p2 \in Pages /\ p2 # page
      BY <1>4, VmAssumption
    <3>2. \A p2 \in HeapPages :
            Translate(mem', BootPml4, p2) = Translate(mem, BootPml4, p2)
      BY <1>2, <1>7, <2>2, <3>1 DEF Maps
    <3>3. HeapFrames(mem') = HeapFrames(mem)
      BY <3>2 DEF HeapFrames
    <3>4. ASSUME NEW s2 \in spaces, NEW p2 \in Pages \ HeapPages,
                 Translate(mem', s2, p2) # {}
          PROVE  p2 \in ClientPages /\ Translate(mem', s2, p2) \subseteq held
      <4>1. \/ Translate(mem', s2, p2) = Translate(mem, s2, p2)
            \/ p2 = page /\ Translate(mem', s2, p2) = {pa}
        BY <1>7, <2>2 DEF Maps
      <4>2. pa \in held
        BY <1>7, <2>2
      <4> QED BY <1>2, <1>4, <3>4, <4>1, <4>2 DEF OwnersKnown
    <3> QED BY <1>2, <3>2, <3>3, <3>4 DEF OwnersKnown
  <2> QED BY <2>1, <2>2
<1> QED BY <1>1, <1>7, <1>9, <1>10, VmInvNext

(* What vm_unmap comes to. *)
LEMMA UnmapOutcome ==
  ASSUME VmInv, NEW s \in spaces, NEW va \in VirtAddrs(ClientPages),
         NEW pa \in Answers, Unmap(s, va, pa)
  PROVE  /\ Good(mem', pmm, spaces, HeapFrames(mem) \cup held)
         /\ Unmaps(mem, mem', spaces, s, va.page, pa)
<1> DEFINE D == HeapFrames(mem) \cup held
<1>1. Good(mem, pmm, spaces, D)
  BY DEF VmInv
<1>2. PICK q \in vm_unmap(mem, s, va) : q.pa = pa /\ mem' = q.mem
  BY DEF Unmap
<1>3. va \in VirtAddrs(Pages)
  BY ClientPage
<1> HIDE DEF D
<1>4. Good(q.mem, pmm, spaces, D) /\ Unmaps(mem, q.mem, spaces, s, va.page, q.pa)
  BY <1>1, <1>3, UnmapGood
<1> QED BY <1>2, <1>4 DEF D

(* It unmaps a page; invlpg drops the translation. *)
LEMMA UnmapKeepsInv ==
  ASSUME VmInv, NEW s \in spaces, NEW va \in VirtAddrs(ClientPages),
         NEW pa \in Answers, Unmap(s, va, pa)
  PROVE  VmInv'
<1> DEFINE D == HeapFrames(mem) \cup held
           page == va.page
<1>1. /\ usable' = usable /\ held' = held /\ spaces' = spaces /\ pmm' = pmm
      /\ cr3' = cr3 /\ access' = access /\ vm_in_fault' = vm_in_fault
      /\ tlb' = IF pa # 0 THEN vm_invlpg(tlb, page) ELSE tlb
  BY DEF Unmap, TlbAfterUnmap
<1>2. /\ Good(mem, pmm, spaces, D) /\ OwnersKnown(mem, spaces, held)
      /\ BootPml4 \in spaces /\ cr3 \in spaces /\ DOMAIN tlb \subseteq Pages /\ TlbCoherent
  BY DEF VmInv, Good, CpuTypes
<1>4. /\ va \in VirtAddrs(Pages) /\ page \in Pages
      /\ page \in ClientPages /\ page \notin HeapPages
  BY ClientPage
<1>5. /\ Good(mem', pmm, spaces, D)
      /\ pa = 0 => mem' = mem
      /\ \A s2 \in spaces, p2 \in Pages :
           \/ Translate(mem', s2, p2) = Translate(mem, s2, p2)
           \/ p2 = page /\ Translate(mem', s2, p2) = {}
      /\ \A t \in spaces, i \in Index : mem'[t][i] = mem[t][i]
  BY UnmapOutcome DEF Unmaps
<1> HIDE DEF page
<1>6. CpuTypes' /\ HeapFirst' /\ TlbCoherent'
  <2>1. HeapFirst'
    BY <1>1, <1>2, <1>5, Basics DEF VmInv, HeapFirst
  <2>2. TlbCoherent' /\ DOMAIN tlb' \subseteq Pages
    <3>1. CASE pa # 0
      <4>1. \A p2 \in Pages \ {page} : Translate(mem', cr3, p2) = Translate(mem, cr3, p2)
        BY <1>2, <1>5
      <4> QED BY <1>1, <1>2, <3>1, <4>1, TlbInvalidated
    <3>2. CASE pa = 0
      BY <1>1, <1>2, <1>5, <3>2, TlbKept
    <3> QED BY <3>1, <3>2
  <2> QED BY <1>1, <2>1, <2>2 DEF VmInv, CpuTypes
<1>7. HeapFrames(mem') = HeapFrames(mem) /\ OwnersKnown(mem', spaces, held)
  <2>1. \A p2 \in HeapPages : p2 \in Pages /\ p2 # page
    BY <1>4, VmAssumption
  <2>2. \A p2 \in HeapPages :
          Translate(mem', BootPml4, p2) = Translate(mem, BootPml4, p2)
    BY <1>2, <1>5, <2>1
  <2>3. HeapFrames(mem') = HeapFrames(mem)
    BY <2>2 DEF HeapFrames
  <2>4. \A s2 \in spaces, p2 \in Pages \ HeapPages : Translate(mem', s2, p2) # {} =>
          p2 \in ClientPages /\ Translate(mem', s2, p2) \subseteq held
    BY <1>2, <1>5 DEF OwnersKnown
  <2> QED BY <1>2, <2>2, <2>3, <2>4 DEF OwnersKnown
<1> QED BY <1>1, <1>5, <1>6, <1>7, VmInvNext

(* What vm_create_space comes to: nothing, for lack of frames, or a space   *)
(* that joins the others.                                                   *)
LEMMA CreateOutcome ==
  ASSUME VmInv, NEW pa \in Answers, vm_create_space(pa)
  PROVE  LET D == HeapFrames(mem) \cup held
         IN  \/ /\ pa = 0 /\ pmm'.free_frames = 0
                /\ mem' = mem /\ spaces' = spaces /\ pmm' = pmm
             \/ /\ pa \in Phys \ {0} /\ spaces' = spaces \cup {pa}
                /\ Joins(mem, mem', pmm', spaces, D, pa)
<1> DEFINE r == pmm_alloc_frame(pmm)
           D == HeapFrames(mem) \cup held
<1>1. r.pa = pa /\ pmm' = r.pmm /\ access = NoAccess
  BY DEF vm_create_space, Running
<1>2. Good(mem, pmm, spaces, D) /\ PmmInv(pmm)
  BY DEF VmInv, Good
<1>3. Present(mem[BootPml4][HALF])
  BY <1>1 DEF VmInv, HeapFirst
<1>4. CASE r = [pmm |-> pmm, pa |-> 0] /\ pmm.free_frames = 0
  <2>1. pa = 0 /\ pmm' = pmm
    BY <1>1, <1>4
  <2>2. mem' = mem /\ spaces' = spaces
    BY <2>1 DEF vm_create_space
  <2> QED BY <1>4, <2>1, <2>2
<1>5. CASE /\ PmmInv(r.pmm)
           /\ r.pa \in Phys \ {0} /\ ~Used(pmm, r.pa)
           /\ \A x \in Phys : Used(r.pmm, x) <=> Used(pmm, x) \/ x = r.pa
  <2> DEFINE n == SetFrame(mem, pa, NewPml4(mem[BootPml4]))
  <2> HIDE DEF r, D
  <2>1. /\ PmmInv(pmm') /\ pa \in Phys \ {0} /\ ~Used(pmm, pa)
        /\ \A x \in Phys : Used(pmm', x) <=> Used(pmm, x) \/ x = pa
    BY <1>1, <1>5
  <2>2. mem' = n /\ spaces' = spaces \cup {pa}
    BY <2>1 DEF vm_create_space, SetFrame
  <2>3. Joins(mem, n, pmm', spaces, D, pa)
    BY <1>2, <1>3, <2>1, NewSpace
  <2> HIDE DEF n
  <2> QED BY <2>1, <2>2, <2>3 DEF D
<1> QED BY <1>2, <1>4, <1>5, AllocFresh

(* A new space copies the entries of the boot tables. *)
LEMMA CreateKeepsInv ==
  ASSUME VmInv, NEW pa \in Answers, vm_create_space(pa)
  PROVE  VmInv'
<1> DEFINE D == HeapFrames(mem) \cup held
<1>1. /\ usable' = usable /\ held' = held /\ cr3' = cr3 /\ tlb' = tlb
      /\ access' = access /\ vm_in_fault' = vm_in_fault /\ access = NoAccess
  BY DEF vm_create_space, Running
<1>2. /\ Good(mem, pmm, spaces, D) /\ OwnersKnown(mem, spaces, held)
      /\ BootPml4 \in spaces /\ cr3 \in spaces /\ DOMAIN tlb \subseteq Pages /\ TlbCoherent
  BY DEF VmInv, Good, CpuTypes
<1>3. Present(mem[BootPml4][HALF])
  BY <1>1 DEF VmInv, HeapFirst
<1>4. CASE mem' = mem /\ spaces' = spaces /\ pmm' = pmm
  <2>1. CpuTypes' /\ HeapFirst' /\ TlbCoherent'
    BY <1>1, <1>4 DEF VmInv, CpuTypes, HeapFirst, TlbCoherent
  <2> QED BY <1>1, <1>2, <1>4, <2>1, VmInvNext
<1>5. CASE spaces' = spaces \cup {pa} /\ Joins(mem, mem', pmm', spaces, D, pa)
  <2>1. /\ Good(mem', pmm', spaces', D)
        /\ mem'[BootPml4] = mem[BootPml4]
        /\ \A s \in spaces, page \in Pages : Translate(mem', s, page) = Translate(mem, s, page)
        /\ \A page \in Pages :
             \/ Translate(mem', pa, page) = {}
             \/ Translate(mem', pa, page) = Translate(mem, BootPml4, page)
    <3> HIDE DEF D
    <3> QED BY <1>5 DEF Joins
  <2>2. HeapFrames(mem') = HeapFrames(mem) /\ OwnersKnown(mem', spaces, held)
    BY <1>2, <2>1, SameOwners
  <2>3. OwnersKnown(mem', spaces', held)
    <3>1. \A page \in Pages \ HeapPages : Translate(mem', pa, page) # {} =>
            page \in ClientPages /\ Translate(mem', pa, page) \subseteq held
      BY <1>2, <2>1 DEF OwnersKnown
    <3> QED BY <1>5, <2>2, <3>1 DEF OwnersKnown
  <2>4. CpuTypes' /\ HeapFirst' /\ TlbCoherent'
    <3>1. TlbCoherent' /\ DOMAIN tlb' \subseteq Pages
      BY <1>1, <1>2, <2>1, TlbKept
    <3>2. HeapFirst'
      BY <1>3, <2>1 DEF HeapFirst
    <3> QED BY <1>1, <1>5, <3>1, <3>2 DEF VmInv, CpuTypes
  <2> QED BY <1>1, <2>1, <2>2, <2>3, <2>4, VmInvNext
<1> QED BY <1>4, <1>5, CreateOutcome

(* A switch empties the TLB. *)
LEMMA SwitchKeepsInv ==
  ASSUME VmInv, NEW s \in spaces, vm_switch(s)
  PROVE  VmInv'
<1>1. /\ usable' = usable /\ held' = held /\ mem' = mem /\ pmm' = pmm
      /\ spaces' = spaces /\ access' = access /\ vm_in_fault' = vm_in_fault
      /\ cr3' = s /\ tlb' = <<>>
  BY DEF vm_switch
<1>2. DOMAIN tlb' = {}
  BY <1>1
<1>3. CpuTypes' /\ HeapFirst' /\ TlbCoherent'
  BY <1>1, <1>2 DEF VmInv, CpuTypes, HeapFirst, TlbCoherent
<1> QED BY <1>1, <1>3, VmInvNext DEF VmInv

(* An access begins. *)
LEMMA AccessKeepsInv ==
  ASSUME VmInv, NEW va \in VirtAddrs(Pages), NEW fetch \in BOOLEAN,
         NEW write \in Contents \cup {NoWrite}, Access(va, fetch, write)
  PROVE  VmInv'
<1>1. /\ usable' = usable /\ held' = held /\ mem' = mem /\ pmm' = pmm
      /\ spaces' = spaces /\ cr3' = cr3 /\ tlb' = tlb /\ vm_in_fault' = vm_in_fault
      /\ access = NoAccess
      /\ access' = [va |-> va, fetch |-> fetch, write |-> write]
  BY DEF Access, Running
<1>2. access' \in [va : VirtAddrs(Pages), fetch : BOOLEAN,
                   write : Contents \cup {NoWrite}]
  BY <1>1
<1>3. CpuTypes' /\ HeapFirst' /\ TlbCoherent'
  BY <1>1, <1>2 DEF VmInv, CpuTypes, HeapFirst, TlbCoherent
<1> QED BY <1>1, <1>3, VmInvNext DEF VmInv

(* What the MMU finds for an access, in the TLB or in the tables, is the    *)
(* translation in the current space.                                        *)
LEMMA TargetMeaning ==
  ASSUME VmInv, access # NoAccess
  PROVE  /\ access \in [va : VirtAddrs(Pages), fetch : BOOLEAN,
                        write : Contents \cup {NoWrite}]
         /\ access.va \in VirtAddrs(Pages) /\ access.va.page \in Pages
         /\ Target = Translate(mem, cr3, access.va.page)
<1>1. access \in [va : VirtAddrs(Pages), fetch : BOOLEAN,
                  write : Contents \cup {NoWrite}]
  BY DEF VmInv, CpuTypes
<1>2. access.va \in VirtAddrs(Pages) /\ access.va.page \in Pages
  BY <1>1 DEF VirtAddrs
<1>3. Target = Translate(mem, cr3, access.va.page)
  BY DEF VmInv, TlbCoherent, Target
<1> QED BY <1>1, <1>2, <1>3

(* What a completed access comes to: it reads or writes the frame of its    *)
(* page, which is not a table, so no translation changes.                   *)
Completes(pa) ==
  /\ pa \in Phys /\ pa \notin AllTables(mem, spaces)
  /\ Target = {pa} /\ Translate(mem, cr3, access.va.page) = {pa}
  /\ tlb' = [x \in DOMAIN tlb \cup {access.va.page} |->
               IF x = access.va.page THEN pa ELSE tlb[x]]
  /\ IF access.write = NoWrite THEN mem' = mem ELSE mem'[pa] = access.write
  /\ \A x \in Phys \ {pa} : mem'[x] = mem[x]
  /\ \A s \in spaces, page \in Pages : Translate(mem', s, page) = Translate(mem, s, page)
  /\ Good(mem', pmm, spaces, HeapFrames(mem) \cup held)

LEMMA CompleteOutcome ==
  ASSUME VmInv, Complete
  PROVE  \E pa \in Phys : Completes(pa)
<1> DEFINE D == HeapFrames(mem) \cup held
           page == access.va.page
<1>1. Good(mem, pmm, spaces, D) /\ cr3 \in spaces
  BY DEF VmInv, CpuTypes
<1>2. /\ access.write \in Contents \cup {NoWrite} /\ page \in Pages
      /\ Target = Translate(mem, cr3, page)
  BY TargetMeaning DEF Complete
<1> HIDE DEF page
<1>3. PICK pa \in Target :
        /\ tlb' = [x \in DOMAIN tlb \cup {page} |-> IF x = page THEN pa ELSE tlb[x]]
        /\ mem' = IF access.write = NoWrite THEN mem
                  ELSE [mem EXCEPT ![pa] = access.write]
  BY DEF Complete, page
<1> HIDE DEF D
<1>4. pa \in Phys /\ pa \notin AllTables(mem, spaces)
  BY <1>1, <1>2, <1>3, TranslateData
<1>5. Translate(mem, cr3, page) = {pa}
  BY <1>2, <1>3, TranslateEntries
<1>6. CASE access.write = NoWrite
  BY <1>1, <1>2, <1>3, <1>4, <1>5, <1>6 DEF Completes, page, D
<1>7. CASE access.write # NoWrite
  <2>1. mem' = SetFrame(mem, pa, access.write) /\ access.write \in Contents
    BY <1>2, <1>3, <1>7 DEF SetFrame
  <2>2. /\ Good(mem', pmm, spaces, D)
        /\ mem'[pa] = access.write
        /\ \A y \in Phys \ {pa} : mem'[y] = mem[y]
        /\ \A s \in spaces, p2 \in Pages : Translate(mem', s, p2) = Translate(mem, s, p2)
    BY <1>1, <1>4, <2>1, DataWrite
  <2> QED BY <1>2, <1>3, <1>4, <1>5, <1>7, <2>2 DEF Completes, page, D
<1> QED BY <1>6, <1>7

(* It completes through the TLB or the tables, and fills the TLB. *)
LEMMA CompleteKeepsInv ==
  ASSUME VmInv, Complete
  PROVE  VmInv'
<1> DEFINE D == HeapFrames(mem) \cup held
           page == access.va.page
<1>1. /\ usable' = usable /\ held' = held /\ pmm' = pmm /\ spaces' = spaces
      /\ cr3' = cr3 /\ vm_in_fault' = vm_in_fault
      /\ access # NoAccess /\ access' = NoAccess
  BY DEF Complete
<1>2. /\ Good(mem, pmm, spaces, D) /\ OwnersKnown(mem, spaces, held)
      /\ BootPml4 \in spaces /\ cr3 \in spaces /\ DOMAIN tlb \subseteq Pages /\ TlbCoherent
  BY DEF VmInv, Good, CpuTypes
<1>3. /\ access.write \in Contents \cup {NoWrite} /\ page \in Pages
      /\ Target = Translate(mem, cr3, page)
  BY <1>1, TargetMeaning
<1> HIDE DEF page
<1>4. PICK pa \in Phys : Completes(pa)
  BY CompleteOutcome
<1>6. /\ Good(mem', pmm, spaces, D)
      /\ mem'[BootPml4] = mem[BootPml4]
      /\ \A s \in spaces, p2 \in Pages : Translate(mem', s, p2) = Translate(mem, s, p2)
  <2>1. BootPml4 \in Phys \ {pa}
    BY <1>2, <1>4, Basics DEF AllTables, Completes
  <2> QED BY <1>4, <2>1 DEF Completes
<1>7. HeapFrames(mem') = HeapFrames(mem) /\ OwnersKnown(mem', spaces, held)
  BY <1>2, <1>6, SameOwners
<1>8. TlbCoherent' /\ DOMAIN tlb' \subseteq Pages
  <2>1. DOMAIN tlb' = DOMAIN tlb \cup {page}
    BY <1>4 DEF Completes, page
  <2>2. {pa} = Translate(mem, cr3, page)
    BY <1>4 DEF Completes, page
  <2>3. ASSUME NEW x \in DOMAIN tlb' PROVE {tlb'[x]} = Translate(mem', cr3', x)
    <3>1. x \in Pages
      BY <1>2, <1>3, <2>1
    <3>2. Translate(mem', cr3', x) = Translate(mem, cr3, x)
      BY <1>1, <1>2, <1>6, <3>1
    <3>3. tlb'[x] = IF x = page THEN pa ELSE tlb[x]
      BY <1>4, <2>1 DEF Completes, page
    <3> QED BY <1>2, <2>1, <2>2, <3>2, <3>3 DEF TlbCoherent
  <2> QED BY <1>2, <1>3, <2>1, <2>3 DEF TlbCoherent
<1>9. HeapFirst'
  <2>1. CASE Present(mem[BootPml4][HALF])
    BY <1>6, <2>1 DEF HeapFirst
  <2>2. CASE page \in HeapPages
    <3>1. Present(E1(mem, cr3, page))
      BY <1>4, TranslateEntries DEF Reaches, Completes, page
    <3>2. E1(mem, cr3, page) = mem[BootPml4][HALF]
      <4> HIDE DEF D
      <4> QED BY <1>2, <2>2, HeapShared
    <3> QED BY <1>6, <3>1, <3>2 DEF HeapFirst
  <2> QED BY <2>1, <2>2 DEF VmInv, HeapFirst, page
<1>10. CpuTypes'
  BY <1>1, <1>8 DEF VmInv, CpuTypes
<1> QED BY <1>1, <1>6, <1>7, <1>8, <1>9, <1>10, VmInvNext

(* What a page fault comes to: the page shows a cleared frame that had no   *)
(* owner, or nothing is mapped and no frame is kept but for new tables.     *)
FaultMaps(h, pa, D) ==
  /\ h.handled = TRUE
  /\ access.va.page \in HeapPages
  /\ pa \in Phys \ {0} /\ pa \notin D
  /\ Good(h.mem, h.pmm, spaces, D \cup {pa})
  /\ Maps(mem, h.mem, spaces, D, cr3, access.va.page, pa)
  /\ h.mem[pa] = Zero

FaultFails(h, D) ==
  /\ h.handled = FALSE
  /\ Good(h.mem, h.pmm, spaces, D)
  /\ \A s \in spaces, page \in Pages : Translate(h.mem, s, page) = Translate(mem, s, page)
  /\ \A t \in spaces, i \in Index : mem[t][i] # 0 => h.mem[t][i] = mem[t][i]
  /\ access.va.page \in HeapPages =>
       \A t \in spaces, i \in Index : i # access.va.page[1] => h.mem[t][i] = mem[t][i]
  /\ access.va.page \notin HeapPages => h.mem = mem /\ h.pmm = pmm

(* A page fault either fails, with its frame given back, or maps one page of *)
(* the heap.                                                                 *)
LEMMA FaultOutcome ==
  ASSUME VmInv, access # NoAccess,
         NEW h \in vm_handle_page_fault(access.va, access.fetch)
  PROVE  LET D == HeapFrames(mem) \cup held
         IN  FaultFails(h, D) \/ \E pa \in Phys : FaultMaps(h, pa, D)
<1> DEFINE D == HeapFrames(mem) \cup held
           r == pmm_alloc_frame(pmm)
           va == [access.va EXCEPT !.off = 0]
           page == access.va.page
<1>1. Good(mem, pmm, spaces, D) /\ PmmInv(pmm) /\ cr3 \in spaces
  BY DEF VmInv, Good, CpuTypes
<1>2. va \in VirtAddrs(Pages) /\ va.page = page /\ page \in Pages
  <2>1. access.va \in VirtAddrs(Pages)
    BY TargetMeaning
  <2> QED BY <2>1 DEF VirtAddrs
<1>3. CASE h = Unhandled
  BY <1>1, <1>3 DEF Unhandled, FaultFails
<1>4. CASE ~(RefusesFault(access.va, access.fetch) \/ r.pa = 0)
  <2> DEFINE m == SetFrame(mem, r.pa, Zero)
  <2>1. /\ PmmInv(r.pmm)
        /\ r.pa \in Phys \ {0} /\ ~Used(pmm, r.pa)
        /\ \A pa \in Phys : Used(r.pmm, pa) <=> Used(pmm, pa) \/ pa = r.pa
    BY <1>1, <1>4, AllocFresh
  <2>2. PICK q \in vm_map(m, r.pmm, cr3, va, r.pa) :
          h = [handled |-> q.ok, mem |-> q.mem,
               pmm |-> IF q.ok THEN q.pmm ELSE pmm_free_frame(q.pmm, r.pa)]
    BY <1>4 DEF vm_handle_page_fault, SetFrame
  <2>3. page \in HeapPages
    BY <1>4 DEF RefusesFault
  <2> HIDE DEF r, D, va, page
  <2>4. r.pa \notin AllTables(mem, spaces) /\ r.pa \notin D
    BY <1>1, <2>1, FreshUnknown
  <2>5. /\ Good(m, pmm, spaces, D) /\ m[r.pa] = Zero
        /\ \A y \in Phys \ {r.pa} : m[y] = mem[y]
        /\ \A s \in spaces, p2 \in Pages : Translate(m, s, p2) = Translate(mem, s, p2)
        /\ Targets(m, L3(m, spaces)) = Targets(mem, L3(mem, spaces))
    <3>1. r.pa \in Phys /\ Zero \in Contents
      BY <2>1, Basics
    <3> QED BY <1>1, <2>4, <3>1, DataWrite
  <2> HIDE DEF m
  <2>6. Good(m, r.pmm, spaces, D \cup {r.pa})
    BY <2>1, <2>5, TakeData
  <2>7. /\ q.ok \in BOOLEAN
        /\ Good(q.mem, q.pmm, spaces, D \cup {r.pa})
        /\ ~q.ok => /\ Grows(m, q.mem, spaces, D \cup {r.pa})
                    /\ \A t \in spaces, i \in Index :
                         t # cr3 \/ i # page[1] => q.mem[t][i] = m[t][i]
        /\ q.ok => Maps(m, q.mem, spaces, D \cup {r.pa}, cr3, page, r.pa)
    <3>1. r.pa \in D \cup {r.pa}
      OBVIOUS
    <3> QED BY <1>1, <1>2, <2>6, <3>1, MapGood DEF MapFails
  <2>8. D \subseteq Phys \ {r.pa} /\ spaces \subseteq Phys \ {r.pa}
    BY <1>1, <2>4 DEF Good, Owned, Forest, AllTables
  <2>9. CASE q.ok
    <3>1. Maps(mem, q.mem, spaces, D, cr3, page, r.pa)
      <4>1. \A x \in D : q.mem[x] = mem[x]
        BY <2>5, <2>7, <2>8, <2>9 DEF Maps
      <4>2. \A t \in spaces, i \in Index : mem[t][i] # 0 => q.mem[t][i] = mem[t][i]
        BY <2>5, <2>7, <2>8, <2>9 DEF Maps
      <4>3. Translate(mem, cr3, page) = {}
        BY <1>1, <1>2, <2>5, <2>7, <2>9 DEF Maps
      <4>4. \A s \in spaces, p2 \in Pages :
              \/ Translate(q.mem, s, p2) = Translate(mem, s, p2)
              \/ p2 = page /\ Translate(q.mem, s, p2) = {r.pa}
        BY <2>5, <2>7, <2>9 DEF Maps
      <4>5. \A t \in spaces, i \in Index :
              t # cr3 \/ i # page[1] => q.mem[t][i] = mem[t][i]
        BY <2>5, <2>7, <2>8, <2>9 DEF Maps
      <4>6. mem[cr3][page[1]] = 0 =>
              \A s \in spaces \ {cr3} : Translate(q.mem, s, page) = Translate(mem, s, page)
        BY <1>1, <1>2, <2>5, <2>7, <2>8, <2>9 DEF Maps
      <4> QED BY <2>7, <2>9, <4>1, <4>2, <4>3, <4>4, <4>5, <4>6 DEF Maps
    <3>2. q.mem[r.pa] = Zero
      BY <2>5, <2>7, <2>9 DEF Maps
    <3>3. h.handled = TRUE /\ h.mem = q.mem /\ h.pmm = q.pmm
      BY <2>2, <2>7, <2>9
    <3>4. FaultMaps(h, r.pa, D)
      BY <2>1, <2>3, <2>4, <2>7, <3>1, <3>2, <3>3 DEF FaultMaps, page
    <3> QED BY <2>1, <3>4 DEF D
  <2>10. CASE ~q.ok
    <3> DEFINE E == D \cup {r.pa}
    <3>1. r.pa \notin Targets(q.mem, L3(q.mem, spaces))
      <4>1. Targets(q.mem, L3(q.mem, spaces)) = Targets(mem, L3(mem, spaces))
        BY <2>5, <2>7, <2>10 DEF Grows
      <4>2. Targets(mem, L3(mem, spaces)) \subseteq D
        BY <1>1 DEF Good, Owned
      <4> QED BY <2>4, <4>1, <4>2
    <3>2. Good(q.mem, pmm_free_frame(q.pmm, r.pa), spaces, E \ {r.pa})
      <4>1. Good(q.mem, q.pmm, spaces, E) /\ r.pa \in E
        BY <2>7
      <4> HIDE DEF E
      <4> QED BY <3>1, <4>1, GiveData
    <3>3. E \ {r.pa} = D
      BY <2>4
    <3>4. h.handled = FALSE /\ h.mem = q.mem /\ h.pmm = pmm_free_frame(q.pmm, r.pa)
      BY <2>2, <2>7, <2>10
    <3>5. \A s \in spaces, p2 \in Pages : Translate(h.mem, s, p2) = Translate(mem, s, p2)
      BY <2>5, <2>7, <2>10, <3>4 DEF Grows
    <3>6. \A t \in spaces, i \in Index : mem[t][i] # 0 => h.mem[t][i] = mem[t][i]
      <4>1. \A t \in spaces : t \in AllTables(m, spaces) /\ m[t] = mem[t]
        BY <2>5, <2>8 DEF AllTables
      <4> QED BY <2>7, <2>10, <3>4, <4>1 DEF Grows
    <3>7. \A t \in spaces, i \in Index : i # page[1] => h.mem[t][i] = mem[t][i]
      BY <2>5, <2>7, <2>8, <2>10, <3>4
    <3>8. FaultFails(h, D)
      <4> HIDE DEF E
      <4> QED BY <2>3, <3>2, <3>3, <3>4, <3>5, <3>6, <3>7 DEF FaultFails, page
    <3> QED BY <3>8 DEF D
  <2> QED BY <2>7, <2>9, <2>10
<1> QED BY <1>3, <1>4 DEF vm_handle_page_fault

(* The same for the whole step. *)
LEMMA PageFaultOutcome ==
  ASSUME VmInv, PageFault
  PROVE  LET D == HeapFrames(mem) \cup held
         IN  \E h \in vm_handle_page_fault(access.va, access.fetch) :
               /\ mem' = h.mem /\ pmm' = h.pmm /\ halted' = ~h.handled
               /\ vm_faults' = IF h.handled THEN vm_faults + 1 ELSE vm_faults
               /\ tlb' = IF h.handled THEN vm_invlpg(tlb, access.va.page) ELSE tlb
               /\ FaultFails(h, D) \/ \E pa \in Phys : FaultMaps(h, pa, D)
  BY FaultOutcome DEF PageFault

(* Either way the instruction can be retried or the machine stops. *)
LEMMA PageFaultKeepsInv ==
  ASSUME VmInv, PageFault
  PROVE  VmInv'
<1> DEFINE D == HeapFrames(mem) \cup held
           page == access.va.page
<1>1. /\ usable' = usable /\ held' = held /\ spaces' = spaces
      /\ cr3' = cr3 /\ access' = access /\ access # NoAccess
  BY DEF PageFault
<1>2. /\ Good(mem, pmm, spaces, D) /\ OwnersKnown(mem, spaces, held)
      /\ BootPml4 \in spaces /\ cr3 \in spaces /\ DOMAIN tlb \subseteq Pages /\ TlbCoherent
  BY DEF VmInv, Good, CpuTypes
<1>3. PICK h \in vm_handle_page_fault(access.va, access.fetch) :
        /\ mem' = h.mem /\ pmm' = h.pmm
        /\ tlb' = IF h.handled THEN vm_invlpg(tlb, page) ELSE tlb
        /\ FaultFails(h, D) \/ \E pa \in Phys : FaultMaps(h, pa, D)
  BY PageFaultOutcome
<1>5. vm_in_fault' = FALSE
  BY DEF PageFault, VmInv, CpuTypes
<1>6. ASSUME \A t \in spaces, i \in Index : mem[t][i] # 0 => mem'[t][i] = mem[t][i]
      PROVE  HeapFirst'
  <2>1. Present(mem[BootPml4][HALF]) => Present(mem'[BootPml4][HALF])
    BY <1>2, <1>6, Basics DEF Present
  <2> QED BY <1>1, <2>1 DEF VmInv, HeapFirst
<1>7. CASE FaultFails(h, D)
  <2>1. /\ Good(mem', pmm', spaces, D) /\ tlb' = tlb
        /\ \A s \in spaces, p2 \in Pages : Translate(mem', s, p2) = Translate(mem, s, p2)
        /\ \A t \in spaces, i \in Index : mem[t][i] # 0 => mem'[t][i] = mem[t][i]
    BY <1>3, <1>7 DEF FaultFails
  <2>2. HeapFrames(mem') = HeapFrames(mem) /\ OwnersKnown(mem', spaces, held)
    BY <1>2, <2>1, SameOwners
  <2>3. TlbCoherent' /\ DOMAIN tlb' \subseteq Pages
    BY <1>1, <1>2, <2>1, TlbKept
  <2>4. CpuTypes'
    BY <1>1, <1>5, <2>3 DEF VmInv, CpuTypes
  <2> QED BY <1>1, <1>6, <2>1, <2>2, <2>3, <2>4, VmInvNext
<1>8. ASSUME NEW pa \in Phys, FaultMaps(h, pa, D)
      PROVE  VmInv'
  <2>1. /\ page \in HeapPages /\ pa \notin D
        /\ Good(mem', pmm', spaces, D \cup {pa})
        /\ Maps(mem, mem', spaces, D, cr3, page, pa)
        /\ tlb' = vm_invlpg(tlb, page)
    BY <1>3, <1>8 DEF FaultMaps
  <2> HIDE DEF page
  <2>2. page \in Pages /\ \A p2 \in HeapPages : p2 \in Pages
    BY <2>1, VmAssumption
  <2>3. TlbCoherent' /\ DOMAIN tlb' \subseteq Pages
    <3>1. \A p2 \in Pages \ {page} : Translate(mem', cr3, p2) = Translate(mem, cr3, p2)
      BY <1>2, <2>1 DEF Maps
    <3> QED BY <1>1, <1>2, <2>1, <3>1, TlbInvalidated
  <2>4. CpuTypes'
    BY <1>1, <1>5, <2>3 DEF VmInv, CpuTypes
  <2>5. HeapFirst'
    BY <1>6, <2>1 DEF Maps
  <2>6. Translate(mem', BootPml4, page) = {pa}
    <3>1. E1(mem', BootPml4, page) = E1(mem', cr3, page)
      <4> HIDE DEF D
      <4> QED BY <1>2, <2>1, HeapShared
    <3> QED BY <1>2, <2>1, <3>1 DEF Maps
  <2>7. Translate(mem, BootPml4, page) = {}
    <3>1. Translate(mem, cr3, page) = Translate(mem, BootPml4, page)
      <4> HIDE DEF D
      <4> QED BY <1>2, <2>1, HeapShared
    <3> QED BY <2>1, <3>1 DEF Maps
  <2>8. \A p2 \in HeapPages : p2 # page =>
          Translate(mem', BootPml4, p2) = Translate(mem, BootPml4, p2)
    BY <1>2, <2>1, <2>2 DEF Maps
  <2>9. HeapFrames(mem') = HeapFrames(mem) \cup {pa}
    BY <2>1, <2>6, <2>7, <2>8 DEF HeapFrames
  <2>10. OwnersKnown(mem', spaces, held)
    <3>1. HeapFrames(mem') \cap held = {}
      BY <1>2, <2>1, <2>9 DEF OwnersKnown
    <3>2. \A p2 \in HeapPages : pa \notin Translate(mem, BootPml4, p2)
      BY <2>1 DEF HeapFrames
    <3>3. ASSUME NEW p1 \in HeapPages, NEW p2 \in HeapPages, p1 # p2
          PROVE  Translate(mem', BootPml4, p1) \cap Translate(mem', BootPml4, p2) = {}
      <4>1. Translate(mem, BootPml4, p1) \cap Translate(mem, BootPml4, p2) = {}
        BY <1>2, <3>3 DEF OwnersKnown
      <4> QED BY <2>6, <2>8, <3>2, <3>3, <4>1
    <3>4. \A s \in spaces, p2 \in Pages \ HeapPages :
            Translate(mem', s, p2) = Translate(mem, s, p2)
      BY <2>1 DEF Maps
    <3>5. \A s \in spaces, p2 \in Pages \ HeapPages : Translate(mem', s, p2) # {} =>
            p2 \in ClientPages /\ Translate(mem', s, p2) \subseteq held
      BY <1>2, <3>4 DEF OwnersKnown
    <3> QED BY <3>1, <3>3, <3>5 DEF OwnersKnown
  <2>11. HeapFrames(mem') \cup held' = D \cup {pa}
    BY <1>1, <2>9
  <2> QED BY <1>1, <2>1, <2>3, <2>4, <2>5, <2>10, <2>11, VmInvNext
<1> QED BY <1>3, <1>7, <1>8

(* Every step keeps the invariant. *)
LEMMA VmNextInv == VmInv /\ [VmNext]_vmVars => VmInv'
<1> SUFFICES ASSUME VmInv, [VmNext]_vmVars PROVE VmInv'
  OBVIOUS
<1>1. CASE Alloc
  BY <1>1, FrameTaken DEF Alloc, OnlyFrames
<1>2. ASSUME NEW pa \in held, Free(pa) PROVE VmInv'
  BY <1>2, FrameGiven DEF Free, OnlyFrames
<1>3. ASSUME NEW s \in spaces, NEW va \in VirtAddrs(ClientPages),
             NEW pa \in held \cup BadPas, NEW ok \in BOOLEAN, Map(s, va, pa, ok)
      PROVE  VmInv'
  BY <1>3, MapKeepsInv
<1>4. ASSUME NEW s \in spaces, NEW va \in VirtAddrs(ClientPages), NEW pa \in Answers,
             Unmap(s, va, pa)
      PROVE  VmInv'
  BY <1>4, UnmapKeepsInv
<1>5. ASSUME NEW pa \in Answers, vm_create_space(pa) PROVE VmInv'
  BY <1>5, CreateKeepsInv
<1>6. ASSUME NEW s \in spaces, vm_switch(s) PROVE VmInv'
  BY <1>6, SwitchKeepsInv
<1>7. ASSUME NEW va \in VirtAddrs({page \in HeapPages \cup ClientPages : ~Low(page)}),
             NEW fetch \in BOOLEAN, Access(va, fetch, IF fetch THEN NoWrite ELSE Dirty)
      PROVE  VmInv'
  <2>1. va \in VirtAddrs(Pages)
    BY VmAssumption DEF VirtAddrs
  <2>2. (IF fetch THEN NoWrite ELSE Dirty) \in Contents \cup {NoWrite}
    BY Basics
  <2> QED BY <1>7, <2>1, <2>2, AccessKeepsInv
<1>8. CASE Complete
  BY <1>8, CompleteKeepsInv
<1>9. CASE PageFault
  BY <1>9, PageFaultKeepsInv
<1>10. CASE UNCHANGED vmVars
  <2>1. /\ usable' = usable /\ held' = held /\ mem' = mem /\ pmm' = pmm
        /\ spaces' = spaces /\ cr3' = cr3 /\ tlb' = tlb /\ access' = access
        /\ vm_in_fault' = vm_in_fault
    BY <1>10 DEF vmVars
  <2>2. CpuTypes' /\ HeapFirst' /\ TlbCoherent'
    BY <2>1 DEF VmInv, CpuTypes, HeapFirst, TlbCoherent
  <2> QED BY <2>1, <2>2, VmInvNext DEF VmInv
<1> QED BY <1>1, <1>2, <1>3, <1>4, <1>5, <1>6, <1>7, <1>8, <1>9, <1>10 DEF VmNext

-----------------------------------------------------------------------------
(* The initial state. *)

(* Sets with a one-to-one map between them have the same size. *)
LEMMA SameSize ==
  ASSUME NEW A, NEW B, IsFiniteSet(A), NEW g \in [A -> B],
         \A x, y \in A : g[x] = g[y] => x = y,
         \A z \in B : \E x \in A : g[x] = z
  PROVE  IsFiniteSet(B) /\ Cardinality(B) = Cardinality(A)
<1>1. g \in Injection(A, B)
  BY DEF Injection, IsInjective
<1>2. g \in Surjection(A, B)
  BY DEF Surjection
<1>3. ExistsBijection(A, B)
  BY <1>1, <1>2 DEF ExistsBijection, Bijection
<1> QED BY <1>3, FS_Bijection

(* As many bits are clear as there are usable frames. *)
LEMMA BootCount ==
  ASSUME NEW U \in SUBSET Phys, NEW p, ClearFrames(p) = {f \in Frames : f * PMM_FRAME_SIZE \in U}
  PROVE  Cardinality(ClearFrames(p)) = Cardinality(U)
<1> DEFINE C == ClearFrames(p)
           g == [f \in C |-> f * PMM_FRAME_SIZE]
<1>1. IsFiniteSet(C)
  BY ClearFinite
<1>2. \A f \in C : f \in Frames /\ f * PMM_FRAME_SIZE \in U
  OBVIOUS
<1>3. \A f1, f2 \in C : f1 * PMM_FRAME_SIZE = f2 * PMM_FRAME_SIZE => f1 = f2
  BY <1>2, FrameOfAddr
<1>4. \A u \in U : \E f \in C : f * PMM_FRAME_SIZE = u
  BY DEF Phys
<1> HIDE DEF C
<1>5. /\ g \in [C -> U]
      /\ \A x, y \in C : g[x] = g[y] => x = y
      /\ \A z \in U : \E x \in C : g[x] = z
  BY <1>2, <1>3, <1>4
<1> HIDE DEF g
<1> QED BY <1>1, <1>5, SameSize DEF C

(* The tables of boot.asm. *)
LEMMA VmInitInv ==
  ASSUME VmInit
  PROVE  /\ VmInv
         /\ \A page \in Pages : Translate(mem, BootPml4, page) = {}
         /\ \A i \in Index \ {0} : mem[BootPml4][i] = 0
<1> DEFINE Pml4 == [Zero EXCEPT ![0] = BootPdpt]
           Pdpt == [Zero EXCEPT ![0] = BootPd]
           Huge == [i \in Index |-> HUGE]
           S == {BootPml4}
<1>1. /\ usable \in Memories /\ usable \subseteq Phys \ ({0} \cup BootTables)
      /\ held = {} /\ spaces = S /\ cr3 = BootPml4 /\ tlb = <<>> /\ vm_in_fault = FALSE
  BY VmAssumption DEF VmInit
<1>2. /\ Pml4 \in Contents /\ Pdpt \in Contents /\ Huge \in Contents
      /\ \A i \in Index : Pml4[i] = IF i = 0 THEN BootPdpt ELSE 0
      /\ \A i \in Index : Pdpt[i] = IF i = 0 THEN BootPd ELSE 0
      /\ \A i \in Index : Huge[i] = HUGE
  BY Basics DEF Zero, Contents, HUGE
<1>3. mem = [pa \in Phys |-> IF pa = BootPml4 THEN Pml4
                             ELSE IF pa = BootPdpt THEN Pdpt
                             ELSE IF pa = BootPd THEN Huge ELSE Dirty]
  BY DEF VmInit
<1> HIDE DEF Pml4, Pdpt, Huge
<1>4. mem \in Memory /\ mem[BootPml4] = Pml4 /\ mem[BootPdpt] = Pdpt /\ mem[BootPd] = Huge
  BY <1>2, <1>3, Basics DEF Memory
<1>5. PmmInv(pmm)
  <2>1. pmm = [bitmap |-> [f \in Frames |->
                             IF f * PMM_FRAME_SIZE \in usable THEN 0 ELSE 1],
               free_frames |-> Cardinality(usable), hint |-> 0]
    BY DEF VmInit
  <2>2. /\ pmm.bitmap \in [Frames -> {0, 1}]
        /\ \A f \in Frames : pmm.bitmap[f] = 0 <=> f * PMM_FRAME_SIZE \in usable
        /\ pmm.free_frames = Cardinality(usable) /\ pmm.hint = 0
        /\ pmm = [bitmap |-> pmm.bitmap, free_frames |-> pmm.free_frames, hint |-> pmm.hint]
    BY <2>1
  <2>3. ClearFrames(pmm) = {f \in Frames : f * PMM_FRAME_SIZE \in usable}
    BY <2>2 DEF ClearFrames
  <2>4. usable \in SUBSET Phys
    BY <1>1
  <2>5. pmm.free_frames = Cardinality(ClearFrames(pmm))
    BY <2>2, <2>3, <2>4, BootCount
  <2>6. pmm.free_frames \in 0 .. PMM_FRAME_COUNT /\ 0 \in 0 .. PMM_FRAME_COUNT
    BY <2>5, ClearFinite, FrameCountAssumption
  <2>7. 0 \notin ClearFrames(pmm)
    <3>1. 0 * PMM_FRAME_SIZE = 0
      BY DEF PMM_FRAME_SIZE
    <3> QED BY <1>1, <2>3, <3>1
  <2>8. \A f \in Frames : ~(f < 0)
    BY FrameCountAssumption DEF Frames
  <2> QED BY <2>2, <2>5, <2>6, <2>7, <2>8 DEF PmmInv, PmmType
<1>6. /\ Present(BootPdpt) /\ Present(BootPd) /\ ~Present(0) /\ ~Present(HUGE)
  BY Basics DEF Present
<1>7. L1(mem, S) = {BootPdpt}
  <2>1. ASSUME NEW x PROVE x \in L1(mem, S) <=> x = BootPdpt
    BY <1>2, <1>4, <1>6, TargetsMember, Basics DEF L1
  <2> QED BY <2>1
<1>8. L2(mem, S) = {BootPd}
  <2>1. ASSUME NEW x PROVE x \in L2(mem, S) <=> x = BootPd
    <3>1. L2(mem, S) = Targets(mem, {BootPdpt})
      BY <1>7 DEF L2
    <3>2. x \in Targets(mem, {BootPdpt}) <=>
            Present(x) /\ \E t \in {BootPdpt}, i \in Index : mem[t][i] = x
      BY TargetsMember
    <3> QED BY <1>2, <1>4, <1>6, <3>1, <3>2, Basics
  <2> QED BY <2>1
<1>9. L3(mem, S) = {}
  <2>1. ASSUME NEW x PROVE x \notin L3(mem, S)
    <3>1. L3(mem, S) = Targets(mem, {BootPd})
      BY <1>8 DEF L3
    <3>2. x \in Targets(mem, {BootPd}) <=>
            Present(x) /\ \E t \in {BootPd}, i \in Index : mem[t][i] = x
      BY TargetsMember
    <3> QED BY <1>2, <1>4, <1>6, <3>1, <3>2
  <2> QED BY <2>1
<1>10. AllTables(mem, S) = {BootPml4, BootPdpt, BootPd} /\ Targets(mem, L3(mem, S)) = {}
  BY <1>7, <1>8, <1>9, TargetsMember DEF AllTables
<1>11. Forest(mem, S)
  <2>1. SharedInPlace(mem, S)
    BY <1>2, <1>4, <1>6 DEF SharedInPlace
  <2>2. LinkedOnce(mem, L1(mem, S))
    BY <1>2, <1>4, <1>6, <1>7 DEF LinkedOnce
  <2>3. LinkedOnce(mem, L2(mem, S))
    BY <1>2, <1>4, <1>6, <1>8 DEF LinkedOnce
  <2>4. AllTables(mem, S) \subseteq Phys \ {0}
    BY <1>10, Basics
  <2> QED BY <1>7, <1>8, <1>9, <2>1, <2>2, <2>3, <2>4, Basics DEF Forest
<1>12. \A s \in S, page \in Pages : Translate(mem, s, page) = {}
  <2>1. \A s \in S, page \in Pages : ~Reaches(mem, s, page)
    BY <1>9, PathLevels
  <2> QED BY <2>1, TranslateEntries
<1>13. HeapFrames(mem) = {}
  <2>1. \A page \in HeapPages : page \in Pages
    BY VmAssumption
  <2> QED BY <1>12, <2>1 DEF HeapFrames
<1>14. Owned(mem, pmm, S, {})
  <2>1. ASSUME NEW pa \in Phys
        PROVE  Used(pmm, pa) <=> pa \notin usable
    <3>1. PICK f \in Frames : pa = f * PMM_FRAME_SIZE
      BY DEF Phys
    <3>2. pa \div PMM_FRAME_SIZE = f
      BY <3>1, FrameOfAddr
    <3>3. pmm.bitmap = [x \in Frames |-> IF x * PMM_FRAME_SIZE \in usable THEN 0 ELSE 1]
      BY DEF VmInit
    <3> QED BY <3>1, <3>2, <3>3 DEF Used
  <2>2. \A pa \in AllTables(mem, S) : pa \notin usable
    BY <1>1, <1>10 DEF BootTables
  <2> QED BY <1>10, <2>1, <2>2 DEF Owned
<1>15. BootMap(mem, S)
  <2>1. \A t \in {BootPml4, BootPdpt}, i \in Index : mem[t][i] # HUGE
    BY <1>2, <1>4, Basics
  <2> QED BY <1>2, <1>4, <1>10, <2>1, Basics DEF BootMap
<1>16. HalfShared(mem, S)
  BY DEF HalfShared
<1>17. Good(mem, pmm, spaces, HeapFrames(mem) \cup held)
  <2>1. HeapFrames(mem) \cup held = {} /\ BootPml4 \in S
    BY <1>1, <1>13
  <2> HIDE DEF S
  <2> QED BY <1>1, <1>4, <1>5, <1>11, <1>14, <1>15, <1>16, <2>1 DEF Good
<1>18. OwnersKnown(mem, spaces, held)
  <2>1. \A page \in HeapPages : Translate(mem, BootPml4, page) = {}
    BY <1>12, VmAssumption
  <2> QED BY <1>1, <1>12, <1>13, <2>1 DEF OwnersKnown
<1>19. access \in [va : VirtAddrs(Pages), fetch : BOOLEAN,
                   write : Contents \cup {NoWrite}]
       /\ access # NoAccess /\ access.va.page = FirstHeapPage
  <2>1. access = [va |-> [page |-> FirstHeapPage, off |-> 0], fetch |-> FALSE,
                  write |-> Dirty]
    BY DEF VmInit
  <2>2. [page |-> FirstHeapPage, off |-> 0] \in VirtAddrs(Pages)
    BY VmAssumption DEF VirtAddrs
  <2>3. access # NoAccess
    BY <2>1 DEF NoAccess
  <2> QED BY <2>1, <2>2, <2>3, Basics
<1>20. DOMAIN tlb = {}
  BY <1>1
<1>21. CpuTypes /\ HeapFirst /\ TlbCoherent
  BY <1>1, <1>19, <1>20, VmAssumption DEF CpuTypes, HeapFirst, TlbCoherent
<1> QED BY <1>2, <1>4, <1>12, <1>17, <1>18, <1>21 DEF VmInv

-----------------------------------------------------------------------------
(* Results. *)

(* The tables form a forest of frames of their own, every used frame has an *)
(* owner, all spaces share the heap's tables, and the TLB is coherent.      *)
THEOREM VmInvariant == VmSpec => []VmInv
<1>1. VmInit => VmInv
  BY VmInitInv
<1>2. VmInv /\ [VmNext]_vmVars => VmInv'
  BY VmNextInv
<1> QED BY <1>1, <1>2, PTL DEF VmSpec

(* vm_map, vm_unmap, vm_switch and the fault handler invalidate enough: the *)
(* CPU never holds a translation the current tables do not give.            *)
THEOREM VmTlb == VmSpec => []TlbCoherent
  BY VmInvariant, PTL DEF VmInv

(* There are as many heap frames as mapped heap pages. *)
LEMMA HeapSize ==
  ASSUME VmInv
  PROVE  Cardinality(HeapFrames(mem)) = Cardinality(MappedHeap)
<1> DEFINE page_of == [pa \in HeapFrames(mem) |->
                         CHOOSE page \in MappedHeap : E4(mem, BootPml4, page) = pa]
<1>1. \A page \in MappedHeap :
        /\ page \in HeapPages
        /\ Translate(mem, BootPml4, page) = {E4(mem, BootPml4, page)}
  BY TranslateEntries DEF MappedHeap, HeapFrame
<1>2. \A page \in HeapPages : \A pa \in Translate(mem, BootPml4, page) :
        page \in MappedHeap /\ E4(mem, BootPml4, page) = pa
  BY TranslateEntries DEF MappedHeap, HeapFrame
<1>3. \A pa \in HeapFrames(mem) : \E page \in MappedHeap : E4(mem, BootPml4, page) = pa
  BY <1>2 DEF HeapFrames
<1>4. \A page \in MappedHeap : E4(mem, BootPml4, page) \in HeapFrames(mem)
  BY <1>1 DEF HeapFrames
<1>5. \A p1, p2 \in MappedHeap : E4(mem, BootPml4, p1) = E4(mem, BootPml4, p2) => p1 = p2
  BY <1>1 DEF VmInv, OwnersKnown
<1>6. IsFiniteSet(HeapFrames(mem))
  <2>1. IsFiniteSet(Phys)
    <3>1. IsFiniteSet(Frames)
      BY FS_Interval, FrameCountAssumption DEF Frames
    <3>2. [f \in Frames |-> f * PMM_FRAME_SIZE] \in [Frames -> Phys]
      BY DEF Phys
    <3>3. \A x, y \in Frames : x * PMM_FRAME_SIZE = y * PMM_FRAME_SIZE => x = y
      BY FrameOfAddr
    <3> DEFINE g == [f \in Frames |-> f * PMM_FRAME_SIZE]
    <3>4. /\ \A x, y \in Frames : g[x] = g[y] => x = y
          /\ \A z \in Phys : \E x \in Frames : g[x] = z
      BY <3>3 DEF Phys
    <3>5. g \in [Frames -> Phys]
      BY <3>2
    <3> HIDE DEF g
    <3> QED BY <3>1, <3>4, <3>5, SameSize
  <2>2. HeapFrames(mem) \in SUBSET Phys
    BY DEF VmInv, Good, Owned
  <2> QED BY <2>1, <2>2, FS_Subset
<1>7. /\ page_of \in [HeapFrames(mem) -> MappedHeap]
      /\ \A pa \in HeapFrames(mem) : E4(mem, BootPml4, page_of[pa]) = pa
  BY <1>3
<1> HIDE DEF page_of
<1>8. \A x, y \in HeapFrames(mem) : page_of[x] = page_of[y] => x = y
  BY <1>7
<1>9. \A page \in MappedHeap : \E pa \in HeapFrames(mem) : page_of[pa] = page
  <2>1. ASSUME NEW page \in MappedHeap
        PROVE  page_of[E4(mem, BootPml4, page)] = page
    BY <1>4, <1>5, <1>7
  <2> QED BY <1>4, <2>1
<1> QED BY <1>6, <1>7, <1>8, <1>9, SameSize

(* The invariant gives every frame its owner. *)
LEMMA InvFrames == VmInv => FramesAccounted
<1> SUFFICES ASSUME VmInv PROVE FramesAccounted
  OBVIOUS
<1> DEFINE heap == UNION {HeapFrame(page) : page \in HeapPages}
           levels == <<spaces, Pdpts, Pds, Pts, heap, held>>
<1>1. heap = HeapFrames(mem)
  BY DEF HeapFrame, HeapFrames
<1>2. /\ Pdpts = L1(mem, spaces) /\ Pds = L2(mem, spaces) /\ Pts = L3(mem, spaces)
      /\ Tables = AllTables(mem, spaces)
  BY DEF Pdpts, Pds, Pts, Tables, L1, L2, L3, AllTables
<1>3. Forest(mem, spaces) /\ Owned(mem, pmm, spaces, heap \cup held)
  BY <1>1 DEF VmInv, Good
<1>4. heap \cap held = {}
  BY <1>1 DEF VmInv, OwnersKnown
<1>5. Cardinality(heap) = Cardinality(MappedHeap)
  BY <1>1, HeapSize
<1> HIDE DEF heap
<1>6. {pa \in Phys : Used(pmm, pa)} = (Phys \ usable) \cup Tables \cup heap \cup held
  <2>1. heap \cup held \subseteq Phys /\ Tables \subseteq Phys
    BY <1>2, <1>3 DEF Forest, Owned
  <2>2. \A pa \in Phys : Used(pmm, pa) <=> pa \notin usable \/ pa \in Tables \cup (heap \cup held)
    BY <1>2, <1>3 DEF Owned
  <2> QED BY <2>1, <2>2
<1>7. Targets(mem, Pts) \subseteq heap \cup held
  BY <1>2, <1>3 DEF Owned
<1>8. /\ spaces \cap Pdpts = {} /\ spaces \cap Pds = {} /\ spaces \cap Pts = {}
      /\ Pdpts \cap Pds = {} /\ Pdpts \cap Pts = {} /\ Pds \cap Pts = {}
  BY <1>2, <1>3 DEF Forest
<1>9. /\ spaces \cap heap = {} /\ Pdpts \cap heap = {} /\ Pds \cap heap = {}
      /\ Pts \cap heap = {} /\ spaces \cap held = {} /\ Pdpts \cap held = {}
      /\ Pds \cap held = {} /\ Pts \cap held = {}
  BY <1>2, <1>3 DEF Owned, AllTables
<1>10. \A i, j \in 1 .. 6 : i # j => levels[i] \cap levels[j] = {}
  <2>1. ASSUME NEW i \in 1 .. 6, NEW j \in 1 .. 6, i < j
        PROVE  levels[i] \cap levels[j] = {}
    <3>1. CASE i = 1
      BY <1>8, <1>9, <2>1, <3>1
    <3>2. CASE i = 2
      BY <1>8, <1>9, <2>1, <3>2
    <3>3. CASE i = 3
      BY <1>8, <1>9, <2>1, <3>3
    <3>4. CASE i = 4
      BY <1>8, <1>9, <2>1, <3>4
    <3>5. CASE i = 5
      BY <1>4, <2>1, <3>5
    <3> QED BY <2>1, <3>1, <3>2, <3>3, <3>4, <3>5
  <2> HIDE DEF levels
  <2>2. ASSUME NEW i \in 1 .. 6, NEW j \in 1 .. 6, i # j
        PROVE  levels[i] \cap levels[j] = {}
    <3>1. i < j \/ j < i
      BY <2>2
    <3>2. levels[i] \cap levels[j] = levels[j] \cap levels[i]
      OBVIOUS
    <3> QED BY <2>1, <3>1, <3>2
  <2> QED BY <2>2
<1> QED BY <1>5, <1>6, <1>7, <1>10 DEF FramesAccounted, heap

(* Every used frame has one owner and one role, so no frame is lost or      *)
(* shared by accident, whatever fails half-way for lack of frames.          *)
THEOREM VmFrames == VmSpec => []FramesAccounted
  BY VmInvariant, InvFrames, PTL

(* Kernel code maps nothing in the kernel half outside the heap's PML4      *)
(* entry.                                                                   *)
NoFarPages == \A page \in ClientPages : page[1] >= HALF => page[1] = HALF

(* That entry is filled before a second space exists and copied into each.  *)
LEMMA InvKernelHalf ==
  ASSUME NoFarPages
  PROVE  VmInv => KernelHalfShared
<1> SUFFICES ASSUME VmInv, NEW s \in spaces, NEW page \in HeapPages \cup ClientPages,
                    page[1] >= HALF
             PROVE  Translate(mem, s, page) = Translate(mem, BootPml4, page)
  BY DEF KernelHalfShared
<1>1. page[1] = HALF
  BY VmAssumption DEF NoFarPages
<1>2. E1(mem, s, page) = E1(mem, BootPml4, page)
  BY <1>1 DEF E1, VmInv, Good, HalfShared
<1> QED BY <1>2, TranslateEntries DEF Reaches, E2, E3, E4

(* "All address spaces share its kernel mappings" holds as long as kernel   *)
(* code maps nothing in the kernel half outside the heap's PML4 entry.      *)
THEOREM VmKernelHalf ==
  ASSUME NoFarPages
  PROVE  VmSpec => []KernelHalfShared
<1>1. VmInv => KernelHalfShared
  BY InvKernelHalf
<1> QED BY <1>1, VmInvariant, PTL

(* vm_faults is a number. *)
LEMMA FaultCountStep ==
  ASSUME vm_faults \in Nat, [VmNext]_vmVars
  PROVE  vm_faults' \in Nat
<1>1. CASE PageFault
  <2>1. vm_faults' = vm_faults + 1 \/ vm_faults' = vm_faults
    BY <1>1 DEF PageFault
  <2> QED BY <2>1
<1>2. CASE vm_faults' = vm_faults
  BY <1>2
<1>3. PageFault \/ vm_faults' = vm_faults
  BY DEF VmNext, vmVars, Alloc, Free, Map, Unmap, vm_create_space, vm_switch, Access,
         Complete
<1> QED BY <1>1, <1>2, <1>3

LEMMA FaultCount == VmSpec => [](vm_faults \in Nat)
<1>1. VmInit => vm_faults \in Nat
  BY DEF VmInit
<1>2. vm_faults \in Nat /\ [VmNext]_vmVars => (vm_faults \in Nat)'
  BY FaultCountStep
<1> QED BY <1>1, <1>2, PTL DEF VmSpec

(* The page of a handled fault shows a cleared frame. *)
LEMMA FaultFresh ==
  ASSUME VmInv, PageFault, vm_faults \in Nat, vm_faults' > vm_faults
  PROVE  \E pa \in Translate(mem', cr3', access'.va.page) : mem'[pa] = Zero
<1> DEFINE D == HeapFrames(mem) \cup held
<1>1. PICK h \in vm_handle_page_fault(access.va, access.fetch) :
        /\ mem' = h.mem
        /\ vm_faults' = IF h.handled THEN vm_faults + 1 ELSE vm_faults
        /\ FaultFails(h, D) \/ \E pa \in Phys : FaultMaps(h, pa, D)
  BY PageFaultOutcome
<1>2. cr3' = cr3 /\ access' = access
  BY DEF PageFault
<1>3. h.handled # FALSE
  <2>1. vm_faults' # vm_faults
    OBVIOUS
  <2> QED BY <1>1, <2>1
<1>4. PICK pa \in Phys : FaultMaps(h, pa, D)
  BY <1>1, <1>3 DEF FaultFails
<1>5. Translate(mem', cr3', access'.va.page) = {pa} /\ mem'[pa] = Zero
  BY <1>1, <1>2, <1>4 DEF FaultMaps, Maps
<1> QED BY <1>5

(* A handled fault leaves the page mapped, in the space that faulted, to a  *)
(* frame that shows nothing of its former user.                             *)
THEOREM VmFreshPage == VmSpec => FreshPageZero
<1>1. VmInv /\ vm_faults \in Nat /\ [VmNext]_vmVars =>
        [vm_faults' > vm_faults =>
           \E pa \in Translate(mem', cr3', access'.va.page) : mem'[pa] = Zero]_vmVars
  <2> SUFFICES ASSUME VmInv, vm_faults \in Nat, VmNext, vm_faults' > vm_faults
               PROVE  \E pa \in Translate(mem', cr3', access'.va.page) : mem'[pa] = Zero
    BY DEF vmVars
  <2>1. vm_faults' = vm_faults => FALSE
    OBVIOUS
  <2>2. PageFault
    BY <2>1 DEF VmNext, Alloc, Free, Map, Unmap, vm_create_space, vm_switch, Access, Complete
  <2> QED BY <2>2, FaultFresh
<1> QED BY <1>1, VmInvariant, FaultCount, PTL DEF VmSpec, FreshPageZero

-----------------------------------------------------------------------------
(* When the fault handler gives up. *)

(* Where the MMU's walk of a page stops. *)
LEMMA PathEntries ==
  ASSUME NEW m, NEW s, NEW page
  PROVE  /\ Path(m, s, page)[1] = {} <=> ~Present(E1(m, s, page))
         /\ Path(m, s, page)[2] = {} <=>
              ~(Present(E1(m, s, page)) /\ Present(E2(m, s, page)))
         /\ Path(m, s, page)[3] = {} <=> ~Reaches(m, s, page)
         /\ Path(m, s, page)[4] = Translate(m, s, page)
<1>1. \A t, i : Follow(m, {t}, i) = IF Present(m[t][i]) THEN {m[t][i]} ELSE {}
  BY DEF Follow, Present
<1>2. \A i : Follow(m, {}, i) = {}
  BY DEF Follow
<1> DEFINE a == Follow(m, {s}, page[1])
           b == Follow(m, a, page[2])
           c == Follow(m, b, page[3])
<1>3. /\ Path(m, s, page)[1] = a /\ Path(m, s, page)[2] = b
      /\ Path(m, s, page)[3] = c /\ Path(m, s, page)[4] = Translate(m, s, page)
  BY DEF Translate, Path
<1>4. a = IF Present(E1(m, s, page)) THEN {E1(m, s, page)} ELSE {}
  BY <1>1 DEF E1
<1> HIDE DEF a
<1>5. b = IF Present(E1(m, s, page)) /\ Present(E2(m, s, page))
          THEN {E2(m, s, page)} ELSE {}
  BY <1>1, <1>2, <1>4 DEF E2
<1> HIDE DEF b
<1>6. c = IF Reaches(m, s, page) THEN {E3(m, s, page)} ELSE {}
  BY <1>1, <1>2, <1>5 DEF E3, Reaches
<1> HIDE DEF c
<1> QED BY <1>3, <1>4, <1>5, <1>6

(* The tables a page lacks. *)
Missing(m, s, page) == IF ~Present(E1(m, s, page)) THEN 3
                       ELSE IF ~Present(E2(m, s, page)) THEN 2
                       ELSE IF ~Present(E3(m, s, page)) THEN 1 ELSE 0

(* The frames an access needs are the missing tables and the page. *)
LEMMA NeededMissing ==
  ASSUME NEW page, Translate(mem, cr3, page) = {}
  PROVE  Needed(page) = 1 + Missing(mem, cr3, page)
<1> DEFINE K == {level \in 1 .. 4 : Path(mem, cr3, page)[level] = {}}
           e1 == Present(E1(mem, cr3, page))
           e2 == Present(E2(mem, cr3, page))
           e3 == Present(E3(mem, cr3, page))
<1>1. /\ 1 \in K <=> ~e1
      /\ 2 \in K <=> ~(e1 /\ e2)
      /\ 3 \in K <=> ~(e1 /\ e2 /\ e3)
      /\ 4 \in K
      /\ K \subseteq 1 .. 4
  BY PathEntries DEF Reaches
<1>2. Needed(page) = Cardinality(K)
  BY DEF Needed
<1> HIDE DEF K
<1>0. /\ 1 .. 4 = {1, 2, 3, 4} /\ 2 .. 4 = {2, 3, 4}
      /\ 3 .. 4 = {3, 4} /\ 4 .. 4 = {4}
  OBVIOUS
<1>3. \A j \in 1 .. 4 : Cardinality(j .. 4) = 4 - j + 1
  BY FS_Interval
<1>4. CASE ~e1
  <2>1. K = 1 .. 4
    BY <1>0, <1>1, <1>4, Zenon
  <2> QED BY <1>2, <1>3, <1>4, <2>1 DEF Missing
<1>5. CASE e1 /\ ~e2
  <2>1. K = 2 .. 4
    BY <1>0, <1>1, <1>5, Zenon
  <2> QED BY <1>2, <1>3, <1>5, <2>1 DEF Missing
<1>6. CASE e1 /\ e2 /\ ~e3
  <2>1. K = 3 .. 4
    BY <1>0, <1>1, <1>6, Zenon
  <2> QED BY <1>2, <1>3, <1>6, <2>1 DEF Missing
<1>7. CASE e1 /\ e2 /\ e3
  <2>1. K = 4 .. 4
    BY <1>0, <1>1, <1>7, Zenon
  <2> QED BY <1>2, <1>3, <1>7, <2>1 DEF Missing
<1> QED BY <1>4, <1>5, <1>6, <1>7

(* There is a frame for every table that an unmapped page lacks. *)
Enough(m, p, S, D, s, page) ==
  /\ Good(m, p, S, D) /\ s \in S /\ page \in Pages /\ ~Low(page)
  /\ Translate(m, s, page) = {}
  /\ p.free_frames >= Missing(m, s, page)

Arrived(w, page) == w.ok = TRUE /\ w.mem[w.table][page[4]] = 0

(* With a frame for every missing table, the walk to an unmapped page       *)
(* succeeds and the page's entry is empty.                                  *)
LEMMA WalkEnough ==
  ASSUME NEW m, NEW p, NEW S, NEW D, NEW s, NEW page, Enough(m, p, S, D, s, page),
         NEW w, w \in vm_walk(m, p, s, page, TRUE)
  PROVE  Arrived(w, page)
<1> /\ Good(m, p, S, D) /\ s \in S /\ page \in Pages /\ ~Low(page)
    /\ Translate(m, s, page) = {} /\ p.free_frames >= Missing(m, s, page)
  BY DEF Enough
<1> DEFINE w0 == [ok |-> TRUE, mem |-> m, pmm |-> p, table |-> s]
           w1 == Descend(w0, page[1], TRUE)
           w2 == Descend(w1, page[2], TRUE)
           w3 == Descend(w2, page[3], TRUE)
           e1 == Present(E1(m, s, page))
           e2 == Present(E2(m, s, page))
           e3 == Present(E3(m, s, page))
<1>0. /\ page[1] \in Index /\ page[2] \in Index /\ page[3] \in Index /\ page[4] \in Index
      /\ p.free_frames \in Nat /\ TRUE \in BOOLEAN
      /\ \A i \in Index : Zero[i] = 0
  BY FrameCountAssumption DEF Pages, Good, PmmInv, PmmType, Zero
<1>1. w = w3
  BY DEF vm_walk
<1>2. /\ ~e1 => E1(m, s, page) = 0
      /\ e1 /\ ~e2 => E2(m, s, page) = 0
      /\ e1 /\ e2 /\ ~e3 => E3(m, s, page) = 0
      /\ e1 /\ e2 /\ e3 => E4(m, s, page) = 0
  BY PathPlain, TranslateEntries DEF Present, Reaches
<1>3. /\ ~e1 => p.free_frames >= 3
      /\ e1 /\ ~e2 => p.free_frames >= 2
      /\ e1 /\ e2 /\ ~e3 => p.free_frames >= 1
  BY DEF Missing
<1>4. /\ w0.mem = m /\ w0.pmm = p /\ w0.table = s
      /\ Descends(w0, w1, 0, page[1], TRUE, S, D)
  <2>1. StandsAt(w0, 0, S, D) /\ w0.mem = m /\ w0.pmm = p /\ w0.table = s
    BY DEF StandsAt, Level
  <2> HIDE DEF w0
  <2> QED BY <1>0, <2>1, DescendGood, 0 \in 0 .. 2
<1> HIDE DEF w0, w1, e1, e2, e3
<1>5. /\ StandsAt(w1, 1, S, D)
      /\ \/ e1 /\ w1.mem = m /\ w1.pmm = p /\ w1.table = E1(m, s, page)
         \/ ~e1 /\ w1.mem[w1.table] = Zero /\ w1.pmm.free_frames >= 2
  <2>1. CASE e1
    <3>1. w1.ok /\ w1.pmm = p /\ w1.mem = m /\ w1.mem[s][page[1]] = w1.table
      BY <1>4, <2>1 DEF Descends, E1, e1
    <3>2. StandsAt(w1, 1, S, D)
      BY <1>4, <3>1 DEF Descends, StandsAt, Level
    <3> QED BY <2>1, <3>1, <3>2 DEF E1
  <2>2. CASE ~e1
    <3>1. w1.ok /\ w1.pmm.free_frames = p.free_frames - 1 /\ w1.mem[w1.table] = Zero
      BY <1>0, <1>2, <1>3, <1>4, <2>2 DEF Descends, E1
    <3>2. StandsAt(w1, 1, S, D)
      BY <1>4, <3>1 DEF Descends, StandsAt, Level
    <3> QED BY <1>0, <1>3, <2>2, <3>1, <3>2
  <2> QED BY <2>1, <2>2
<1>6. Descends(w1, w2, 1, page[2], TRUE, S, D)
  BY <1>0, <1>5, DescendGood, 1 \in 0 .. 2
<1> HIDE DEF w2
<1>7. /\ StandsAt(w2, 2, S, D)
      /\ \/ e1 /\ e2 /\ w2.mem = m /\ w2.pmm = p /\ w2.table = E2(m, s, page)
         \/ ~(e1 /\ e2) /\ w2.mem[w2.table] = Zero /\ w2.pmm.free_frames >= 1
  <2>1. CASE e1 /\ e2
    <3>1. w2.ok /\ w2.pmm = p /\ w2.mem = m /\ w2.mem[w1.table][page[2]] = w2.table
      BY <1>5, <1>6, <2>1 DEF Descends, E2, e2
    <3>2. StandsAt(w2, 2, S, D)
      BY <1>6, <3>1 DEF Descends, StandsAt, Level
    <3> QED BY <1>5, <2>1, <3>1, <3>2 DEF E2
  <2>2. CASE ~(e1 /\ e2)
    <3>1. w1.mem[w1.table][page[2]] = 0 /\ w1.pmm.free_frames >= 2
      BY <1>0, <1>2, <1>3, <1>5, <2>2 DEF E2
    <3>2. w1.pmm.free_frames \in Nat
      BY <1>5, FrameCountAssumption DEF StandsAt, Good, PmmInv, PmmType
    <3>3. w2.ok /\ w2.pmm.free_frames = w1.pmm.free_frames - 1 /\ w2.mem[w2.table] = Zero
      BY <1>6, <3>1, <3>2 DEF Descends
    <3>4. StandsAt(w2, 2, S, D)
      BY <1>6, <3>3 DEF Descends, StandsAt, Level
    <3> QED BY <2>2, <3>1, <3>2, <3>3, <3>4
  <2> QED BY <2>1, <2>2
<1>8. Descends(w2, w3, 2, page[3], TRUE, S, D)
  BY <1>0, <1>7, DescendGood, 2 \in 0 .. 2
<1> HIDE DEF w3
<1>9. CASE e1 /\ e2 /\ e3
  <2>1. w3.ok /\ w3.mem = m /\ w3.mem[w2.table][page[3]] = w3.table
    BY <1>7, <1>8, <1>9 DEF Descends, E3, e3
  <2>2. w3.table = E3(m, s, page)
    BY <1>7, <1>9, <2>1 DEF E3
  <2> QED BY <1>1, <1>2, <1>8, <1>9, <2>1, <2>2 DEF E4, Arrived, Descends
<1>10. CASE ~(e1 /\ e2 /\ e3)
  <2>1. w2.mem[w2.table][page[3]] = 0 /\ w2.pmm.free_frames >= 1
    BY <1>0, <1>2, <1>3, <1>7, <1>10 DEF E3
  <2>2. w2.pmm.free_frames \in Nat
    BY <1>7, FrameCountAssumption DEF StandsAt, Good, PmmInv, PmmType
  <2>3. w3.ok /\ w3.mem[w3.table] = Zero
    BY <1>8, <2>1, <2>2 DEF Descends
  <2> QED BY <1>0, <1>1, <1>8, <2>3 DEF Arrived, Descends
<1> QED BY <1>9, <1>10

(* A fault at a heap page is handled if there are frames enough. *)
LEMMA FaultEnough ==
  ASSUME VmInv, access # NoAccess, Target = {}, ~access.fetch,
         access.va.page \in HeapPages, pmm.free_frames >= Needed(access.va.page),
         NEW h \in vm_handle_page_fault(access.va, access.fetch)
  PROVE  h.handled = TRUE
<1> DEFINE D == HeapFrames(mem) \cup held
           r == pmm_alloc_frame(pmm)
           va == [access.va EXCEPT !.off = 0]
           page == access.va.page
           m == SetFrame(mem, r.pa, Zero)
<1>1. Good(mem, pmm, spaces, D) /\ PmmInv(pmm) /\ cr3 \in spaces /\ vm_in_fault = FALSE
  BY DEF VmInv, Good, CpuTypes
<1>2. /\ va \in VirtAddrs(Pages) /\ va.page = page /\ va.off = 0 /\ page \in Pages
      /\ Translate(mem, cr3, page) = {}
  <2>1. access.va \in VirtAddrs(Pages)
    BY TargetMeaning
  <2> QED BY <2>1, TargetMeaning DEF VirtAddrs
<1>3. /\ pmm.free_frames \in Nat
      /\ pmm.free_frames >= 1 + Missing(mem, cr3, page)
      /\ Missing(mem, cr3, page) \in Nat
  BY <1>1, <1>2, NeededMissing, FrameCountAssumption DEF PmmInv, PmmType, Missing
<1>4. /\ PmmInv(r.pmm)
      /\ r.pa \in Phys \ {0} /\ ~Used(pmm, r.pa)
      /\ \A pa \in Phys : Used(r.pmm, pa) <=> Used(pmm, pa) \/ pa = r.pa
      /\ r.pmm.free_frames >= Missing(mem, cr3, page)
  <2>1. pmm.free_frames # 0
    BY <1>3
  <2>2. /\ PmmInv(r.pmm)
        /\ r.pa \in Phys \ {0} /\ ~Used(pmm, r.pa)
        /\ \A pa \in Phys : Used(r.pmm, pa) <=> Used(pmm, pa) \/ pa = r.pa
        /\ r.pmm.free_frames = pmm.free_frames - 1
    BY <1>1, <2>1, AllocFresh
  <2> HIDE DEF r, page
  <2> QED BY <1>3, <2>2
<1>5. ~RefusesFault(access.va, access.fetch) /\ r.pa # 0
  BY <1>1, <1>4 DEF RefusesFault
<1>6. PICK q \in vm_map(m, r.pmm, cr3, va, r.pa) :
        h = [handled |-> q.ok, mem |-> q.mem,
             pmm |-> IF q.ok THEN q.pmm ELSE pmm_free_frame(q.pmm, r.pa)]
  BY <1>5 DEF vm_handle_page_fault, SetFrame
<1> HIDE DEF r, D, va, page
<1>7. r.pa \notin AllTables(mem, spaces) /\ r.pa \notin D
  BY <1>1, <1>4, FreshUnknown
<1>8. /\ Good(m, pmm, spaces, D)
      /\ \A y \in Phys \ {r.pa} : m[y] = mem[y]
      /\ Translate(m, cr3, page) = {}
  <2>1. r.pa \in Phys /\ Zero \in Contents
    BY <1>4, Basics
  <2> QED BY <1>1, <1>2, <1>7, <2>1, DataWrite
<1> HIDE DEF m
<1>9. Good(m, r.pmm, spaces, D \cup {r.pa})
  BY <1>4, <1>8, TakeData
<1>10. Missing(m, cr3, page) = Missing(mem, cr3, page)
  <2>1. \A t \in AllTables(mem, spaces) : m[t] = mem[t]
    BY <1>1, <1>7, <1>8 DEF Good, Forest
  <2>2. E1(m, cr3, page) = E1(mem, cr3, page)
    BY <1>1, <2>1 DEF E1, AllTables
  <2>3. Present(E1(mem, cr3, page)) => E2(m, cr3, page) = E2(mem, cr3, page)
    BY <1>1, <1>2, <2>1, <2>2, PathLevels DEF E2, AllTables
  <2>4. Present(E1(mem, cr3, page)) /\ Present(E2(mem, cr3, page)) =>
          E3(m, cr3, page) = E3(mem, cr3, page)
    BY <1>1, <1>2, <2>1, <2>3, PathLevels DEF E3, AllTables
  <2> QED BY <2>2, <2>3, <2>4 DEF Missing
<1>11. page \in Pages /\ ~Low(page)
  BY VmAssumption, Basics DEF page, Low
<1>12. ~RefusesMap(va, r.pa)
  <2>1. PICK f \in Frames : r.pa = f * PMM_FRAME_SIZE
    BY <1>4 DEF Phys
  <2>2. f \in Nat /\ f < PMM_FRAME_COUNT
    BY FrameCountAssumption DEF Frames
  <2>3. r.pa % PMM_FRAME_SIZE = 0 /\ ~(r.pa >= PMM_MAX_PHYS)
    BY <2>1, <2>2, FrameCountAssumption DEF PMM_FRAME_SIZE, PMM_MAX_PHYS
  <2> QED BY <1>2, <1>11, <2>3 DEF RefusesMap
<1>13. PICK w \in vm_walk(m, r.pmm, cr3, page, TRUE) :
         q = IF ~w.ok \/ w.mem[w.table][page[4]] # 0
             THEN [ok |-> FALSE, mem |-> w.mem, pmm |-> w.pmm]
             ELSE [ok |-> TRUE, pmm |-> w.pmm,
                   mem |-> [w.mem EXCEPT ![w.table][page[4]] = r.pa]]
  BY <1>2, <1>6, <1>12 DEF vm_map
<1>14. Arrived(w, page)
  <2>1. r.pmm.free_frames >= Missing(m, cr3, page)
    BY <1>4, <1>10
  <2> DEFINE E == D \cup {r.pa}
  <2>2. Enough(m, r.pmm, spaces, E, cr3, page)
    BY <1>1, <1>8, <1>9, <1>11, <2>1 DEF Enough
  <2> HIDE DEF E
  <2> QED BY <2>2, WalkEnough
<1>15. q.ok = TRUE
  BY <1>13, <1>14 DEF Arrived
<1> QED BY <1>6, <1>15

(* The frames for the page and its missing tables are not there. *)
LEMMA FaultHalts ==
  ASSUME VmInv, PageFault, halted', ~access.fetch, access.va.page \in HeapPages
  PROVE  pmm.free_frames < Needed(access.va.page)
<1>1. access # NoAccess /\ Target = {}
  BY DEF PageFault
<1>2. PICK h \in vm_handle_page_fault(access.va, access.fetch) : halted' = ~h.handled
  BY DEF PageFault
<1>3. ~(pmm.free_frames >= Needed(access.va.page))
  BY <1>1, <1>2, FaultEnough
<1>4. pmm.free_frames \in Nat /\ Needed(access.va.page) \in Nat
  <2>1. pmm.free_frames \in Nat
    BY FrameCountAssumption DEF VmInv, Good, PmmInv, PmmType
  <2>2. Translate(mem, cr3, access.va.page) = {}
    BY <1>1, TargetMeaning
  <2>3. Needed(access.va.page) = 1 + Missing(mem, cr3, access.va.page)
    BY <2>2, NeededMissing
  <2>4. Missing(mem, cr3, access.va.page) \in Nat
    BY DEF Missing
  <2> QED BY <2>1, <2>3, <2>4
<1> QED BY <1>3, <1>4

(* The machine stops on a data access to the heap only when the frames for  *)
(* the page and its missing tables are not there.                           *)
THEOREM VmHalt == VmSpec => HaltDeserved
<1>1. VmInv /\ [VmNext]_vmVars =>
        [halted' /\ ~halted =>
           \/ access.fetch
           \/ access.va.page \notin HeapPages
           \/ pmm.free_frames < Needed(access.va.page)]_vmVars
  <2> SUFFICES ASSUME VmInv, VmNext, halted', ~halted, ~access.fetch,
                      access.va.page \in HeapPages
               PROVE  pmm.free_frames < Needed(access.va.page)
    BY DEF vmVars
  <2>1. PageFault
    BY DEF VmNext, Alloc, Free, Map, Unmap, vm_create_space, vm_switch, Access, Complete
  <2> QED BY <2>1, FaultHalts
<1> QED BY <1>1, VmInvariant, PTL DEF VmSpec, HaltDeserved
-----------------------------------------------------------------------------
(* vm_self_test: the inductive invariant, stage by stage of the script. *)

(* Outside the heap the spaces S map nothing but the triples in R: a space, *)
(* a page and the frame it shows.                                           *)
Shows(m, S, R) ==
  \A s \in S, page \in Pages \ HeapPages :
    \A pa \in Translate(m, s, page) : <<s, page, pa>> \in R

ScratchMap == {<<BootPml4, VM_SCRATCH_BASE, st.frame>>}
MapA == {<<st.a, VM_SPACE_TEST_BASE, st.fa>>}
MapB == {<<st.b, VM_SPACE_TEST_BASE, st.fb>>}

(* Nothing hangs below the PML4 entry of the space test page. *)
Unused(m, s) == m[s][VM_SPACE_TEST_BASE[1]] = 0
AllUnused(m, S) == \A s \in S : Unused(m, s)

Idle == access = NoAccess
Accessing(page, write) ==
  access = [va |-> Va(page), fetch |-> FALSE, write |-> write]

(* Before the second space: the locals are as declared. *)
Untouched ==
  /\ spaces = {BootPml4} /\ cr3 = BootPml4
  /\ st.a = 0 /\ st.b = 0 /\ st.fa = 0 /\ st.fb = 0 /\ st.k = 1
  /\ AllUnused(mem, spaces)

NoneYet == Translate(mem, BootPml4, LastHeapPage) = {}
LastShows(c) ==
  \E pa \in Phys : Translate(mem, BootPml4, LastHeapPage) = {pa} /\ mem[pa] = c

TakeInv ==
  /\ Untouched /\ held = {} /\ Shows(mem, spaces, {}) /\ NoneYet /\ st.ok
  /\ Idle \/ access.va.page = FirstHeapPage

MapPcs == {"map", "untake", "store", "load", "unmap", "reject", "remap",
           "double", "unmap2", "give"}

(* One frame is held; whether it is mapped, and what has been seen of it. *)
MapInv ==
  /\ Untouched /\ held = {st.frame} /\ st.frame # 0 /\ NoneYet
  /\ At("unmap2") \/ At("give") \/ st.ok
  /\ At("untake") => dry
  /\ Shows(mem, spaces, IF st.pc \in {"store", "load", "unmap", "double", "unmap2"}
                        THEN ScratchMap ELSE {})
  /\ st.pc \in {"store", "load", "unmap", "double"} =>
       Translate(mem, BootPml4, VM_SCRATCH_BASE) = {st.frame}
  /\ \/ Idle
     \/ At("load") /\ Accessing(VM_SCRATCH_BASE, Word(1))
     \/ At("unmap") /\ Accessing(VM_SCRATCH_BASE, NoWrite)
  /\ At("load") /\ Idle => mem[st.frame] = Word(1)
  /\ At("unmap") => IF Idle THEN st.val = Word(1) ELSE mem[st.frame] = Word(1)

DemandPcs == {"demand", "demand_load", "demand_check"}

(* The last heap page is mapped by the one fault that is counted. *)
DemandInv ==
  /\ Untouched /\ held = {} /\ Shows(mem, spaces, {}) /\ st.ok
  /\ At("demand") => NoneYet /\ Idle
  /\ At("demand_load") =>
       \/ /\ Accessing(LastHeapPage, Word(2))
          /\ vm_faults = IF NoneYet THEN st.c0 ELSE st.c0 + 1
       \/ Idle /\ vm_faults = st.c0 + 1 /\ LastShows(Word(2))
  /\ At("demand_check") =>
       /\ vm_faults = st.c0 + 1
       /\ \/ Idle /\ st.val = Word(2)
          \/ Accessing(LastHeapPage, NoWrite) /\ LastShows(Word(2))

CreatePcs == {"create_a", "create_b"}
CreateInv ==
  /\ Idle /\ cr3 = BootPml4 /\ Shows(mem, spaces, {}) /\ held = {} /\ st.ok
  /\ AllUnused(mem, spaces)
  /\ st.fa = 0 /\ st.fb = 0 /\ st.k = 1 /\ st.b = 0
  /\ At("create_a") => st.a = 0
  /\ At("create_b") => st.a \in spaces \/ (st.a = 0 /\ dry)

TwoSpaces == st.a \in spaces /\ st.b \in spaces /\ st.a # st.b

FramePcs == {"take_a", "take_b"}
FramesInv ==
  /\ Idle /\ cr3 = BootPml4 /\ Shows(mem, spaces, {}) /\ st.ok /\ TwoSpaces
  /\ AllUnused(mem, spaces)
  /\ st.fb = 0 /\ st.k = 1 /\ held = {st.fa} \ {0}
  /\ At("take_a") => st.fa = 0
  /\ At("take_b") => st.fa # 0 \/ dry

TwoFrames == held = {st.fa, st.fb} /\ st.fa # st.fb /\ st.fa # 0 /\ st.fb # 0

MapsPcs == {"map_a", "map_b"}
MapsInv ==
  /\ Idle /\ cr3 = BootPml4 /\ st.ok /\ TwoSpaces /\ TwoFrames /\ st.k = 1
  /\ Unused(mem, st.b)
  /\ At("map_a") => Unused(mem, st.a) /\ Shows(mem, spaces, {})
  /\ At("map_b") => Shows(mem, spaces, MapA)

TouchPcs == {"switch", "touch"}

(* What round k has read or written, once the access is over. *)
Visited(s, read, word) ==
  /\ cr3 = s
  /\ \/ Idle /\ st.val = word /\ read
     \/ Accessing(VM_SPACE_TEST_BASE, NoWrite) /\ read
     \/ Idle /\ mem[IF s = st.a THEN st.fa ELSE st.fb] = word /\ ~read
     \/ Accessing(VM_SPACE_TEST_BASE, word) /\ ~read

AfterRound ==
  /\ st.k = 1 => Idle /\ cr3 = BootPml4
  /\ st.k = 2 => Visited(st.a, FALSE, Word(11))
  /\ st.k = 3 => Visited(st.b, FALSE, Word(12))
  /\ st.k = 4 => Visited(st.a, TRUE, Word(11))
  /\ st.k = 5 => Visited(st.b, TRUE, Word(12))
  /\ st.k > 2 => mem[st.fa] = Word(11)
  /\ st.k > 3 => mem[st.fb] = Word(12)

TouchInv ==
  /\ st.ok /\ TwoSpaces /\ TwoFrames
  /\ Shows(mem, spaces, MapA \cup MapB)
  /\ At("touch") => /\ Idle /\ st.k \in 1 .. 4 /\ cr3 = Visit
                    /\ st.k > 1 => mem[st.fa] = Word(11)
                    /\ st.k > 2 => mem[st.fb] = Word(12)
  /\ At("switch") => AfterRound

CleanPcs == {"clean_a", "clean_b", "give_a", "give_b"}
CleanInv ==
  /\ Idle /\ cr3 = BootPml4
  /\ st.a \in spaces \cup {0} /\ st.b \in spaces \cup {0}
  /\ held = (IF At("give_b") THEN {st.fb} ELSE {st.fa, st.fb}) \ {0}
  /\ st.fa = st.fb => st.fa = 0
  /\ Shows(mem, spaces, IF At("clean_a") THEN MapA \cup MapB
                        ELSE IF At("clean_b") THEN MapB ELSE {})

EndPcs == {"passed", "failed"}
EndInv ==
  /\ Idle /\ cr3 = BootPml4 /\ held = {} /\ Shows(mem, spaces, {})
  /\ At("failed") => dry

StType ==
  /\ st \in [pc : {"off", "take"} \cup MapPcs \cup DemandPcs \cup CreatePcs \cup FramePcs
                    \cup MapsPcs \cup TouchPcs \cup CleanPcs \cup EndPcs,
             ok : BOOLEAN, frame : Phys, a : Phys, b : Phys, fa : Phys, fb : Phys,
             c0 : Nat, k : 1 .. 5, val : Contents \cup {NoWrite}]
  /\ dry \in BOOLEAN
  /\ vm_faults \in Nat

Stage ==
  \/ At("off")
  \/ At("take") /\ TakeInv
  \/ st.pc \in MapPcs /\ MapInv
  \/ st.pc \in DemandPcs /\ DemandInv
  \/ st.pc \in CreatePcs /\ CreateInv
  \/ st.pc \in FramePcs /\ FramesInv
  \/ st.pc \in MapsPcs /\ MapsInv
  \/ st.pc \in TouchPcs /\ TouchInv
  \/ st.pc \in CleanPcs /\ CleanInv
  \/ st.pc \in EndPcs /\ EndInv

TestInv ==
  /\ VmInv
  /\ StType
  /\ st.ok \/ dry
  /\ Stage

-----------------------------------------------------------------------------
(* What each call of the script changes. *)

(* Nothing but the heap is mapped differently. *)
HeapSame(m, n) ==
  \A page \in HeapPages : Translate(n, BootPml4, page) = Translate(m, BootPml4, page)

(* The pages of the script. *)
LEMMA TestPages ==
  /\ \A page \in {VM_SCRATCH_BASE, VM_SPACE_TEST_BASE, LowPage} :
       page \in ClientPages /\ page \in Pages /\ page \notin HeapPages
  /\ ~Low(VM_SCRATCH_BASE) /\ ~Low(VM_SPACE_TEST_BASE) /\ Low(LowPage)
  /\ LastHeapPage \in HeapPages /\ LastHeapPage \in Pages
  /\ LastHeapPage # FirstHeapPage
  /\ VM_SPACE_TEST_BASE[1] \in Index
  /\ VM_SPACE_TEST_BASE[1] # VM_SCRATCH_BASE[1] /\ VM_SPACE_TEST_BASE[1] # LowPage[1]
  /\ VM_SPACE_TEST_BASE[1] # HALF
<1>1. \A page \in {VM_SCRATCH_BASE, VM_SPACE_TEST_BASE, LowPage} :
        page \in ClientPages /\ page \in Pages /\ page \notin HeapPages
  BY VmAssumption, VmTestAssumption
<1>2. VM_SPACE_TEST_BASE[1] \in Index
  BY VmAssumption, VmTestAssumption DEF Index
<1>3. LastHeapPage \in HeapPages /\ LastHeapPage \in Pages /\ LastHeapPage # FirstHeapPage
  BY VmAssumption, VmTestAssumption
<1> QED BY <1>1, <1>2, <1>3, VmAssumption, VmTestAssumption DEF Low

(* Pages the script uses, as addresses. *)
LEMMA VaPage ==
  ASSUME NEW page
  PROVE  /\ Va(page).page = page
         /\ page \in Pages => Va(page) \in VirtAddrs(Pages)
         /\ page \in ClientPages => Va(page) \in VirtAddrs(ClientPages)
  BY DEF Va, VirtAddrs

(* pmm_alloc_frame. *)
LEMMA TakeStep ==
  ASSUME VmInv, NEW pa, Take(pa)
  PROVE  /\ VmInv' /\ Idle
         /\ mem' = mem /\ spaces' = spaces /\ cr3' = cr3 /\ access' = access
         /\ vm_faults' = vm_faults
         /\ \/ pa = 0 /\ held' = held /\ pmm'.free_frames = 0
            \/ pa \in Phys \ {0} /\ pa \notin held /\ held' = held \cup {pa}
<1>1. OnlyFrames /\ AllocFrame /\ ret' = pa
  BY DEF Take, NotVm, OnlyFrames
<1>2. /\ VmInv'
      /\ \/ pa = 0 /\ held' = held /\ pmm'.free_frames = 0
         \/ pa \in Phys \ {0} /\ pa \notin held /\ held' = held \cup {pa}
  BY <1>1, FrameTaken
<1> QED BY <1>2 DEF Take, NotVm, Running, Idle

(* pmm_free_frame, of a frame that is mapped nowhere. *)
LEMMA GiveStep ==
  ASSUME VmInv, NEW pa, pa = 0 \/ pa \in held, Give(pa), Shows(mem, spaces, {})
  PROVE  /\ VmInv' /\ Idle
         /\ mem' = mem /\ spaces' = spaces /\ cr3' = cr3 /\ access' = access
         /\ vm_faults' = vm_faults /\ held' = held \ {pa}
<1>1. OnlyFrames
  BY DEF Give, NotVm, OnlyFrames
<1>2. 0 \notin held
  BY DEF VmInv, Good, Owned
<1>3. CASE pa = 0
  <2>1. pmm' = pmm /\ held' = held
    BY <1>3 DEF Give, pmmVars
  <2>2. VmInv'
    <3>1. CpuTypes' /\ HeapFirst' /\ TlbCoherent'
      BY <1>1 DEF OnlyFrames, VmInv, CpuTypes, HeapFirst, TlbCoherent
    <3> QED BY <1>1, <2>1, <3>1, VmInvNext DEF OnlyFrames, VmInv
  <2> QED BY <1>2, <1>3, <2>1, <2>2 DEF Give, NotVm, Running, Idle
<1>4. CASE pa # 0
  <2>1. pa \in held /\ FreeFrame(pa)
    BY <1>4 DEF Give
  <2>2. \A s \in spaces, page \in ClientPages : pa \notin Translate(mem, s, page)
    BY VmAssumption DEF Shows
  <2>3. VmInv'
    BY <1>1, <2>1, <2>2, FrameGiven
  <2>4. held' = held \ {pa}
    BY <2>1 DEF FreeFrame
  <2> QED BY <2>3, <2>4 DEF Give, NotVm, Running, Idle
<1> QED BY <1>3, <1>4

(* vm_map of frame pa at page in space s, when the spaces showed R. *)
MapEffect(s, page, pa, ok, R) ==
  /\ VmInv' /\ Idle
  /\ held' = held /\ spaces' = spaces /\ cr3' = cr3 /\ access' = access
  /\ vm_faults' = vm_faults
  /\ HeapSame(mem, mem')
  /\ ok => /\ Translate(mem, s, page) = {} /\ Translate(mem', s, page) = {pa}
           /\ ~Low(page) /\ Shows(mem', spaces, R \cup {<<s, page, pa>>})
  /\ ~ok => /\ Shows(mem', spaces, R)
            /\ \/ Low(page) \/ Translate(mem, s, page) # {}
               \/ pmm'.free_frames = 0
  /\ \A t \in spaces, i \in Index : i # page[1] => mem'[t][i] = mem[t][i]
  /\ \A t \in spaces \ {s}, i \in Index : mem'[t][i] = mem[t][i]

(* vm_unmap of page in space s, answering pa, when the spaces showed R and  *)
(* perhaps that page.                                                       *)
UnmapEffect(s, page, pa, R) ==
  /\ VmInv' /\ Idle
  /\ held' = held /\ spaces' = spaces /\ cr3' = cr3 /\ access' = access
  /\ vm_faults' = vm_faults
  /\ HeapSame(mem, mem')
  /\ Shows(mem', spaces, R)
  /\ Translate(mem, s, page) \in {{}, {pa}}
  /\ \A t \in spaces, i \in Index : mem'[t][i] = mem[t][i]

(* vm_map of a frame that is held, where no other space shares the page's   *)
(* tables.                                                                  *)
LEMMA MapStep ==
  ASSUME VmInv, NEW s \in spaces, NEW page \in ClientPages, NEW pa \in held,
         NEW ok \in BOOLEAN, Map(s, Va(page), pa, ok),
         spaces = {s} \/ mem[s][page[1]] = 0,
         NEW R, Shows(mem, spaces, R)
  PROVE  MapEffect(s, page, pa, ok, R)
<1> DEFINE D == HeapFrames(mem) \cup held
           va == Va(page)
<1>1. /\ va.page = page /\ va.off = 0 /\ va \in VirtAddrs(ClientPages)
      /\ page \in Pages /\ page \notin HeapPages
      /\ BootPml4 \in spaces
  BY VaPage, VmAssumption DEF Va, VmInv, Good
<1>2. \A p2 \in HeapPages : p2 \in Pages /\ p2 # page
  BY <1>1, VmAssumption
<1> HIDE DEF va
<1>3. VmInv'
  BY <1>1, MapKeepsInv DEF va
<1>4. /\ ok => pa \in held /\ Maps(mem, mem', spaces, D, s, page, pa)
      /\ ~ok => MapFails(mem, mem', pmm', spaces, D, s, va, pa)
  <2>1. pa \in held \cup BadPas
    OBVIOUS
  <2> QED BY <1>1, <2>1, MapOutcome DEF va
<1> HIDE DEF D
<1>5. RefusesMap(va, pa) => Low(page)
  <2>1. PICK f \in Frames : pa = f * PMM_FRAME_SIZE
    BY DEF VmInv, Good, Owned, Phys
  <2>2. f \in Nat /\ f < PMM_FRAME_COUNT
    BY FrameCountAssumption DEF Frames
  <2>3. pa % PMM_FRAME_SIZE = 0 /\ ~(pa >= PMM_MAX_PHYS)
    BY <2>1, <2>2, FrameCountAssumption DEF PMM_FRAME_SIZE, PMM_MAX_PHYS
  <2> QED BY <1>1, <2>3 DEF RefusesMap
<1>6. ok => ~Low(page)
  <2>1. Low(page) => RefusesMap(va, pa)
    BY <1>1 DEF RefusesMap
  <2>2. RefusesMap(va, pa) => ~ok
    BY DEF Map, vm_map, va
  <2> QED BY <2>1, <2>2
<1>7. CASE ok
  <2>1. Maps(mem, mem', spaces, D, s, page, pa)
    BY <1>4, <1>7
  <2>2. HeapSame(mem, mem')
    BY <1>1, <1>2, <2>1 DEF Maps, HeapSame
  <2>3. \A s2 \in spaces \ {s} : Translate(mem', s2, page) = Translate(mem, s2, page)
    BY <2>1 DEF Maps
  <2>4. Shows(mem', spaces, R \cup {<<s, page, pa>>})
    <3>1. ASSUME NEW s2 \in spaces, NEW p2 \in Pages \ HeapPages,
                 NEW x \in Translate(mem', s2, p2)
          PROVE  <<s2, p2, x>> \in R \cup {<<s, page, pa>>}
      <4>1. CASE Translate(mem', s2, p2) = Translate(mem, s2, p2)
        BY <3>1, <4>1 DEF Shows
      <4>2. CASE p2 = page /\ Translate(mem', s2, p2) = {pa}
        <5>1. CASE s2 = s
          BY <3>1, <4>2, <5>1
        <5>2. CASE s2 # s
          BY <2>3, <3>1, <4>2, <5>2 DEF Shows
        <5> QED BY <5>1, <5>2
      <4> QED BY <2>1, <4>1, <4>2 DEF Maps
    <3> QED BY <3>1 DEF Shows
  <2>5. \A t \in spaces, i \in Index : t # s \/ i # page[1] => mem'[t][i] = mem[t][i]
    BY <2>1 DEF Maps
  <2> QED BY <1>3, <1>6, <1>7, <2>1, <2>2, <2>4, <2>5
         DEF Map, Maps, Running, Idle, MapEffect
<1>8. CASE ~ok
  <2>1. MapFails(mem, mem', pmm', spaces, D, s, va, pa)
    BY <1>4, <1>8
  <2>2. \A s2 \in spaces, p2 \in Pages : Translate(mem', s2, p2) = Translate(mem, s2, p2)
    BY <2>1 DEF MapFails, Grows
  <2>3. HeapSame(mem, mem') /\ Shows(mem', spaces, R)
    BY <1>1, <1>2, <2>2 DEF HeapSame, Shows
  <2>4. \A t \in spaces, i \in Index : t # s \/ i # page[1] => mem'[t][i] = mem[t][i]
    BY <1>1, <2>1 DEF MapFails
  <2>5. Low(page) \/ Translate(mem, s, page) # {} \/ pmm'.free_frames = 0
    BY <1>1, <1>5, <2>1 DEF MapFails
  <2> QED BY <1>3, <1>8, <2>3, <2>4, <2>5 DEF Map, Running, Idle, MapEffect
<1> QED BY <1>7, <1>8

(* vm_unmap. *)
LEMMA UnmapStep ==
  ASSUME VmInv, NEW s \in spaces, NEW page \in ClientPages, NEW pa \in Answers,
         Unmap(s, Va(page), pa),
         NEW R, NEW f, Shows(mem, spaces, R \cup {<<s, page, f>>})
  PROVE  UnmapEffect(s, page, pa, R)
<1> DEFINE va == Va(page)
<1>1. /\ va.page = page /\ va \in VirtAddrs(ClientPages)
      /\ page \in Pages /\ page \notin HeapPages /\ BootPml4 \in spaces
  BY VaPage, VmAssumption DEF VmInv, Good
<1>2. \A p2 \in HeapPages : p2 \in Pages /\ p2 # page
  BY <1>1, VmAssumption
<1> HIDE DEF va
<1>3. VmInv'
  BY <1>1, UnmapKeepsInv DEF va
<1>4. Unmaps(mem, mem', spaces, s, page, pa)
  BY <1>1, UnmapOutcome DEF va
<1>5. HeapSame(mem, mem')
  BY <1>1, <1>2, <1>4 DEF Unmaps, HeapSame
<1>6. Shows(mem', spaces, R)
  <2>1. ASSUME NEW s2 \in spaces, NEW p2 \in Pages \ HeapPages,
               NEW x \in Translate(mem', s2, p2)
        PROVE  <<s2, p2, x>> \in R
    <3>1. Translate(mem', s2, p2) = Translate(mem, s2, p2)
      BY <1>4, <2>1 DEF Unmaps
    <3>2. ~(s2 = s /\ p2 = page)
      BY <1>4, <2>1 DEF Unmaps
    <3>3. <<s2, p2, x>> \in R \cup {<<s, page, f>>}
      BY <2>1, <3>1 DEF Shows
    <3> QED BY <3>2, <3>3
  <2> QED BY <2>1 DEF Shows
<1> QED BY <1>3, <1>4, <1>5, <1>6
       DEF Unmap, Unmaps, Running, Idle, UnmapEffect

(* vm_create_space. *)
LEMMA CreateStep ==
  ASSUME VmInv, NEW pa \in Answers, vm_create_space(pa), Shows(mem, spaces, {}),
         AllUnused(mem, spaces)
  PROVE  /\ VmInv' /\ Idle
         /\ held' = held /\ cr3' = cr3 /\ access' = access /\ vm_faults' = vm_faults
         /\ Shows(mem', spaces', {}) /\ AllUnused(mem', spaces')
         /\ \/ pa = 0 /\ spaces' = spaces /\ pmm'.free_frames = 0
            \/ pa \in Phys \ {0} /\ pa \notin spaces /\ spaces' = spaces \cup {pa}
<1> DEFINE D == HeapFrames(mem) \cup held
<1>1. VmInv'
  BY CreateKeepsInv
<1>2. \/ /\ pa = 0 /\ pmm'.free_frames = 0
         /\ mem' = mem /\ spaces' = spaces /\ pmm' = pmm
      \/ /\ pa \in Phys \ {0} /\ spaces' = spaces \cup {pa}
         /\ Joins(mem, mem', pmm', spaces, D, pa)
  BY CreateOutcome
<1> HIDE DEF D
<1>3. CASE pa = 0 /\ pmm'.free_frames = 0 /\ mem' = mem /\ spaces' = spaces
  BY <1>1, <1>3 DEF vm_create_space, Running, Idle
<1>4. CASE /\ pa \in Phys \ {0} /\ spaces' = spaces \cup {pa}
           /\ Joins(mem, mem', pmm', spaces, D, pa)
  <2>1. BootPml4 \in spaces
    BY DEF VmInv, Good
  <2>2. Shows(mem', spaces', {})
    <3>1. ASSUME NEW s \in spaces', NEW page \in Pages \ HeapPages
          PROVE  Translate(mem', s, page) = {}
      <4>1. \A s2 \in spaces : Translate(mem, s2, page) = {}
        BY DEF Shows
      <4> QED BY <1>4, <2>1, <4>1 DEF Joins
    <3> QED BY <3>1 DEF Shows
  <2>3. AllUnused(mem', spaces')
    BY <1>4, VmTestAssumption DEF Joins, AllUnused, Unused
  <2>4. pa \notin spaces
    BY <1>4 DEF Joins
  <2> QED BY <1>1, <1>4, <2>2, <2>3, <2>4 DEF vm_create_space, Running, Idle
<1> QED BY <1>2, <1>3, <1>4

(* vm_switch. *)
LEMMA SwitchStep ==
  ASSUME VmInv, NEW s \in spaces, vm_switch(s)
  PROVE  /\ VmInv' /\ Idle
         /\ mem' = mem /\ held' = held /\ spaces' = spaces /\ cr3' = s
         /\ access' = access /\ vm_faults' = vm_faults
  BY SwitchKeepsInv DEF vm_switch, Running, Idle

(* The patterns are contents of a page. *)
LEMMA WordContents == \A n \in Int : Word(n) \in Contents /\ Word(n) # NoWrite
<1> SUFFICES ASSUME NEW n \in Int PROVE Word(n) \in Contents /\ Word(n) # NoWrite
  OBVIOUS
<1>1. Word(n) \in Contents
  BY Basics DEF Word, Zero, Contents
<1>2. 0 \in DOMAIN Word(n)
  BY Basics DEF Word, Zero
<1>3. 0 \notin DOMAIN NoWrite
  BY DEF NoWrite
<1> QED BY <1>1, <1>2, <1>3

(* A read or a write of the first word of a page begins. *)
LEMMA AccessStep ==
  ASSUME VmInv, NEW page \in Pages, NEW write \in Contents \cup {NoWrite},
         Access(Va(page), FALSE, write)
  PROVE  /\ VmInv' /\ Idle
         /\ mem' = mem /\ held' = held /\ spaces' = spaces /\ cr3' = cr3
         /\ access' = [va |-> Va(page), fetch |-> FALSE, write |-> write]
         /\ vm_faults' = vm_faults
<1>1. VmInv'
  BY VaPage, AccessKeepsInv, FALSE \in BOOLEAN
<1> QED BY <1>1 DEF Access, Running, Idle

(* It ends: with the contents of the page, or with the page written. *)
LEMMA CompleteStep ==
  ASSUME VmInv, CompleteTest
  PROVE  /\ VmInv' /\ ~Idle /\ access' = NoAccess
         /\ held' = held /\ spaces' = spaces /\ cr3' = cr3 /\ vm_faults' = vm_faults
         /\ \A s \in spaces, page \in Pages :
              Translate(mem', s, page) = Translate(mem, s, page)
         /\ \A s \in spaces : mem'[s] = mem[s]
         /\ \E pa \in Phys :
              /\ Translate(mem, cr3, access.va.page) = {pa}
              /\ \A x \in Phys \ {pa} : mem'[x] = mem[x]
              /\ IF access.write = NoWrite
                 THEN mem' = mem /\ mem[pa] \in Contents /\ st' = [st EXCEPT !.val = mem[pa]]
                 ELSE mem'[pa] = access.write /\ st' = st
<1>1. VmInv'
  BY CompleteKeepsInv DEF CompleteTest
<1>2. PICK pa \in Phys : Completes(pa)
  BY CompleteOutcome DEF CompleteTest
<1>3. (CHOOSE x \in Target : TRUE) = pa
  BY <1>2 DEF Completes
<1>4. mem[pa] \in Contents
  BY DEF VmInv, Good, Memory
<1>5. \A s \in spaces : mem'[s] = mem[s]
  BY <1>2 DEF Completes, AllTables, VmInv, Good, Forest
<1>6. /\ Translate(mem, cr3, access.va.page) = {pa}
      /\ \A x \in Phys \ {pa} : mem'[x] = mem[x]
      /\ \A s \in spaces, page \in Pages :
           Translate(mem', s, page) = Translate(mem, s, page)
  BY <1>2 DEF Completes
<1>7. IF access.write = NoWrite
      THEN mem' = mem /\ st' = [st EXCEPT !.val = mem[pa]]
      ELSE mem'[pa] = access.write /\ st' = st
  BY <1>2, <1>3 DEF Completes, CompleteTest
<1> QED BY <1>1, <1>4, <1>5, <1>6, <1>7 DEF CompleteTest, Complete, Idle

(* Or it faults: the page is mapped, or nothing is. *)
LEMMA FaultStep ==
  ASSUME VmInv, FaultTest
  PROVE  /\ VmInv' /\ ~Idle /\ access' = access /\ st' = st
         /\ held' = held /\ spaces' = spaces /\ cr3' = cr3
         /\ \A s \in spaces, page \in Pages \ {access.va.page} :
              Translate(mem', s, page) = Translate(mem, s, page)
         /\ \A s \in spaces, i \in Index : i # HALF => mem'[s][i] = mem[s][i]
         /\ Translate(mem, cr3, access.va.page) = {}
         /\ access.va.page \notin HeapPages =>
              mem' = mem /\ vm_faults' = vm_faults
         /\ \/ /\ vm_faults' = vm_faults
               /\ Translate(mem', cr3, access.va.page) = {}
            \/ /\ vm_faults' = vm_faults + 1
               /\ Translate(mem', cr3, access.va.page) # {}
<1> DEFINE D == HeapFrames(mem) \cup held
           page == access.va.page
<1>1. VmInv'
  BY PageFaultKeepsInv DEF FaultTest
<1>2. /\ access # NoAccess /\ access' = access /\ st' = st /\ held' = held
      /\ spaces' = spaces /\ cr3' = cr3 /\ Target = {} /\ cr3 \in spaces
  BY DEF FaultTest, PageFault, VmInv, CpuTypes
<1>3. Translate(mem, cr3, page) = {} /\ page \in Pages
  BY <1>2, TargetMeaning
<1>4. PICK h \in vm_handle_page_fault(access.va, access.fetch) :
        /\ mem' = h.mem
        /\ vm_faults' = IF h.handled THEN vm_faults + 1 ELSE vm_faults
        /\ FaultFails(h, D) \/ \E pa \in Phys : FaultMaps(h, pa, D)
  BY PageFaultOutcome DEF FaultTest
<1>5. \A p2 \in HeapPages : p2[1] = HALF
  BY VmAssumption
<1> HIDE DEF D
<1>6. CASE FaultFails(h, D)
  <2>1. /\ \A s \in spaces, p2 \in Pages : Translate(mem', s, p2) = Translate(mem, s, p2)
        /\ vm_faults' = vm_faults
        /\ page \in HeapPages =>
             \A t \in spaces, i \in Index : i # page[1] => mem'[t][i] = mem[t][i]
        /\ page \notin HeapPages => mem' = mem
    BY <1>4, <1>6 DEF FaultFails
  <2>2. \A t \in spaces, i \in Index : i # HALF => mem'[t][i] = mem[t][i]
    BY <1>5, <2>1
  <2> QED BY <1>1, <1>2, <1>3, <2>1, <2>2 DEF Idle
<1>7. ASSUME NEW pa \in Phys, FaultMaps(h, pa, D)
      PROVE  /\ \A s \in spaces, p2 \in Pages \ {page} :
                  Translate(mem', s, p2) = Translate(mem, s, p2)
             /\ \A t \in spaces, i \in Index : i # HALF => mem'[t][i] = mem[t][i]
             /\ page \in HeapPages /\ vm_faults' = vm_faults + 1
             /\ Translate(mem', cr3, page) # {}
  <2>1. /\ Maps(mem, mem', spaces, D, cr3, page, pa)
        /\ page \in HeapPages /\ vm_faults' = vm_faults + 1
    BY <1>4, <1>7 DEF FaultMaps
  <2>2. \A t \in spaces, i \in Index : i # HALF => mem'[t][i] = mem[t][i]
    BY <1>5, <2>1 DEF Maps
  <2> HIDE DEF page
  <2> QED BY <2>1, <2>2 DEF Maps
<1> QED BY <1>1, <1>2, <1>3, <1>4, <1>6, <1>7 DEF Idle

-----------------------------------------------------------------------------
(* The script, step by step. *)

(* The history variable. *)
Dries == dry' = (dry \/ pmm'.free_frames = 0)

(* Where the script is decides which stage's invariant holds. *)
LEMMA StageAt ==
  ASSUME TestInv
  PROVE  /\ VmInv /\ StType /\ (st.ok \/ dry)
         /\ st.pc = "take" => TakeInv
         /\ st.pc \in MapPcs => MapInv
         /\ st.pc \in DemandPcs => DemandInv
         /\ st.pc \in CreatePcs => CreateInv
         /\ st.pc \in FramePcs => FramesInv
         /\ st.pc \in MapsPcs => MapsInv
         /\ st.pc \in TouchPcs => TouchInv
         /\ st.pc \in CleanPcs => CleanInv
         /\ st.pc \in EndPcs => EndInv
  BY DEF TestInv, Stage, At, MapPcs, DemandPcs, CreatePcs, FramePcs, MapsPcs, TouchPcs,
         CleanPcs, EndPcs

(* What an empty set of triples says. *)
LEMMA ShowsNothing ==
  ASSUME NEW m, NEW S, Shows(m, S, {}), NEW s \in S, NEW page \in Pages \ HeapPages
  PROVE  Translate(m, s, page) = {}
  BY DEF Shows

(* The first frame is taken, if there is one. *)
LEMMA TakeFirst ==
  ASSUME TestInv, Dries, st.pc = "take", NEW pa \in Answers, Take(pa),
         st' = [st EXCEPT !.frame = pa, !.pc = IF pa = 0 THEN "failed" ELSE "map"]
  PROVE  TestInv'
<1>1. VmInv /\ StType /\ TakeInv
  BY StageAt
<1>2. /\ VmInv' /\ Idle
      /\ mem' = mem /\ spaces' = spaces /\ cr3' = cr3 /\ access' = access
      /\ vm_faults' = vm_faults
      /\ \/ pa = 0 /\ held' = held /\ pmm'.free_frames = 0
         \/ pa \in Phys \ {0} /\ pa \notin held /\ held' = held \cup {pa}
  BY <1>1, TakeStep
<1>3. StType' /\ dry' \in BOOLEAN /\ (pa = 0 => dry')
  BY <1>1, <1>2, Basics DEF StType, Dries, Answers, MapPcs, EndPcs
<1>4. /\ st'.frame = pa /\ st'.a = st.a /\ st'.b = st.b /\ st'.fa = st.fa /\ st'.fb = st.fb
      /\ st'.k = st.k /\ st'.ok = st.ok /\ st'.val = st.val
      /\ st'.pc = IF pa = 0 THEN "failed" ELSE "map"
  BY <1>1 DEF StType
<1>5. CASE pa = 0
  <2>1. EndInv'
    BY <1>1, <1>2, <1>3, <1>4, <1>5 DEF TakeInv, EndInv, Idle, Untouched
  <2> QED BY <1>2, <1>3, <1>4, <1>5, <2>1 DEF TestInv, Stage, EndPcs
<1>6. CASE pa # 0
  <2>1. MapInv'
    BY <1>1, <1>2, <1>4, <1>6
       DEF TakeInv, MapInv, Idle, Untouched, NoneYet, At
  <2> QED BY <1>1, <1>2, <1>3, <1>4, <1>6, <2>1 DEF TestInv, Stage, MapPcs, TakeInv
<1> QED BY <1>5, <1>6

(* vm_map of the scratch page: three times, the third must fail. *)
LEMMA ScratchMapped ==
  ASSUME TestInv, Dries, NEW ok \in BOOLEAN, MapScratch(ok),
         \/ st.pc = "map" /\ AfterMap(ok)
         \/ st.pc = "remap" /\ Check(ok, IF ok THEN "double" ELSE "unmap2")
         \/ st.pc = "double" /\ Check(~ok, "unmap2")
  PROVE  TestInv'
<1> DEFINE R == IF st.pc = "double" THEN ScratchMap ELSE {}
<1>1. VmInv /\ StType /\ MapInv
  BY StageAt DEF MapPcs
<1>2. /\ st.ok /\ Untouched /\ held = {st.frame} /\ NoneYet /\ Idle /\ Shows(mem, spaces, R)
      /\ st.pc = "double" => Translate(mem, BootPml4, VM_SCRATCH_BASE) = {st.frame}
      /\ st.frame # 0
  BY <1>1 DEF MapInv, At
<1>3. /\ VmInv'
      /\ held' = held /\ spaces' = spaces /\ cr3' = cr3 /\ access' = access
      /\ vm_faults' = vm_faults
      /\ HeapSame(mem, mem')
      /\ Shows(mem', spaces, IF ok THEN R \cup ScratchMap ELSE R)
      /\ ok => /\ Translate(mem, BootPml4, VM_SCRATCH_BASE) = {}
               /\ Translate(mem', BootPml4, VM_SCRATCH_BASE) = {st.frame}
      /\ ~ok => \/ Translate(mem, BootPml4, VM_SCRATCH_BASE) # {}
                \/ pmm'.free_frames = 0
      /\ \A t \in spaces, i \in Index : i # VM_SCRATCH_BASE[1] => mem'[t][i] = mem[t][i]
  <2>1. /\ BootPml4 \in spaces /\ spaces = {BootPml4} /\ st.frame \in held
        /\ VM_SCRATCH_BASE \in ClientPages /\ ~Low(VM_SCRATCH_BASE)
    BY <1>2, TestPages DEF Untouched
  <2>2. Map(BootPml4, Va(VM_SCRATCH_BASE), st.frame, ok)
    BY DEF MapScratch
  <2>3. ScratchMap = {<<BootPml4, VM_SCRATCH_BASE, st.frame>>}
    BY DEF ScratchMap
  <2> HIDE DEF R
  <2>4. MapEffect(BootPml4, VM_SCRATCH_BASE, st.frame, ok, R)
    BY <1>1, <1>2, <2>1, <2>2, MapStep
  <2> QED BY <2>1, <2>3, <2>4 DEF MapEffect
<1>4. AllUnused(mem', spaces)
  BY <1>2, <1>3, TestPages DEF Untouched, AllUnused, Unused
<1>5. (NoneYet)'
  BY <1>2, <1>3, TestPages DEF NoneYet, HeapSame
<1>6. /\ st'.frame = st.frame /\ st'.a = st.a /\ st'.b = st.b /\ st'.fa = st.fa
      /\ st'.fb = st.fb /\ st'.k = st.k
  BY <1>1 DEF StType, AfterMap, Goto, Check
<1>7. /\ (Untouched)' /\ held' = {st'.frame} /\ st'.frame # 0 /\ (Idle)'
      /\ ScratchMap' = ScratchMap
  BY <1>2, <1>3, <1>4, <1>6 DEF Untouched, Idle, ScratchMap
<1>8. dry' \in BOOLEAN /\ (dry => dry') /\ (pmm'.free_frames = 0 => dry')
  BY <1>1 DEF StType, Dries
<1>9. ~ok /\ st.pc # "double" => dry'
  BY <1>2, <1>3, <1>8, ShowsNothing, TestPages DEF Untouched
<1>10. CASE st.pc = "map" \/ st.pc = "remap"
  <2>1. /\ st'.pc = IF ok THEN IF st.pc = "map" THEN "store" ELSE "double"
                    ELSE IF st.pc = "map" THEN "untake" ELSE "unmap2"
        /\ IF st.pc = "map" THEN st'.ok = st.ok ELSE st'.ok = (st.ok /\ ok)
        /\ st'.ok \in BOOLEAN /\ StType'
    BY <1>1, <1>3, <1>8, <1>10 DEF StType, AfterMap, Goto, Check, MapPcs
  <2>2. R = {}
    BY <1>10
  <2>3. Shows(mem', spaces, IF ok THEN ScratchMap ELSE {})
    BY <1>3, <2>2
  <2>4. /\ ok => st'.ok
        /\ st.pc = "map" => st'.ok
    BY <1>2, <2>1
  <2>5. Shows(mem', spaces', IF st'.pc \in {"store", "load", "unmap", "double", "unmap2"}
                             THEN ScratchMap' ELSE {})
    <3>1. \A Q : Shows(mem', spaces, {}) => Shows(mem', spaces, Q)
      BY DEF Shows
    <3> QED BY <1>3, <1>7, <1>10, <2>1, <2>3, <3>1
  <2>6. MapInv'
    BY <1>3, <1>5, <1>6, <1>7, <1>9, <1>10, <2>1, <2>4, <2>5 DEF MapInv, At
  <2> QED BY <1>3, <1>8, <1>9, <1>10, <2>1, <2>4, <2>6 DEF TestInv, Stage, MapPcs
<1>11. CASE st.pc = "double"
  <2>1. ~ok
    BY <1>2, <1>3, <1>11
  <2>2. st'.pc = "unmap2" /\ st'.ok /\ StType'
    BY <1>1, <1>2, <1>3, <1>8, <1>11, <2>1 DEF StType, Check, MapPcs
  <2>3. Shows(mem', spaces, ScratchMap)
    BY <1>3, <1>11, <2>1
  <2>4. MapInv'
    BY <1>3, <1>5, <1>7, <2>2, <2>3 DEF MapInv, At
  <2> QED BY <1>3, <2>2, <2>4 DEF TestInv, Stage, MapPcs
<1> QED BY <1>10, <1>11

(* The frame is given back, mapped nowhere. *)
LEMMA ScratchGiven ==
  ASSUME TestInv, Dries, Give(st.frame),
         \/ st.pc = "untake" /\ Goto("failed")
         \/ st.pc = "give" /\ CheckOrSkip(TRUE, "demand")
  PROVE  TestInv'
<1>1. VmInv /\ StType /\ MapInv /\ (st.ok \/ dry)
  BY StageAt DEF MapPcs
<1>2. /\ Untouched /\ held = {st.frame} /\ NoneYet /\ Shows(mem, spaces, {})
      /\ st.pc = "untake" => dry /\ st.ok
  BY <1>1 DEF MapInv, At
<1>3. /\ VmInv' /\ Idle
      /\ mem' = mem /\ spaces' = spaces /\ cr3' = cr3 /\ access' = access
      /\ vm_faults' = vm_faults /\ held' = held \ {st.frame}
  BY <1>1, <1>2, GiveStep
<1>4. /\ st'.frame = st.frame /\ st'.a = st.a /\ st'.b = st.b /\ st'.fa = st.fa
      /\ st'.fb = st.fb /\ st'.k = st.k /\ st'.ok = st.ok
      /\ st'.pc = IF st.pc = "untake" THEN "failed"
                  ELSE IF st.ok THEN "demand" ELSE "clean_a"
  BY <1>1 DEF StType, Goto, CheckOrSkip, Check
<1>5. StType' /\ (dry => dry')
  BY <1>1, <1>3 DEF StType, Dries, Goto, CheckOrSkip, Check, DemandPcs, CleanPcs, EndPcs
<1>6. /\ (Untouched)' /\ held' = {} /\ Shows(mem', spaces', {}) /\ (Idle)' /\ (NoneYet)'
  BY <1>2, <1>3, <1>4 DEF Untouched, Idle, AllUnused, Unused, NoneYet
<1>7. CASE st.pc = "untake"
  <2>1. EndInv'
    BY <1>2, <1>5, <1>6, <1>7 DEF EndInv, Untouched
  <2> QED BY <1>1, <1>3, <1>4, <1>5, <1>7, <2>1 DEF TestInv, Stage, EndPcs
<1>8. CASE st.pc = "give" /\ st.ok
  <2>1. DemandInv'
    BY <1>4, <1>6, <1>8 DEF DemandInv, At
  <2> QED BY <1>3, <1>4, <1>5, <1>8, <2>1 DEF TestInv, Stage, DemandPcs
<1>9. CASE st.pc = "give" /\ ~st.ok
  <2>1. st'.pc = "clean_a"
    BY <1>4, <1>9
  <2>2. Shows(mem', spaces', (MapA \cup MapB)')
    BY <1>6 DEF Shows
  <2>3. CleanInv'
    BY <1>6, <2>1, <2>2 DEF CleanInv, Untouched, At
  <2> QED BY <1>1, <1>3, <1>4, <1>5, <2>1, <2>3 DEF TestInv, Stage, CleanPcs
<1> QED BY <1>7, <1>8, <1>9

(* The scratch page is written, then read. *)
LEMMA ScratchAccessed ==
  ASSUME TestInv, Dries,
         \/ st.pc = "store" /\ Store(VM_SCRATCH_BASE, 1) /\ Goto("load")
         \/ st.pc = "load" /\ Load(VM_SCRATCH_BASE) /\ Goto("unmap")
  PROVE  TestInv'
<1> DEFINE write == IF st.pc = "store" THEN Word(1) ELSE NoWrite
<1>1. VmInv /\ StType /\ MapInv
  BY StageAt DEF MapPcs
<1>2. /\ Untouched /\ held = {st.frame} /\ st.frame # 0 /\ NoneYet /\ st.ok
      /\ Shows(mem, spaces, ScratchMap)
      /\ Translate(mem, BootPml4, VM_SCRATCH_BASE) = {st.frame}
      /\ st.pc = "load" /\ Idle => mem[st.frame] = Word(1)
  BY <1>1 DEF MapInv, At
<1>3. /\ VmInv' /\ Idle
      /\ mem' = mem /\ held' = held /\ spaces' = spaces /\ cr3' = cr3
      /\ access' = [va |-> Va(VM_SCRATCH_BASE), fetch |-> FALSE, write |-> write]
      /\ vm_faults' = vm_faults
  <2>1. VM_SCRATCH_BASE \in Pages /\ write \in Contents \cup {NoWrite}
    BY TestPages, WordContents
  <2>2. Access(Va(VM_SCRATCH_BASE), FALSE, write)
    BY DEF Store, Load
  <2> HIDE DEF write
  <2> QED BY <1>1, <2>1, <2>2, AccessStep
<1>4. /\ st'.frame = st.frame /\ st'.a = st.a /\ st'.b = st.b /\ st'.fa = st.fa
      /\ st'.fb = st.fb /\ st'.k = st.k /\ st'.ok = st.ok
      /\ st'.pc = IF st.pc = "store" THEN "load" ELSE "unmap"
  BY <1>1 DEF StType, Goto
<1>5. StType' /\ dry' \in BOOLEAN
  BY <1>1, <1>3 DEF StType, Dries, Goto, MapPcs
<1>6. /\ (Untouched)' /\ held' = {st'.frame} /\ Shows(mem', spaces', ScratchMap') /\ (NoneYet)'
      /\ ~(Idle)'
  BY <1>2, <1>3, <1>4 DEF Untouched, Idle, AllUnused, Unused, NoneYet, ScratchMap, NoAccess
<1>7. IF st.pc = "store" THEN (Accessing(VM_SCRATCH_BASE, Word(1)))'
      ELSE (Accessing(VM_SCRATCH_BASE, NoWrite))'
  BY <1>3 DEF Accessing, Va, Word
<1>8. MapInv'
  BY <1>2, <1>3, <1>4, <1>6, <1>7 DEF MapInv, At
<1> QED BY <1>2, <1>3, <1>4, <1>5, <1>8 DEF TestInv, Stage, MapPcs

(* The scratch page is unmapped, twice. *)
LEMMA ScratchUnmapped ==
  ASSUME TestInv, Dries, NEW pa \in Answers, UnmapScratch(pa),
         \/ st.pc = "unmap" /\ Check(st.val = Word(1) /\ pa = st.frame, "reject")
         \/ st.pc = "unmap2" /\ Goto("give")
  PROVE  TestInv'
<1>1. VmInv /\ StType /\ MapInv /\ (st.ok \/ dry)
  BY StageAt DEF MapPcs
<1>2. /\ Untouched /\ held = {st.frame} /\ st.frame # 0 /\ NoneYet
      /\ Shows(mem, spaces, ScratchMap)
      /\ st.pc = "unmap" => /\ Translate(mem, BootPml4, VM_SCRATCH_BASE) = {st.frame}
                            /\ st.ok
                            /\ Idle => st.val = Word(1)
  BY <1>1 DEF MapInv, At
<1>3. UnmapEffect(BootPml4, VM_SCRATCH_BASE, pa, {})
  <2>1. /\ BootPml4 \in spaces /\ VM_SCRATCH_BASE \in ClientPages
        /\ Unmap(BootPml4, Va(VM_SCRATCH_BASE), pa)
        /\ Shows(mem, spaces, {} \cup {<<BootPml4, VM_SCRATCH_BASE, st.frame>>})
    BY <1>2, TestPages DEF Untouched, UnmapScratch, ScratchMap
  <2> QED BY <1>1, <2>1, UnmapStep
<1>4. /\ VmInv' /\ Idle
      /\ held' = held /\ spaces' = spaces /\ cr3' = cr3 /\ access' = access
      /\ vm_faults' = vm_faults
      /\ HeapSame(mem, mem')
      /\ Shows(mem', spaces, {})
      /\ Translate(mem, BootPml4, VM_SCRATCH_BASE) \in {{}, {pa}}
      /\ \A t \in spaces, i \in Index : mem'[t][i] = mem[t][i]
  BY <1>3 DEF UnmapEffect
<1>5. /\ st'.frame = st.frame /\ st'.a = st.a /\ st'.b = st.b /\ st'.fa = st.fa
      /\ st'.fb = st.fb /\ st'.k = st.k /\ st'.ok = st.ok
      /\ st'.pc = IF st.pc = "unmap" THEN "reject" ELSE "give"
  BY <1>1, <1>2, <1>4 DEF StType, Goto, Check
<1>6. StType' /\ (dry => dry')
  BY <1>1, <1>4 DEF StType, Dries, Goto, Check, MapPcs
<1>7. (NoneYet)'
  BY <1>2, <1>4, TestPages DEF NoneYet, HeapSame
<1>8. /\ (Untouched)' /\ held' = {st'.frame} /\ (Idle)'
  BY <1>2, <1>4, <1>5, TestPages DEF Untouched, Idle, AllUnused, Unused
<1>9. MapInv'
  BY <1>2, <1>4, <1>5, <1>7, <1>8 DEF MapInv, At
<1> QED BY <1>1, <1>2, <1>4, <1>5, <1>6, <1>9 DEF TestInv, Stage, MapPcs

(* A page of the low gigabyte is refused. *)
LEMMA LowRefused ==
  ASSUME TestInv, Dries, NEW ok \in BOOLEAN, st.pc = "reject",
         Map(BootPml4, Va(LowPage), st.frame, ok), Check(~ok, "remap")
  PROVE  TestInv'
<1>1. VmInv /\ StType /\ MapInv
  BY StageAt DEF MapPcs
<1>2. /\ Untouched /\ held = {st.frame} /\ st.frame # 0 /\ NoneYet /\ st.ok
      /\ Shows(mem, spaces, {})
  BY <1>1 DEF MapInv, At
<1>3. MapEffect(BootPml4, LowPage, st.frame, ok, {})
  <2>1. /\ BootPml4 \in spaces /\ spaces = {BootPml4} /\ st.frame \in held
        /\ LowPage \in ClientPages
    BY <1>2, TestPages DEF Untouched
  <2> QED BY <1>1, <1>2, <2>1, MapStep
<1>4. ~ok
  BY <1>3, TestPages DEF MapEffect
<1>5. /\ VmInv' /\ Idle
      /\ held' = held /\ spaces' = spaces /\ cr3' = cr3 /\ access' = access
      /\ vm_faults' = vm_faults
      /\ HeapSame(mem, mem')
      /\ Shows(mem', spaces, {})
      /\ \A t \in spaces, i \in Index : i # LowPage[1] => mem'[t][i] = mem[t][i]
  BY <1>3, <1>4 DEF MapEffect
<1>6. /\ st'.frame = st.frame /\ st'.a = st.a /\ st'.b = st.b /\ st'.fa = st.fa
      /\ st'.fb = st.fb /\ st'.k = st.k /\ st'.ok = st.ok /\ st'.pc = "remap"
  BY <1>1, <1>2, <1>4 DEF StType, Check
<1>7. StType' /\ (dry => dry')
  BY <1>1, <1>5 DEF StType, Dries, Check, MapPcs
<1>8. (NoneYet)'
  BY <1>2, <1>5, TestPages DEF NoneYet, HeapSame
<1>9. /\ (Untouched)' /\ held' = {st'.frame} /\ (Idle)'
  BY <1>2, <1>5, <1>6, TestPages DEF Untouched, Idle, AllUnused, Unused
<1>10. MapInv'
  BY <1>2, <1>5, <1>6, <1>8, <1>9 DEF MapInv, At
<1> QED BY <1>2, <1>5, <1>6, <1>7, <1>10 DEF TestInv, Stage, MapPcs

(* What the end of an access leaves alone. *)
LEMMA CompleteFrame ==
  ASSUME TestInv, Dries, CompleteTest
  PROVE  /\ VmInv' /\ StType' /\ ~Idle /\ (Idle)' /\ (dry => dry')
         /\ st'.pc = st.pc /\ st'.ok = st.ok /\ st'.frame = st.frame /\ st'.a = st.a
         /\ st'.b = st.b /\ st'.fa = st.fa /\ st'.fb = st.fb /\ st'.k = st.k /\ st'.c0 = st.c0
         /\ held' = held /\ spaces' = spaces /\ cr3' = cr3 /\ vm_faults' = vm_faults
         /\ \A s \in spaces, page \in Pages :
              Translate(mem', s, page) = Translate(mem, s, page)
         /\ \A R : Shows(mem, spaces, R) => Shows(mem', spaces', R)
         /\ Untouched => (Untouched)'
<1>1. VmInv /\ StType
  BY StageAt
<1>2. /\ VmInv' /\ ~Idle /\ access' = NoAccess
      /\ held' = held /\ spaces' = spaces /\ cr3' = cr3 /\ vm_faults' = vm_faults
      /\ \A s \in spaces, page \in Pages : Translate(mem', s, page) = Translate(mem, s, page)
      /\ \A s \in spaces : mem'[s] = mem[s]
  BY <1>1, CompleteStep
<1>3. \/ st' = st
      \/ \E pa \in Phys : mem[pa] \in Contents /\ st' = [st EXCEPT !.val = mem[pa]]
  BY <1>1, CompleteStep
<1>4. /\ st'.pc = st.pc /\ st'.ok = st.ok /\ st'.frame = st.frame /\ st'.a = st.a
      /\ st'.b = st.b /\ st'.fa = st.fa /\ st'.fb = st.fb /\ st'.k = st.k /\ st'.c0 = st.c0
  BY <1>1, <1>3 DEF StType
<1>5. StType' /\ (dry => dry')
  BY <1>1, <1>2, <1>3 DEF StType, Dries
<1>6. \A R : Shows(mem, spaces, R) => Shows(mem', spaces', R)
  BY <1>2 DEF Shows
<1>7. Untouched => (Untouched)'
  BY <1>2, <1>4 DEF Untouched, AllUnused, Unused
<1> QED BY <1>2, <1>4, <1>5, <1>6, <1>7 DEF Idle

(* What a page fault leaves alone. *)
LEMMA FaultFrame ==
  ASSUME TestInv, Dries, FaultTest
  PROVE  /\ VmInv' /\ StType' /\ ~Idle /\ access' = access /\ st' = st /\ (dry => dry')
         /\ held' = held /\ spaces' = spaces /\ cr3' = cr3
         /\ \A s \in spaces, page \in Pages \ {access.va.page} :
              Translate(mem', s, page) = Translate(mem, s, page)
         /\ Translate(mem, cr3, access.va.page) = {}
         /\ access.va.page \notin HeapPages => mem' = mem /\ vm_faults' = vm_faults
         /\ \A R : Shows(mem, spaces, R) => Shows(mem', spaces', R)
         /\ Untouched => (Untouched)'
<1>1. VmInv /\ StType
  BY StageAt
<1>2. /\ VmInv' /\ ~Idle /\ access' = access /\ st' = st
      /\ held' = held /\ spaces' = spaces /\ cr3' = cr3
      /\ \A s \in spaces, page \in Pages \ {access.va.page} :
           Translate(mem', s, page) = Translate(mem, s, page)
      /\ \A s \in spaces, i \in Index : i # HALF => mem'[s][i] = mem[s][i]
      /\ Translate(mem, cr3, access.va.page) = {}
      /\ access.va.page \notin HeapPages => mem' = mem /\ vm_faults' = vm_faults
      /\ vm_faults' = vm_faults \/ vm_faults' = vm_faults + 1
  BY <1>1, FaultStep
<1>3. StType' /\ (dry => dry')
  BY <1>1, <1>2 DEF StType, Dries
<1>4. \A R : Shows(mem, spaces, R) => Shows(mem', spaces', R)
  <2>1. CASE access.va.page \in HeapPages
    BY <1>2, <2>1 DEF Shows
  <2>2. CASE access.va.page \notin HeapPages
    BY <1>2, <2>2
  <2> QED BY <2>1, <2>2
<1>5. Untouched => (Untouched)'
  BY <1>2, TestPages DEF Untouched, AllUnused, Unused
<1> QED BY <1>2, <1>3, <1>4, <1>5

(* heap_init's write, under way when the script starts. *)
LEMMA FirstWrite ==
  ASSUME TestInv, Dries, st.pc = "take", CompleteTest \/ FaultTest
  PROVE  TestInv'
<1>1. /\ TakeInv /\ LastHeapPage \in Pages \ {FirstHeapPage}
      /\ BootPml4 \in spaces /\ Shows(mem, spaces, {})
  BY StageAt, TestPages DEF TakeInv, Untouched
<1>2. CASE CompleteTest
  <2>1. TakeInv'
    BY <1>1, <1>2, CompleteFrame DEF TakeInv, NoneYet
  <2> QED BY <1>1, <1>2, <2>1, CompleteFrame DEF TestInv, Stage, At, TakeInv
<1>3. CASE FaultTest
  <2>1. access.va.page = FirstHeapPage
    BY <1>1, <1>3, FaultFrame DEF TakeInv
  <2>2. TakeInv'
    BY <1>1, <1>3, <2>1, FaultFrame DEF TakeInv, NoneYet, Idle
  <2> QED BY <1>1, <1>3, <2>2, FaultFrame DEF TestInv, Stage, At, TakeInv
<1> QED BY <1>2, <1>3

(* The accesses to the scratch page, which never fault. *)
LEMMA ScratchArrives ==
  ASSUME TestInv, Dries, st.pc \in MapPcs, CompleteTest \/ FaultTest
  PROVE  TestInv'
<1>1. /\ VmInv /\ StType /\ MapInv /\ LastHeapPage \in Pages /\ VM_SCRATCH_BASE \in Pages
      /\ BootPml4 \in spaces /\ cr3 = BootPml4
  BY StageAt, TestPages DEF MapInv, Untouched
<1>2. ~Idle
  BY CompleteFrame, FaultFrame
<1>3. /\ st.pc \in {"load", "unmap"} /\ st.ok
      /\ Shows(mem, spaces, ScratchMap)
      /\ Translate(mem, BootPml4, VM_SCRATCH_BASE) = {st.frame}
      /\ st.pc = "load" => Accessing(VM_SCRATCH_BASE, Word(1))
      /\ st.pc = "unmap" => Accessing(VM_SCRATCH_BASE, NoWrite) /\ mem[st.frame] = Word(1)
  BY <1>1, <1>2 DEF MapInv, At
<1>4. access.va.page = VM_SCRATCH_BASE
  BY <1>3 DEF Accessing, Va
<1>5. ~FaultTest
  BY <1>1, <1>3, <1>4, FaultFrame
<1>6. CompleteTest
  BY <1>5
<1>7. ScratchMap' = ScratchMap /\ (NoneYet)' /\ (Untouched)'
  BY <1>1, <1>6, CompleteFrame DEF MapInv, ScratchMap, NoneYet
<1>8. IF st.pc = "load" THEN mem'[st.frame] = Word(1) ELSE st'.val = Word(1)
  <2>1. PICK pa \in Phys :
          /\ Translate(mem, cr3, access.va.page) = {pa}
          /\ IF access.write = NoWrite
             THEN mem' = mem /\ st' = [st EXCEPT !.val = mem[pa]]
             ELSE mem'[pa] = access.write /\ st' = st
    BY <1>1, <1>6, CompleteStep
  <2>2. pa = st.frame
    BY <1>1, <1>3, <1>4, <2>1
  <2>3. CASE st.pc = "load"
    <3>1. access.write = Word(1) /\ Word(1) # NoWrite
      BY <1>3, <2>3, WordContents DEF Accessing
    <3> QED BY <2>1, <2>2, <2>3, <3>1
  <2>4. CASE st.pc = "unmap"
    <3>1. access.write = NoWrite
      BY <1>3, <2>4 DEF Accessing
    <3> QED BY <1>1, <1>3, <2>1, <2>2, <2>4, <3>1 DEF StType
  <2> QED BY <1>3, <2>3, <2>4
<1>9. /\ st'.pc = st.pc /\ st'.ok = st.ok /\ st'.frame = st.frame /\ (Idle)'
      /\ held' = held /\ Shows(mem', spaces', ScratchMap')
      /\ Translate(mem', BootPml4, VM_SCRATCH_BASE) = {st.frame}
      /\ VmInv' /\ StType'
  BY <1>1, <1>3, <1>6, <1>7, CompleteFrame
<1>10. MapInv'
  BY <1>1, <1>3, <1>7, <1>8, <1>9 DEF MapInv, At
<1> QED BY <1>3, <1>9, <1>10 DEF TestInv, Stage, MapPcs

(* The last heap page is written, then read. *)
LEMMA DemandAccessed ==
  ASSUME TestInv, Dries,
         \/ /\ st.pc = "demand" /\ Store(LastHeapPage, 2)
            /\ st' = [st EXCEPT !.c0 = vm_faults, !.pc = "demand_load"]
         \/ /\ st.pc = "demand_load" /\ Load(LastHeapPage)
            /\ Check(vm_faults = st.c0 + 1, "demand_check")
  PROVE  TestInv'
<1> DEFINE write == IF st.pc = "demand" THEN Word(2) ELSE NoWrite
<1>1. VmInv /\ StType /\ DemandInv
  BY StageAt DEF DemandPcs
<1>2. /\ VmInv' /\ Idle
      /\ mem' = mem /\ held' = held /\ spaces' = spaces /\ cr3' = cr3
      /\ access' = [va |-> Va(LastHeapPage), fetch |-> FALSE, write |-> write]
      /\ vm_faults' = vm_faults
  <2>1. LastHeapPage \in Pages /\ write \in Contents \cup {NoWrite}
    BY TestPages, WordContents
  <2>2. Access(Va(LastHeapPage), FALSE, write)
    BY DEF Store, Load
  <2> HIDE DEF write
  <2> QED BY <1>1, <2>1, <2>2, AccessStep
<1>3. /\ Untouched /\ held = {} /\ Shows(mem, spaces, {}) /\ st.ok
      /\ st.pc = "demand" => NoneYet
      /\ st.pc = "demand_load" => vm_faults = st.c0 + 1 /\ LastShows(Word(2))
  <2>1. st.pc = "demand_load" /\ Accessing(LastHeapPage, Word(2)) => ~Idle
    BY DEF Accessing, Idle, NoAccess
  <2> QED BY <1>1, <1>2, <2>1 DEF DemandInv, At
<1>4. /\ st'.frame = st.frame /\ st'.a = st.a /\ st'.b = st.b /\ st'.fa = st.fa
      /\ st'.fb = st.fb /\ st'.k = st.k /\ st'.ok = st.ok
      /\ st.pc = "demand" => st'.c0 = vm_faults /\ st'.pc = "demand_load"
      /\ st.pc = "demand_load" => st'.c0 = st.c0 /\ st'.pc = "demand_check"
  BY <1>1, <1>3 DEF StType, Check
<1>5. StType' /\ dry' \in BOOLEAN
  BY <1>1, <1>2 DEF StType, Dries, Check, DemandPcs
<1>6. /\ (Untouched)' /\ held' = {} /\ Shows(mem', spaces', {})
      /\ NoneYet => (NoneYet)'
      /\ LastShows(Word(2)) => (LastShows(Word(2)))'
  BY <1>2, <1>3, <1>4 DEF Untouched, AllUnused, Unused, NoneYet, LastShows, Word
<1>7. IF st.pc = "demand" THEN (Accessing(LastHeapPage, Word(2)))'
      ELSE (Accessing(LastHeapPage, NoWrite))'
  BY <1>2 DEF Accessing, Va, Word
<1>8. DemandInv'
  BY <1>2, <1>3, <1>4, <1>6, <1>7 DEF DemandInv, At
<1> QED BY <1>2, <1>3, <1>4, <1>5, <1>8 DEF TestInv, Stage, DemandPcs

(* That took one fault, and the page shows what was written. *)
LEMMA DemandChecked ==
  ASSUME TestInv, Dries, st.pc = "demand_check", Running, UNCHANGED vmVars,
         CheckOrSkip(vm_faults = st.c0 + 1 /\ st.val = Word(2), "create_a")
  PROVE  TestInv'
<1>1. VmInv /\ StType /\ DemandInv
  BY StageAt DEF DemandPcs
<1>2. Idle
  BY DEF Running, Idle
<1>3. /\ Untouched /\ held = {} /\ Shows(mem, spaces, {}) /\ st.ok
      /\ vm_faults = st.c0 + 1 /\ st.val = Word(2)
  <2>1. ~Accessing(LastHeapPage, NoWrite)
    BY <1>2 DEF Accessing, Idle, NoAccess
  <2> QED BY <1>1, <2>1 DEF DemandInv, At
<1>4. VmInv'
  BY <1>1, VmNextInv
<1>5. /\ mem' = mem /\ held' = held /\ spaces' = spaces /\ cr3' = cr3
      /\ access' = access /\ vm_faults' = vm_faults
  BY DEF vmVars
<1>6. /\ st'.frame = st.frame /\ st'.a = st.a /\ st'.b = st.b /\ st'.fa = st.fa
      /\ st'.fb = st.fb /\ st'.k = st.k /\ st'.ok = st.ok /\ st'.pc = "create_a"
  BY <1>1, <1>3 DEF StType, CheckOrSkip, Check
<1>7. StType' /\ dry' \in BOOLEAN
  BY <1>1, <1>5 DEF StType, Dries, CheckOrSkip, Check, CreatePcs, CleanPcs
<1>8. CreateInv'
  BY <1>2, <1>3, <1>5, <1>6 DEF CreateInv, Untouched, Idle, AllUnused, Unused, At
<1> QED BY <1>3, <1>4, <1>6, <1>7, <1>8 DEF TestInv, Stage, CreatePcs

(* The write faults once, or until there is no frame; the read does not. *)
LEMMA DemandArrives ==
  ASSUME TestInv, Dries, st.pc \in DemandPcs, CompleteTest \/ FaultTest
  PROVE  TestInv'
<1>1. /\ VmInv /\ StType /\ DemandInv /\ LastHeapPage \in Pages /\ LastHeapPage \in HeapPages
      /\ BootPml4 \in spaces /\ cr3 = BootPml4
  BY StageAt, TestPages DEF DemandInv, Untouched
<1>2. ~Idle
  BY CompleteFrame, FaultFrame
<1>3. /\ st.pc \in {"demand_load", "demand_check"} /\ st.ok /\ Shows(mem, spaces, {})
      /\ Untouched /\ held = {}
      /\ st.pc = "demand_load" =>
           /\ Accessing(LastHeapPage, Word(2))
           /\ vm_faults = IF NoneYet THEN st.c0 ELSE st.c0 + 1
      /\ st.pc = "demand_check" =>
           /\ Accessing(LastHeapPage, NoWrite) /\ LastShows(Word(2))
           /\ vm_faults = st.c0 + 1
  BY <1>1, <1>2 DEF DemandInv, At, DemandPcs
<1>4. access.va.page = LastHeapPage
  BY <1>3 DEF Accessing, Va
<1>5. CASE FaultTest
  <2>1. NoneYet
    BY <1>1, <1>4, <1>5, FaultFrame DEF NoneYet
  <2>2. st.pc = "demand_load" /\ vm_faults = st.c0
    BY <1>3, <2>1 DEF NoneYet, LastShows
  <2>3. (Accessing(LastHeapPage, Word(2)))'
    BY <1>3, <1>5, <2>2, FaultFrame DEF Accessing, Va, Word
  <2>4. vm_faults' = (IF NoneYet THEN st.c0 ELSE st.c0 + 1)'
    <3>1. \/ /\ vm_faults' = vm_faults
             /\ Translate(mem', cr3, access.va.page) = {}
          \/ /\ vm_faults' = vm_faults + 1
             /\ Translate(mem', cr3, access.va.page) # {}
      BY <1>1, <1>5, FaultStep
    <3>2. st' = st
      BY <1>5, FaultFrame
    <3> QED BY <1>1, <1>4, <2>2, <3>1, <3>2 DEF NoneYet
  <2>5. /\ VmInv' /\ StType' /\ st' = st /\ (Untouched)' /\ held' = {}
        /\ Shows(mem', spaces', {})
    BY <1>3, <1>5, FaultFrame
  <2>6. DemandInv'
    BY <1>3, <2>2, <2>3, <2>4, <2>5 DEF DemandInv, At
  <2> QED BY <1>3, <2>2, <2>5, <2>6 DEF TestInv, Stage, DemandPcs
<1>6. CASE CompleteTest
  <2>1. PICK pa \in Phys :
          /\ Translate(mem, cr3, access.va.page) = {pa}
          /\ IF access.write = NoWrite
             THEN mem' = mem /\ st' = [st EXCEPT !.val = mem[pa]]
             ELSE mem'[pa] = access.write /\ st' = st
    BY <1>1, <1>6, CompleteStep
  <2>2. Translate(mem, BootPml4, LastHeapPage) = {pa} /\ ~NoneYet
    BY <1>1, <1>4, <2>1 DEF NoneYet
  <2>3. Translate(mem', BootPml4, LastHeapPage) = {pa}
    BY <1>1, <1>6, <2>2, CompleteFrame
  <2>4. /\ VmInv' /\ StType' /\ (Untouched)' /\ held' = {} /\ (Idle)'
        /\ Shows(mem', spaces', {}) /\ st'.ok /\ st'.c0 = st.c0 /\ st'.pc = st.pc
        /\ vm_faults' = vm_faults
    BY <1>3, <1>6, CompleteFrame
  <2>5. CASE st.pc = "demand_load"
    <3>1. access.write = Word(2) /\ Word(2) # NoWrite
      BY <1>3, <2>5, WordContents DEF Accessing
    <3>2. (LastShows(Word(2)))'
      BY <2>1, <2>3, <3>1 DEF LastShows, Word
    <3>3. DemandInv'
      BY <1>3, <2>2, <2>4, <2>5, <3>2 DEF DemandInv, At
    <3> QED BY <2>4, <2>5, <3>3 DEF TestInv, Stage, DemandPcs
  <2>6. CASE st.pc = "demand_check"
    <3>1. access.write = NoWrite
      BY <1>3, <2>6 DEF Accessing
    <3>2. mem[pa] = Word(2)
      BY <1>3, <2>2, <2>6 DEF LastShows
    <3>3. st'.val = Word(2)
      BY <1>1, <2>1, <3>1, <3>2 DEF StType
    <3>4. DemandInv'
      BY <1>3, <2>4, <2>6, <3>3 DEF DemandInv, At, Word
    <3> QED BY <2>4, <2>6, <3>4 DEF TestInv, Stage, DemandPcs
  <2> QED BY <1>3, <2>5, <2>6
<1> QED BY <1>5, <1>6

(* 0 is no space. *)
LEMMA SpacesNotZero == VmInv => 0 \notin spaces /\ spaces \subseteq Phys
  BY DEF VmInv, Good, Forest, AllTables

(* Two spaces, or too few frames for them. *)
LEMMA SpaceCreated ==
  ASSUME TestInv, Dries, NEW pa \in Answers, vm_create_space(pa),
         \/ st.pc = "create_a" /\ st' = [st EXCEPT !.a = pa, !.pc = "create_b"]
         \/ /\ st.pc = "create_b"
            /\ LET ok == st.a # 0 /\ pa # 0
               IN  st' = [st EXCEPT !.b = pa, !.ok = ok,
                                    !.pc = IF ok THEN "take_a" ELSE "clean_a"]
  PROVE  TestInv'
<1>1. VmInv /\ StType /\ CreateInv /\ 0 \notin spaces
  BY StageAt, SpacesNotZero DEF CreatePcs
<1>2. /\ Idle /\ cr3 = BootPml4 /\ Shows(mem, spaces, {}) /\ held = {} /\ st.ok
      /\ AllUnused(mem, spaces)
      /\ st.fa = 0 /\ st.fb = 0 /\ st.k = 1 /\ st.b = 0
      /\ st.pc = "create_b" => st.a \in spaces \/ (st.a = 0 /\ dry)
  BY <1>1 DEF CreateInv, At
<1>3. /\ VmInv'
      /\ held' = held /\ cr3' = cr3 /\ access' = access /\ vm_faults' = vm_faults
      /\ Shows(mem', spaces', {}) /\ AllUnused(mem', spaces')
      /\ \/ pa = 0 /\ spaces' = spaces /\ pmm'.free_frames = 0
         \/ pa \in Phys \ {0} /\ pa \notin spaces /\ spaces' = spaces \cup {pa}
  BY <1>1, <1>2, CreateStep
<1>4. /\ dry' \in BOOLEAN /\ (dry => dry') /\ (pa = 0 => dry') /\ (Idle)'
      /\ pa = 0 \/ pa \in spaces'
  BY <1>1, <1>2, <1>3 DEF StType, Dries, Idle
<1>5. StType'
  <2>1. \/ st' = [st EXCEPT !.a = pa, !.pc = "create_b"]
        \/ st' = [st EXCEPT !.b = pa, !.ok = TRUE, !.pc = "take_a"]
        \/ st' = [st EXCEPT !.b = pa, !.ok = FALSE, !.pc = "clean_a"]
    OBVIOUS
  <2>2. CASE st' = [st EXCEPT !.a = pa, !.pc = "create_b"]
    BY <1>1, <1>3, <1>4, <2>2 DEF StType, Answers, CreatePcs, FramePcs, CleanPcs
  <2>3. CASE st' = [st EXCEPT !.b = pa, !.ok = TRUE, !.pc = "take_a"]
    BY <1>1, <1>3, <1>4, <2>3 DEF StType, Answers, CreatePcs, FramePcs, CleanPcs
  <2>4. CASE st' = [st EXCEPT !.b = pa, !.ok = FALSE, !.pc = "clean_a"]
    BY <1>1, <1>3, <1>4, <2>4 DEF StType, Answers, CreatePcs, FramePcs, CleanPcs
  <2> QED BY <2>1, <2>2, <2>3, <2>4
<1>6. CASE st.pc = "create_a"
  <2>1. /\ st'.a = pa /\ st'.b = 0 /\ st'.fa = 0 /\ st'.fb = 0 /\ st'.k = 1 /\ st'.ok
        /\ st'.pc = "create_b"
    BY <1>1, <1>2, <1>6 DEF StType
  <2>2. CreateInv'
    BY <1>2, <1>3, <1>4, <2>1 DEF CreateInv, At
  <2> QED BY <1>3, <1>5, <2>1, <2>2 DEF TestInv, Stage, CreatePcs
<1>7. CASE st.pc = "create_b"
  <2>1. /\ st'.a = st.a /\ st'.b = pa /\ st'.fa = 0 /\ st'.fb = 0 /\ st'.k = 1
        /\ st'.ok = (st.a # 0 /\ pa # 0)
        /\ st'.pc = IF st.a # 0 /\ pa # 0 THEN "take_a" ELSE "clean_a"
    BY <1>1, <1>2, <1>7 DEF StType
  <2>2. CASE st.a # 0 /\ pa # 0
    <3>1. TwoSpaces'
      BY <1>2, <1>3, <1>7, <2>1, <2>2 DEF TwoSpaces
    <3>2. FramesInv'
      BY <1>2, <1>3, <1>4, <2>1, <2>2, <3>1 DEF FramesInv, At
    <3> QED BY <1>3, <1>5, <2>1, <2>2, <3>2 DEF TestInv, Stage, FramePcs
  <2>3. CASE ~(st.a # 0 /\ pa # 0)
    <3>1. dry'
      BY <1>1, <1>2, <1>4, <1>7, <2>3
    <3>2. Shows(mem', spaces', (MapA \cup MapB)')
      BY <1>3 DEF Shows
    <3>3. CleanInv'
      BY <1>2, <1>3, <1>4, <1>7, <2>1, <2>3, <3>2 DEF CleanInv, At
    <3> QED BY <1>3, <1>5, <2>1, <2>3, <3>1, <3>3 DEF TestInv, Stage, CleanPcs
  <2> QED BY <2>2, <2>3
<1> QED BY <1>6, <1>7

(* A frame for each space. *)
LEMMA FrameFetched ==
  ASSUME TestInv, Dries, NEW pa \in Answers, Take(pa),
         \/ st.pc = "take_a" /\ st' = [st EXCEPT !.fa = pa, !.pc = "take_b"]
         \/ /\ st.pc = "take_b"
            /\ LET ok == st.fa # 0 /\ pa # 0
               IN  st' = [st EXCEPT !.fb = pa, !.ok = ok,
                                    !.pc = IF ok THEN "map_a" ELSE "clean_a"]
  PROVE  TestInv'
<1>1. VmInv /\ StType /\ FramesInv
  BY StageAt DEF FramePcs
<1>2. /\ Idle /\ cr3 = BootPml4 /\ Shows(mem, spaces, {}) /\ st.ok /\ TwoSpaces
      /\ AllUnused(mem, spaces)
      /\ st.fb = 0 /\ st.k = 1 /\ held = {st.fa} \ {0}
      /\ st.pc = "take_a" => st.fa = 0
      /\ st.pc = "take_b" => st.fa # 0 \/ dry
  BY <1>1 DEF FramesInv, At
<1>3. /\ VmInv' /\ Idle
      /\ mem' = mem /\ spaces' = spaces /\ cr3' = cr3 /\ access' = access
      /\ vm_faults' = vm_faults
      /\ \/ pa = 0 /\ held' = held /\ pmm'.free_frames = 0
         \/ pa \in Phys \ {0} /\ pa \notin held /\ held' = held \cup {pa}
  BY <1>1, TakeStep
<1>4. /\ dry' \in BOOLEAN /\ (dry => dry') /\ (pa = 0 => dry') /\ (Idle)'
  BY <1>1, <1>3 DEF StType, Dries, Idle
<1>5. StType'
  <2>1. \/ st' = [st EXCEPT !.fa = pa, !.pc = "take_b"]
        \/ st' = [st EXCEPT !.fb = pa, !.ok = TRUE, !.pc = "map_a"]
        \/ st' = [st EXCEPT !.fb = pa, !.ok = FALSE, !.pc = "clean_a"]
    OBVIOUS
  <2>2. CASE st' = [st EXCEPT !.fa = pa, !.pc = "take_b"]
    BY <1>1, <1>3, <1>4, <2>2 DEF StType, Answers, FramePcs, MapsPcs, CleanPcs
  <2>3. CASE st' = [st EXCEPT !.fb = pa, !.ok = TRUE, !.pc = "map_a"]
    BY <1>1, <1>3, <1>4, <2>3 DEF StType, Answers, FramePcs, MapsPcs, CleanPcs
  <2>4. CASE st' = [st EXCEPT !.fb = pa, !.ok = FALSE, !.pc = "clean_a"]
    BY <1>1, <1>3, <1>4, <2>4 DEF StType, Answers, FramePcs, MapsPcs, CleanPcs
  <2> QED BY <2>1, <2>2, <2>3, <2>4
<1>6. CASE st.pc = "take_a"
  <2>1. /\ st'.a = st.a /\ st'.b = st.b /\ st'.fa = pa /\ st'.fb = 0 /\ st'.k = 1 /\ st'.ok
        /\ st'.pc = "take_b"
    BY <1>1, <1>2, <1>6 DEF StType
  <2>2. FramesInv'
    BY <1>2, <1>3, <1>4, <1>6, <2>1 DEF FramesInv, TwoSpaces, AllUnused, Unused, At
  <2> QED BY <1>3, <1>5, <2>1, <2>2 DEF TestInv, Stage, FramePcs
<1>7. CASE st.pc = "take_b"
  <2>1. /\ st'.a = st.a /\ st'.b = st.b /\ st'.fa = st.fa /\ st'.fb = pa /\ st'.k = 1
        /\ st'.ok = (st.fa # 0 /\ pa # 0)
        /\ st'.pc = IF st.fa # 0 /\ pa # 0 THEN "map_a" ELSE "clean_a"
    BY <1>1, <1>2, <1>7 DEF StType
  <2>2. CASE st.fa # 0 /\ pa # 0
    <3>1. TwoFrames' /\ TwoSpaces'
      BY <1>2, <1>3, <2>1, <2>2 DEF TwoFrames, TwoSpaces
    <3>2. Unused(mem', st'.a) /\ Unused(mem', st'.b)
      BY <1>2, <1>3, <2>1 DEF TwoSpaces, AllUnused
    <3>3. MapsInv'
      BY <1>2, <1>3, <1>4, <2>1, <2>2, <3>1, <3>2 DEF MapsInv, At
    <3> QED BY <1>3, <1>5, <2>1, <2>2, <3>3 DEF TestInv, Stage, MapsPcs
  <2>3. CASE ~(st.fa # 0 /\ pa # 0)
    <3>1. dry'
      BY <1>2, <1>4, <1>7, <2>3
    <3>2. Shows(mem', spaces', (MapA \cup MapB)')
      BY <1>2, <1>3 DEF Shows
    <3>3. CleanInv'
      BY <1>2, <1>3, <1>4, <2>1, <2>3, <3>2 DEF CleanInv, TwoSpaces, At
    <3> QED BY <1>3, <1>5, <2>1, <2>3, <3>1, <3>3 DEF TestInv, Stage, CleanPcs
  <2> QED BY <2>2, <2>3
<1> QED BY <1>6, <1>7

(* The same page in each space, on tables of its own. *)
LEMMA SpacesMapped ==
  ASSUME TestInv, Dries, NEW ok \in BOOLEAN,
         \/ /\ st.pc = "map_a" /\ Map(st.a, Va(VM_SPACE_TEST_BASE), st.fa, ok)
            /\ CheckOrSkip(ok, "map_b")
         \/ /\ st.pc = "map_b" /\ Map(st.b, Va(VM_SPACE_TEST_BASE), st.fb, ok)
            /\ CheckOrSkip(ok, "switch")
  PROVE  TestInv'
<1> DEFINE R == IF st.pc = "map_a" THEN {} ELSE MapA
           s == IF st.pc = "map_a" THEN st.a ELSE st.b
           f == IF st.pc = "map_a" THEN st.fa ELSE st.fb
           new == <<s, VM_SPACE_TEST_BASE, f>>
<1>1. VmInv /\ StType /\ MapsInv
  BY StageAt DEF MapsPcs
<1>2. /\ Idle /\ cr3 = BootPml4 /\ st.ok /\ TwoSpaces /\ TwoFrames /\ st.k = 1
      /\ Unused(mem, s) /\ (st.pc = "map_a" => Unused(mem, st.b))
      /\ Shows(mem, spaces, R)
  BY <1>1 DEF MapsInv, At
<1>3. /\ s \in spaces /\ f \in held /\ Map(s, Va(VM_SPACE_TEST_BASE), f, ok)
      /\ VM_SPACE_TEST_BASE \in ClientPages
      /\ mem[s][VM_SPACE_TEST_BASE[1]] = 0
  BY <1>2, TestPages DEF TwoSpaces, TwoFrames, Unused
<1>4. MapEffect(s, VM_SPACE_TEST_BASE, f, ok, R)
  <2> HIDE DEF R, s, f
  <2> QED BY <1>1, <1>2, <1>3, MapStep
<1>5. Translate(mem, s, VM_SPACE_TEST_BASE) = {} /\ ~Low(VM_SPACE_TEST_BASE)
  <2>1. VM_SPACE_TEST_BASE \in Pages \ HeapPages
    BY TestPages
  <2>2. ASSUME NEW x \in Translate(mem, s, VM_SPACE_TEST_BASE) PROVE FALSE
    <3>1. <<s, VM_SPACE_TEST_BASE, x>> \in R
      BY <1>2, <1>3, <2>1, <2>2 DEF Shows
    <3> QED BY <1>2, <3>1 DEF MapA, TwoSpaces
  <2> QED BY <2>2, TestPages
<1>6. /\ VmInv'
      /\ held' = held /\ spaces' = spaces /\ cr3' = cr3 /\ access' = access
      /\ vm_faults' = vm_faults
      /\ Shows(mem', spaces, IF ok THEN R \cup {new} ELSE R)
      /\ ~ok => pmm'.free_frames = 0
      /\ \A t \in spaces \ {s} : mem'[t][VM_SPACE_TEST_BASE[1]] = mem[t][VM_SPACE_TEST_BASE[1]]
  <2> HIDE DEF R, s, f
  <2> QED BY <1>4, <1>5, TestPages DEF MapEffect
<1>7. /\ st'.a = st.a /\ st'.b = st.b /\ st'.fa = st.fa /\ st'.fb = st.fb /\ st'.k = 1
      /\ st'.ok = ok
      /\ st'.pc = IF ok THEN IF st.pc = "map_a" THEN "map_b" ELSE "switch" ELSE "clean_a"
  BY <1>1, <1>2 DEF StType, CheckOrSkip, Check
<1>8. /\ TwoSpaces' /\ TwoFrames' /\ (Idle)' /\ MapA' = MapA /\ MapB' = MapB
      /\ dry' \in BOOLEAN /\ (~ok => dry') /\ cr3' = BootPml4
  BY <1>1, <1>2, <1>6, <1>7 DEF TwoSpaces, TwoFrames, Idle, MapA, MapB, StType, Dries
<1>9. StType'
  BY <1>1, <1>6, <1>8 DEF StType, CheckOrSkip, Check, MapsPcs, CleanPcs, TouchPcs
<1>10. CASE ok /\ st.pc = "map_a"
  <2>1. Shows(mem', spaces', MapA') /\ Unused(mem', st'.b)
    <3>1. R \cup {new} = MapA
      BY <1>10 DEF MapA
    <3>2. st.b \in spaces \ {s}
      BY <1>2, <1>10 DEF TwoSpaces
    <3> QED BY <1>2, <1>6, <1>7, <1>8, <1>10, <3>1, <3>2 DEF Unused
  <2>2. MapsInv'
    BY <1>7, <1>8, <1>10, <2>1 DEF MapsInv, At
  <2> QED BY <1>6, <1>7, <1>9, <1>10, <2>2 DEF TestInv, Stage, MapsPcs
<1>11. CASE ok /\ st.pc = "map_b"
  <2>1. Shows(mem', spaces', (MapA \cup MapB)')
    <3>1. R \cup {new} = MapA \cup MapB
      BY <1>11 DEF MapB
    <3> QED BY <1>6, <1>8, <1>11, <3>1
  <2>2. TouchInv'
    BY <1>7, <1>8, <1>11, <2>1 DEF TouchInv, AfterRound, At
  <2> QED BY <1>6, <1>7, <1>9, <1>11, <2>2 DEF TestInv, Stage, TouchPcs
<1>12. CASE ~ok
  <2>1. Shows(mem', spaces', (MapA \cup MapB)')
    BY <1>6, <1>8, <1>12 DEF Shows
  <2>2. CleanInv'
    BY <1>7, <1>8, <1>12, <2>1 DEF CleanInv, TwoSpaces, TwoFrames, At
  <2> QED BY <1>6, <1>7, <1>8, <1>9, <1>12, <2>2 DEF TestInv, Stage, CleanPcs
<1> QED BY <1>10, <1>11, <1>12

(* An access is not idle. *)
LEMMA NotIdle == ASSUME NEW page, NEW write, Accessing(page, write) PROVE ~Idle
  BY DEF Accessing, Idle, NoAccess

(* To the next space, after looking at what was read. *)
LEMMA Switched ==
  ASSUME TestInv, Dries, st.pc = "switch", vm_switch(Visit),
         Check(/\ st.k = 4 => st.val = Word(11)
               /\ st.k = 5 => st.val = Word(12),
               IF st.k = 5 THEN "clean_a" ELSE "touch")
  PROVE  TestInv'
<1>1. VmInv /\ StType /\ TouchInv /\ BootPml4 \in spaces
  BY StageAt DEF TouchPcs, VmInv, Good
<1>2. /\ st.ok /\ TwoSpaces /\ TwoFrames /\ Shows(mem, spaces, MapA \cup MapB)
      /\ Visit \in spaces /\ st.k \in 1 .. 5
  BY <1>1 DEF TouchInv, TwoSpaces, Visit, StType
<1>3. /\ VmInv' /\ Idle
      /\ mem' = mem /\ held' = held /\ spaces' = spaces /\ cr3' = Visit
      /\ access' = access /\ vm_faults' = vm_faults
  BY <1>1, <1>2, SwitchStep
<1>4. \A page, write : ~Accessing(page, write)
  BY <1>3, NotIdle
<1>5. /\ st.k > 1 => mem[st.fa] = Word(11)
      /\ st.k > 2 => mem[st.fb] = Word(12)
      /\ st.k = 4 => st.val = Word(11)
      /\ st.k = 5 => st.val = Word(12)
  BY <1>1, <1>2, <1>4 DEF TouchInv, AfterRound, At, Visited, TwoSpaces
<1>6. /\ st'.a = st.a /\ st'.b = st.b /\ st'.fa = st.fa /\ st'.fb = st.fb /\ st'.k = st.k
      /\ st'.ok /\ st'.pc = IF st.k = 5 THEN "clean_a" ELSE "touch"
  BY <1>1, <1>2, <1>5 DEF StType, Check
<1>7. StType'
  <2>1. \E pc \in {"clean_a", "touch"} : st' = [st EXCEPT !.ok = TRUE, !.pc = pc]
    BY <1>1, <1>2, <1>5 DEF Check
  <2> QED BY <1>1, <1>3, <2>1 DEF StType, Dries, CleanPcs, TouchPcs
<1>8. /\ TwoSpaces' /\ TwoFrames' /\ (Idle)' /\ MapA' = MapA /\ MapB' = MapB
      /\ Shows(mem', spaces', (MapA \cup MapB)')
  BY <1>2, <1>3, <1>6 DEF TwoSpaces, TwoFrames, Idle, MapA, MapB
<1>9. CASE st.k = 5
  <2>1. cr3' = BootPml4
    BY <1>3, <1>9 DEF Visit
  <2>2. CleanInv'
    BY <1>6, <1>8, <1>9, <2>1 DEF CleanInv, TwoSpaces, TwoFrames, At
  <2> QED BY <1>3, <1>6, <1>7, <1>9, <2>2 DEF TestInv, Stage, CleanPcs
<1>10. CASE st.k # 5
  <2>1. cr3' = Visit'
    BY <1>3, <1>6 DEF Visit
  <2>2. /\ st'.k > 1 => mem'[st'.fa] = (Word(11))'
        /\ st'.k > 2 => mem'[st'.fb] = (Word(12))'
    BY <1>3, <1>5, <1>6 DEF Word
  <2>3. st'.k \in 1 .. 4
    BY <1>2, <1>6, <1>10
  <2>4. TouchInv'
    BY <1>6, <1>8, <1>10, <2>1, <2>2, <2>3 DEF TouchInv, At
  <2> QED BY <1>3, <1>6, <1>7, <1>10, <2>4 DEF TestInv, Stage, TouchPcs
<1> QED BY <1>9, <1>10

(* A write in each space, then a read. *)
LEMMA Touched ==
  ASSUME TestInv, Dries, st.pc = "touch",
         IF st.k \in {1, 2} THEN Store(VM_SPACE_TEST_BASE, 10 + st.k)
         ELSE Load(VM_SPACE_TEST_BASE),
         st' = [st EXCEPT !.k = @ + 1, !.pc = "switch"]
  PROVE  TestInv'
<1> DEFINE write == IF st.k \in {1, 2} THEN Word(10 + st.k) ELSE NoWrite
<1>1. VmInv /\ StType /\ TouchInv
  BY StageAt DEF TouchPcs
<1>2. /\ st.ok /\ TwoSpaces /\ TwoFrames /\ Shows(mem, spaces, MapA \cup MapB)
      /\ st.k \in 1 .. 4 /\ cr3 = Visit
      /\ st.k > 1 => mem[st.fa] = Word(11)
      /\ st.k > 2 => mem[st.fb] = Word(12)
  BY <1>1 DEF TouchInv, At
<1>3. /\ VmInv' /\ Idle
      /\ mem' = mem /\ held' = held /\ spaces' = spaces /\ cr3' = cr3
      /\ access' = [va |-> Va(VM_SPACE_TEST_BASE), fetch |-> FALSE, write |-> write]
      /\ vm_faults' = vm_faults
  <2>1. VM_SPACE_TEST_BASE \in Pages /\ write \in Contents \cup {NoWrite}
    <3>1. 10 + st.k \in Int
      BY <1>2
    <3> QED BY <3>1, TestPages, WordContents
  <2>2. Access(Va(VM_SPACE_TEST_BASE), FALSE, write)
    BY DEF Store, Load
  <2> HIDE DEF write
  <2> QED BY <1>1, <2>1, <2>2, AccessStep
<1>4. /\ st'.a = st.a /\ st'.b = st.b /\ st'.fa = st.fa /\ st'.fb = st.fb
      /\ st'.k = st.k + 1 /\ st'.ok /\ st'.pc = "switch"
  BY <1>1, <1>2 DEF StType
<1>5. StType'
  <2>1. st.k + 1 \in 1 .. 5
    BY <1>2
  <2> QED BY <1>1, <1>3, <2>1 DEF StType, Dries, TouchPcs
<1>6. /\ TwoSpaces' /\ TwoFrames' /\ MapA' = MapA /\ MapB' = MapB
      /\ Shows(mem', spaces', (MapA \cup MapB)')
  BY <1>2, <1>3, <1>4 DEF TwoSpaces, TwoFrames, MapA, MapB
<1>7. /\ st.k = 1 => (Accessing(VM_SPACE_TEST_BASE, Word(11)))' /\ cr3' = st'.a
      /\ st.k = 2 => (Accessing(VM_SPACE_TEST_BASE, Word(12)))' /\ cr3' = st'.b
      /\ st.k = 3 => (Accessing(VM_SPACE_TEST_BASE, NoWrite))' /\ cr3' = st'.a
      /\ st.k = 4 => (Accessing(VM_SPACE_TEST_BASE, NoWrite))' /\ cr3' = st'.b
  <2>1. /\ st.k = 1 => write = Word(11)
        /\ st.k = 2 => write = Word(12)
        /\ st.k \in {3, 4} => write = NoWrite
    OBVIOUS
  <2> HIDE DEF write
  <2>2. /\ write = Word(11) => (Accessing(VM_SPACE_TEST_BASE, Word(11)))'
        /\ write = Word(12) => (Accessing(VM_SPACE_TEST_BASE, Word(12)))'
        /\ write = NoWrite => (Accessing(VM_SPACE_TEST_BASE, NoWrite))'
    BY <1>3 DEF Accessing, Va, Word
  <2> QED BY <1>2, <1>3, <1>4, <2>1, <2>2 DEF Visit
<1>8. /\ st'.k > 2 => mem'[st'.fa] = (Word(11))'
      /\ st'.k > 3 => mem'[st'.fb] = (Word(12))'
      /\ st'.k \in 2 .. 5
  BY <1>2, <1>3, <1>4 DEF Word
<1>9. /\ st'.k = 2 => (Visited(st.a, FALSE, Word(11)))'
      /\ st'.k = 3 => (Visited(st.b, FALSE, Word(12)))'
      /\ st'.k = 4 => (Visited(st.a, TRUE, Word(11)))'
      /\ st'.k = 5 => (Visited(st.b, TRUE, Word(12)))'
  BY <1>2, <1>4, <1>7 DEF Visited
<1>10. AfterRound'
  BY <1>8, <1>9 DEF AfterRound, Visited
<1>11. TouchInv'
  BY <1>4, <1>6, <1>10 DEF TouchInv, At
<1> QED BY <1>3, <1>4, <1>5, <1>11 DEF TestInv, Stage, TouchPcs

(* Each space shows its own frame. *)
LEMMA TouchArrives ==
  ASSUME TestInv, Dries, st.pc \in TouchPcs, CompleteTest \/ FaultTest
  PROVE  TestInv'
<1>1. /\ VmInv /\ StType /\ TouchInv /\ VM_SPACE_TEST_BASE \in Pages \ HeapPages
  BY StageAt, TestPages
<1>2. ~Idle
  BY CompleteFrame, FaultFrame
<1>3. /\ st.ok /\ TwoSpaces /\ TwoFrames /\ Shows(mem, spaces, MapA \cup MapB)
      /\ st.pc = "switch" /\ st.k \in 2 .. 5
      /\ st.k = 2 => cr3 = st.a /\ Accessing(VM_SPACE_TEST_BASE, Word(11))
      /\ st.k = 3 => cr3 = st.b /\ Accessing(VM_SPACE_TEST_BASE, Word(12))
      /\ st.k = 4 => cr3 = st.a /\ Accessing(VM_SPACE_TEST_BASE, NoWrite)
      /\ st.k = 5 => cr3 = st.b /\ Accessing(VM_SPACE_TEST_BASE, NoWrite)
      /\ st.k > 2 => mem[st.fa] = Word(11)
      /\ st.k > 3 => mem[st.fb] = Word(12)
  <2>1. st.pc = "switch" /\ AfterRound
    BY <1>1, <1>2 DEF TouchInv, TouchPcs, At
  <2>2. st.k # 1 /\ st.k \in 1 .. 5
    BY <1>1, <1>2, <2>1 DEF AfterRound, StType
  <2>3. st.k \in 2 .. 5
    BY <2>2
  <2> QED BY <1>1, <1>2, <2>1, <2>3 DEF TouchInv, AfterRound, Visited
<1>4. access.va.page = VM_SPACE_TEST_BASE
  BY <1>3 DEF Accessing, Va
<1>5. CASE FaultTest
  <2>1. /\ mem' = mem /\ access' = access /\ st' = st /\ cr3' = cr3 /\ spaces' = spaces
        /\ held' = held /\ VmInv' /\ StType'
    BY <1>1, <1>4, <1>5, FaultFrame
  <2>2. /\ TwoSpaces' /\ TwoFrames' /\ MapA' = MapA /\ MapB' = MapB
        /\ \A page, write : Accessing(page, write) => access' = [va |-> Va(page),
                                                       fetch |-> FALSE, write |-> write]
    BY <1>3, <2>1 DEF TwoSpaces, TwoFrames, MapA, MapB, Accessing
  <2>3. /\ st'.k = 2 => (Visited(st.a, FALSE, Word(11)))'
        /\ st'.k = 3 => (Visited(st.b, FALSE, Word(12)))'
        /\ st'.k = 4 => (Visited(st.a, TRUE, Word(11)))'
        /\ st'.k = 5 => (Visited(st.b, TRUE, Word(12)))'
    BY <1>3, <2>1, <2>2 DEF Visited, Accessing, Va, Word
  <2>4. /\ st'.k > 2 => mem'[st'.fa] = (Word(11))'
        /\ st'.k > 3 => mem'[st'.fb] = (Word(12))'
        /\ Shows(mem', spaces', (MapA \cup MapB)')
    BY <1>3, <2>1, <2>2 DEF Word
  <2>5. AfterRound'
    BY <1>3, <2>1, <2>3, <2>4 DEF AfterRound, Visited
  <2>6. TouchInv'
    BY <1>3, <2>1, <2>2, <2>4, <2>5 DEF TouchInv, At
  <2> QED BY <1>3, <2>1, <2>6 DEF TestInv, Stage, TouchPcs
<1>6. CASE CompleteTest
  <2>1. PICK pa \in Phys :
          /\ Translate(mem, cr3, access.va.page) = {pa}
          /\ \A x \in Phys \ {pa} : mem'[x] = mem[x]
          /\ IF access.write = NoWrite
             THEN mem' = mem /\ st' = [st EXCEPT !.val = mem[pa]]
             ELSE mem'[pa] = access.write /\ st' = st
    BY <1>1, <1>6, CompleteStep
  <2>2. /\ VmInv' /\ StType' /\ (Idle)' /\ held' = held /\ spaces' = spaces /\ cr3' = cr3
        /\ st'.pc = st.pc /\ st'.ok = st.ok /\ st'.a = st.a /\ st'.b = st.b
        /\ st'.fa = st.fa /\ st'.fb = st.fb /\ st'.k = st.k
        /\ Shows(mem', spaces', MapA \cup MapB)
    BY <1>3, <1>6, CompleteFrame
  <2>3. (cr3 = st.a /\ pa = st.fa) \/ (cr3 = st.b /\ pa = st.fb)
    <3>1. <<cr3, VM_SPACE_TEST_BASE, pa>> \in MapA \cup MapB
      BY <1>1, <1>3, <1>4, <2>1 DEF Shows, TwoSpaces
    <3> QED BY <3>1 DEF MapA, MapB
  <2>4. /\ st.fa \in Phys /\ st.fb \in Phys /\ st.fa # st.fb /\ st.a # st.b
    BY <1>1, <1>3 DEF StType, TwoFrames, TwoSpaces
  <2>5. /\ st.k = 2 => access.write = Word(11) /\ pa = st.fa
        /\ st.k = 3 => access.write = Word(12) /\ pa = st.fb
        /\ st.k = 4 => access.write = NoWrite /\ pa = st.fa
        /\ st.k = 5 => access.write = NoWrite /\ pa = st.fb
        /\ Word(11) # NoWrite /\ Word(12) # NoWrite
    BY <1>3, <2>3, <2>4, WordContents DEF Accessing
  <2>6. /\ st.k = 2 => mem'[st.fa] = Word(11)
        /\ st.k = 3 => mem'[st.fb] = Word(12)
        /\ st.k > 2 => mem'[st.fa] = Word(11)
        /\ st.k > 3 => mem'[st.fb] = Word(12)
    BY <1>3, <2>1, <2>4, <2>5
  <2>7. /\ st.k = 4 => st'.val = Word(11)
        /\ st.k = 5 => st'.val = Word(12)
    BY <1>1, <1>3, <2>1, <2>5 DEF StType
  <2>8. /\ st'.k = 2 => (Visited(st.a, FALSE, Word(11)))'
        /\ st'.k = 3 => (Visited(st.b, FALSE, Word(12)))'
        /\ st'.k = 4 => (Visited(st.a, TRUE, Word(11)))'
        /\ st'.k = 5 => (Visited(st.b, TRUE, Word(12)))'
    BY <1>3, <2>2, <2>4, <2>6, <2>7 DEF Visited, Word
  <2>9. /\ TwoSpaces' /\ TwoFrames'
        /\ Shows(mem', spaces', (MapA \cup MapB)')
    BY <1>3, <2>2 DEF TwoSpaces, TwoFrames, MapA, MapB
  <2>10. /\ st'.k > 2 => mem'[st'.fa] = (Word(11))'
         /\ st'.k > 3 => mem'[st'.fb] = (Word(12))'
    BY <2>2, <2>6 DEF Word
  <2>11. AfterRound'
    BY <1>3, <2>2, <2>8, <2>10 DEF AfterRound, Visited
  <2>12. TouchInv'
    BY <1>3, <2>2, <2>9, <2>11 DEF TouchInv, At
  <2> QED BY <1>3, <2>2, <2>12 DEF TestInv, Stage, TouchPcs
<1> QED BY <1>5, <1>6

(* The test page is unmapped in the spaces that were made. *)
LEMMA Cleaned ==
  ASSUME TestInv, Dries,
         \/ /\ st.pc = "clean_a" /\ Goto("clean_b")
            /\ IF st.a = 0 THEN Running /\ UNCHANGED vmVars
               ELSE \E pa \in Answers : Unmap(st.a, Va(VM_SPACE_TEST_BASE), pa)
         \/ /\ st.pc = "clean_b" /\ Goto("give_a")
            /\ IF st.b = 0 THEN Running /\ UNCHANGED vmVars
               ELSE \E pa \in Answers : Unmap(st.b, Va(VM_SPACE_TEST_BASE), pa)
  PROVE  TestInv'
<1> DEFINE s == IF st.pc = "clean_a" THEN st.a ELSE st.b
           f == IF st.pc = "clean_a" THEN st.fa ELSE st.fb
           R == IF st.pc = "clean_a" THEN MapB ELSE {}
<1>1. VmInv /\ StType /\ CleanInv /\ (st.ok \/ dry) /\ 0 \notin spaces
  BY StageAt, SpacesNotZero DEF CleanPcs
<1>2. /\ Idle /\ cr3 = BootPml4
      /\ st.a \in spaces \cup {0} /\ st.b \in spaces \cup {0}
      /\ held = {st.fa, st.fb} \ {0}
      /\ st.fa = st.fb => st.fa = 0
      /\ Shows(mem, spaces, R \cup {<<s, VM_SPACE_TEST_BASE, f>>})
  <2>1. CASE st.pc = "clean_a"
    <3>1. MapA \cup MapB = R \cup {<<s, VM_SPACE_TEST_BASE, f>>}
      BY <2>1 DEF MapA
    <3> QED BY <1>1, <2>1, <3>1 DEF CleanInv, At
  <2>2. CASE st.pc = "clean_b"
    <3>1. MapB = R \cup {<<s, VM_SPACE_TEST_BASE, f>>}
      BY <2>2 DEF MapB
    <3> QED BY <1>1, <2>2, <3>1 DEF CleanInv, At
  <2> QED BY <2>1, <2>2
<1>3. /\ VmInv'
      /\ held' = held /\ spaces' = spaces /\ cr3' = cr3 /\ access' = access
      /\ vm_faults' = vm_faults
      /\ Shows(mem', spaces, R)
  <2>1. CASE s = 0
    <3>1. UNCHANGED vmVars
      BY <2>1
    <3>2. VmInv'
      BY <1>1, <3>1, VmNextInv
    <3>3. Shows(mem, spaces, R)
      BY <1>1, <1>2, <2>1 DEF Shows
    <3> QED BY <3>1, <3>2, <3>3 DEF vmVars
  <2>2. CASE s # 0
    <3>1. PICK pa \in Answers : Unmap(s, Va(VM_SPACE_TEST_BASE), pa)
      BY <2>2
    <3>2. s \in spaces /\ VM_SPACE_TEST_BASE \in ClientPages
      BY <1>2, <2>2, TestPages
    <3> HIDE DEF s, f, R
    <3>3. UnmapEffect(s, VM_SPACE_TEST_BASE, pa, R)
      BY <1>1, <1>2, <3>1, <3>2, UnmapStep
    <3> QED BY <3>3 DEF UnmapEffect
  <2> QED BY <2>1, <2>2
<1>4. /\ st'.a = st.a /\ st'.b = st.b /\ st'.fa = st.fa /\ st'.fb = st.fb /\ st'.ok = st.ok
      /\ st'.pc = IF st.pc = "clean_a" THEN "clean_b" ELSE "give_a"
  BY <1>1 DEF StType, Goto
<1>5. StType' /\ (dry => dry')
  BY <1>1, <1>3 DEF StType, Goto, Dries, CleanPcs
<1>6. (Idle)' /\ MapB' = MapB
  BY <1>2, <1>3, <1>4 DEF Idle, MapB
<1>7. Shows(mem', spaces', IF st'.pc = "clean_b" THEN MapB' ELSE {})
  BY <1>3, <1>4, <1>6
<1>8. CleanInv'
  BY <1>2, <1>3, <1>4, <1>6, <1>7 DEF CleanInv, At
<1> QED BY <1>1, <1>3, <1>4, <1>5, <1>8 DEF TestInv, Stage, CleanPcs

(* The data frames are given back, mapped nowhere. *)
LEMMA GivenBack ==
  ASSUME TestInv, Dries,
         \/ st.pc = "give_a" /\ Give(st.fa) /\ Goto("give_b")
         \/ st.pc = "give_b" /\ Give(st.fb) /\ Goto(IF st.ok THEN "passed" ELSE "failed")
  PROVE  TestInv'
<1> DEFINE f == IF st.pc = "give_a" THEN st.fa ELSE st.fb
<1>1. VmInv /\ StType /\ CleanInv /\ (st.ok \/ dry)
  BY StageAt DEF CleanPcs
<1>2. /\ Idle /\ cr3 = BootPml4
      /\ st.a \in spaces \cup {0} /\ st.b \in spaces \cup {0}
      /\ held = (IF st.pc = "give_b" THEN {st.fb} ELSE {st.fa, st.fb}) \ {0}
      /\ st.fa = st.fb => st.fa = 0
      /\ Shows(mem, spaces, {})
  BY <1>1 DEF CleanInv, At
<1>3. (f = 0 \/ f \in held) /\ Give(f)
  BY <1>2
<1>4. /\ VmInv'
      /\ mem' = mem /\ spaces' = spaces /\ cr3' = cr3 /\ access' = access
      /\ vm_faults' = vm_faults /\ held' = held \ {f}
  <2> HIDE DEF f
  <2> QED BY <1>1, <1>2, <1>3, GiveStep
<1>5. /\ st'.a = st.a /\ st'.b = st.b /\ st'.fa = st.fa /\ st'.fb = st.fb /\ st'.ok = st.ok
      /\ st'.pc = IF st.pc = "give_a" THEN "give_b" ELSE IF st.ok THEN "passed" ELSE "failed"
  BY <1>1 DEF StType, Goto
<1>6. StType' /\ (dry => dry') /\ (Idle)'
  BY <1>1, <1>2, <1>4 DEF StType, Goto, Dries, CleanPcs, EndPcs, Idle
<1>7. CASE st.pc = "give_a"
  <2>1. held' = {st.fb} \ {0}
    BY <1>2, <1>4, <1>7
  <2>2. CleanInv'
    BY <1>2, <1>4, <1>5, <1>6, <1>7, <2>1 DEF CleanInv, At
  <2> QED BY <1>1, <1>4, <1>5, <1>6, <1>7, <2>2 DEF TestInv, Stage, CleanPcs
<1>8. CASE st.pc = "give_b"
  <2>1. held' = {}
    BY <1>2, <1>4, <1>8
  <2>2. EndInv'
    BY <1>1, <1>2, <1>4, <1>5, <1>6, <1>8, <2>1 DEF EndInv, At
  <2> QED BY <1>1, <1>4, <1>5, <1>6, <1>8, <2>2 DEF TestInv, Stage, EndPcs
<1> QED BY <1>7, <1>8

(* Elsewhere no access is under way. *)
LEMMA NothingArrives ==
  ASSUME TestInv, Dries, CompleteTest \/ FaultTest
  PROVE  st.pc \notin CreatePcs \cup FramePcs \cup MapsPcs \cup CleanPcs \cup EndPcs
<1>1. ~Idle
  BY CompleteFrame, FaultFrame
<1> QED BY <1>1, StageAt DEF CreateInv, FramesInv, MapsInv, CleanInv, EndInv

-----------------------------------------------------------------------------
(* The script as a whole. *)

(* The script starts with nothing mapped outside the identity map. *)
LEMMA TestInitInv == TestInit => TestInv
<1> SUFFICES ASSUME TestInit PROVE TestInv
  OBVIOUS
<1>1. /\ VmInv
      /\ \A page \in Pages : Translate(mem, BootPml4, page) = {}
      /\ \A i \in Index \ {0} : mem[BootPml4][i] = 0
  BY VmInitInv DEF TestInit
<1>2. /\ st.pc \in {"off", "take"} /\ st.ok /\ st.a = 0 /\ st.b = 0 /\ st.fa = 0
      /\ st.fb = 0 /\ st.k = 1
  BY DEF TestInit
<1>3. StType
  <2>1. st \in [pc : {"off", "take"}, ok : {TRUE}, frame : {0}, a : {0}, b : {0},
                fa : {0}, fb : {0}, c0 : {0}, k : {1}, val : {NoWrite}]
    BY DEF TestInit
  <2>2. 0 \in Phys /\ 0 \in Nat /\ 1 \in 1 .. 5 /\ TRUE \in BOOLEAN
    BY Basics
  <2>3. dry \in BOOLEAN /\ vm_faults \in Nat
    BY DEF TestInit, VmInit
  <2> QED BY <2>1, <2>2, <2>3 DEF StType
<1>4. /\ spaces = {BootPml4} /\ cr3 = BootPml4 /\ held = {}
      /\ access.va.page = FirstHeapPage
  BY DEF TestInit, VmInit
<1>5. Untouched
  <2>1. VM_SPACE_TEST_BASE[1] \in Index \ {0}
    BY VmTestAssumption, VmAssumption DEF Index
  <2> QED BY <1>1, <1>2, <1>4, <2>1 DEF Untouched, AllUnused, Unused
<1>6. Shows(mem, spaces, {}) /\ NoneYet
  BY <1>1, <1>4, TestPages DEF Shows, NoneYet
<1>7. TakeInv
  BY <1>2, <1>4, <1>5, <1>6 DEF TakeInv
<1> QED BY <1>1, <1>2, <1>3, <1>7 DEF TestInv, Stage, At

(* One step of the script. *)
LEMMA ScriptKeepsInv ==
  ASSUME TestInv, vm_self_test
  PROVE  TestInv'
<1>1. Dries
  BY DEF vm_self_test, Dries
<1>2. CASE MapTest
  BY <1>1, <1>2, TakeFirst, ScratchMapped, ScratchGiven, ScratchAccessed, ScratchUnmapped,
     LowRefused DEF MapTest, At
<1>3. CASE DemandTest
  BY <1>1, <1>3, DemandAccessed, DemandChecked DEF DemandTest, At
<1>4. CASE SpaceSetup
  BY <1>1, <1>4, SpaceCreated, FrameFetched, SpacesMapped DEF SpaceSetup, At
<1>5. CASE SpaceTest
  BY <1>1, <1>5, Switched, Touched DEF SpaceTest, At
<1>6. CASE CleanUp
  BY <1>1, <1>6, Cleaned, GivenBack DEF CleanUp, At
<1>7. CASE st.pc # "off" /\ (CompleteTest \/ FaultTest)
  <2>1. st.pc \in {"take"} \cup MapPcs \cup DemandPcs \cup TouchPcs
    BY <1>1, <1>7, StageAt, NothingArrives DEF StType
  <2> QED BY <1>1, <1>7, <2>1, FirstWrite, ScratchArrives, DemandArrives, TouchArrives
<1> QED BY <1>2, <1>3, <1>4, <1>5, <1>6, <1>7 DEF vm_self_test, At

(* Arbitrary kernel code, or nothing at all. *)
LEMMA OtherKeepsInv ==
  ASSUME TestInv, [VmNext]_vmVars, UNCHANGED <<st, dry>>, At("off") \/ UNCHANGED vmVars
  PROVE  TestInv'
<1>1. VmInv /\ StType /\ VmInv' /\ vm_faults' \in Nat
  BY StageAt, VmNextInv, FaultCountStep DEF StType
<1>2. st' = st /\ dry' = dry
  OBVIOUS
<1>3. StType'
  BY <1>1, <1>2 DEF StType
<1>4. CASE At("off")
  BY <1>1, <1>2, <1>3, <1>4, StageAt DEF TestInv, Stage, At
<1>5. CASE UNCHANGED vmVars
  <2>1. /\ held' = held /\ mem' = mem /\ spaces' = spaces /\ cr3' = cr3 /\ access' = access
        /\ vm_faults' = vm_faults
    BY <1>5 DEF vmVars
  <2>2. /\ Untouched' = Untouched /\ NoneYet' = NoneYet /\ Idle' = Idle
        /\ ScratchMap' = ScratchMap /\ MapA' = MapA /\ MapB' = MapB
        /\ TwoSpaces' = TwoSpaces /\ TwoFrames' = TwoFrames
    BY <1>2, <2>1 DEF Untouched, NoneYet, Idle, ScratchMap, MapA, MapB, TwoSpaces, TwoFrames,
                      AllUnused, Unused
  <2>3. TakeInv => TakeInv'
    BY <1>2, <2>1, <2>2 DEF TakeInv
  <2>4. MapInv => MapInv'
    BY <1>2, <2>1, <2>2 DEF MapInv, At, Accessing, Va, Word
  <2>5. DemandInv => DemandInv'
    BY <1>2, <2>1, <2>2 DEF DemandInv, At, Accessing, Va, Word, LastShows
  <2>6. CreateInv => CreateInv'
    BY <1>2, <2>1, <2>2 DEF CreateInv, At, AllUnused, Unused
  <2>7. FramesInv => FramesInv'
    BY <1>2, <2>1, <2>2 DEF FramesInv, At, AllUnused, Unused
  <2>8. MapsInv => MapsInv'
    BY <1>2, <2>1, <2>2 DEF MapsInv, At, Unused
  <2>9. TouchInv => TouchInv'
    BY <1>2, <2>1, <2>2 DEF TouchInv, At, AfterRound, Visited, Visit, Accessing, Va, Word
  <2>10. CleanInv => CleanInv'
    BY <1>2, <2>1, <2>2 DEF CleanInv, At
  <2>11. EndInv => EndInv'
    BY <1>2, <2>1, <2>2 DEF EndInv, At
  <2>12. Stage'
    BY <1>2, <2>3, <2>4, <2>5, <2>6, <2>7, <2>8, <2>9, <2>10, <2>11 DEF TestInv, Stage, At
  <2> QED BY <1>1, <1>2, <1>3, <2>12, StageAt DEF TestInv
<1> QED BY <1>4, <1>5

(* Every step keeps the invariant. *)
LEMMA TestNextInv == TestInv /\ [TestNext]_testVars => TestInv'
<1> SUFFICES ASSUME TestInv, [TestNext]_testVars PROVE TestInv'
  OBVIOUS
<1>1. CASE vm_self_test
  BY <1>1, ScriptKeepsInv
<1>2. CASE At("off") /\ VmNext /\ UNCHANGED <<st, dry>>
  BY <1>2, OtherKeepsInv
<1>3. CASE UNCHANGED testVars
  BY <1>3, OtherKeepsInv DEF testVars
<1> QED BY <1>1, <1>2, <1>3 DEF TestNext

(* The stage the script is at fixes what is held, mapped, current and       *)
(* written, and nothing else is; and it goes wrong only when the frames     *)
(* have run out.                                                            *)
THEOREM TestInvariant == TestSpec => []TestInv
<1>1. TestInit => TestInv
  BY TestInitInv
<1>2. TestInv /\ [TestNext]_testVars => TestInv'
  BY TestNextInv
<1> QED BY <1>1, <1>2, PTL DEF TestSpec

(* However far vm_self_test gets before the frames run out, it gives back   *)
(* every data frame, leaves neither of its pages mapped in any space and    *)
(* the kernel's space current; and it fails for no other reason.            *)
THEOREM SelfTestLeavesNothing == TestSpec => []SelfTestTidy
<1>1. TestInv => SelfTestTidy
  <2> SUFFICES ASSUME TestInv PROVE SelfTestTidy
    OBVIOUS
  <2>1. st.pc \in {"passed", "failed"} => EndInv
    BY StageAt DEF EndPcs
  <2> QED BY <2>1, TestPages DEF EndInv, SelfTestTidy, Shows, At
<1> QED BY <1>1, TestInvariant, PTL

(* With vm_self_test at work too, every used frame has one owner and one    *)
(* role.                                                                    *)
THEOREM TestFrames == TestSpec => []FramesAccounted
<1>1. TestInv => FramesAccounted
  BY InvFrames DEF TestInv
<1> QED BY <1>1, TestInvariant, PTL

(* Across vm_self_test's mappings, unmappings and switches the CPU never    *)
(* holds a translation that the current tables do not give.                 *)
THEOREM TestTlb == TestSpec => []TlbCoherent
<1>1. TestInv => TlbCoherent
  BY DEF TestInv, VmInv
<1> QED BY <1>1, TestInvariant, PTL

(* The spaces vm_self_test creates share the kernel half, as long as kernel *)
(* code maps nothing there outside the heap's PML4 entry.                   *)
THEOREM TestKernelHalf ==
  ASSUME NoFarPages
  PROVE  TestSpec => []KernelHalfShared
<1>1. TestInv => KernelHalfShared
  BY InvKernelHalf DEF TestInv
<1> QED BY <1>1, TestInvariant, PTL

(* Only a page fault counts one, or stops the machine. *)
LEMMA OnlyFaults ==
  ASSUME TestNext, vm_faults' # vm_faults \/ halted' # halted
  PROVE  PageFault
<1>1. CASE VmNext
  BY <1>1 DEF VmNext, Alloc, Free, Map, Unmap, vm_create_space, vm_switch, Access, Complete
<1>2. CASE vm_self_test
  <2>1. \A pa : Take(pa) \/ Give(pa) => vm_faults' = vm_faults /\ halted' = halted
    BY DEF Take, Give, NotVm
  <2>2. CASE MapTest
    BY <1>2, <2>1, <2>2 DEF MapTest, MapScratch, UnmapScratch, Map, Unmap, Store, Load, Access
  <2>3. CASE DemandTest
    BY <2>3 DEF DemandTest, Store, Load, Access, vmVars
  <2>4. CASE SpaceSetup
    BY <2>1, <2>4 DEF SpaceSetup, vm_create_space, Map
  <2>5. CASE SpaceTest
    BY <2>5 DEF SpaceTest, vm_switch, Store, Load, Access
  <2>6. CASE CleanUp
    BY <2>1, <2>6 DEF CleanUp, Unmap, vmVars
  <2>7. CASE CompleteTest
    BY <2>7 DEF CompleteTest, Complete
  <2>8. CASE FaultTest
    BY <2>8 DEF FaultTest
  <2> QED BY <1>2, <2>2, <2>3, <2>4, <2>5, <2>6, <2>7, <2>8 DEF vm_self_test
<1> QED BY <1>1, <1>2 DEF TestNext

(* A page vm_self_test demands appears zeroed, in the space that faulted.   *)
THEOREM TestFreshPage == TestSpec => FreshPageZero
<1>1. TestInv /\ [TestNext]_testVars =>
        [vm_faults' > vm_faults =>
           \E pa \in Translate(mem', cr3', access'.va.page) : mem'[pa] = Zero]_vmVars
  <2> SUFFICES ASSUME TestInv, [TestNext]_testVars, vmVars' # vmVars, vm_faults' > vm_faults
               PROVE  \E pa \in Translate(mem', cr3', access'.va.page) : mem'[pa] = Zero
    OBVIOUS
  <2>1. VmInv /\ vm_faults \in Nat
    BY DEF TestInv, StType
  <2>2. TestNext
    BY DEF testVars
  <2>3. vm_faults' # vm_faults
    BY <2>1
  <2>4. PageFault
    BY <2>2, <2>3, OnlyFaults
  <2> QED BY <2>1, <2>4, FaultFresh
<1> QED BY <1>1, TestInvariant, PTL DEF TestSpec, FreshPageZero

(* The machine stops on a data access of vm_self_test to the heap only when *)
(* the frames for the page and its missing tables are not there.            *)
THEOREM TestHalt == TestSpec => HaltDeserved
<1>1. TestInv /\ [TestNext]_testVars =>
        [halted' /\ ~halted =>
           \/ access.fetch
           \/ access.va.page \notin HeapPages
           \/ pmm.free_frames < Needed(access.va.page)]_vmVars
  <2> SUFFICES ASSUME TestInv, [TestNext]_testVars, vmVars' # vmVars, halted', ~halted,
                      ~access.fetch, access.va.page \in HeapPages
               PROVE  pmm.free_frames < Needed(access.va.page)
    OBVIOUS
  <2>1. VmInv
    BY DEF TestInv
  <2>2. TestNext
    BY DEF testVars
  <2>3. halted' # halted
    OBVIOUS
  <2>4. PageFault
    BY <2>2, <2>3, OnlyFaults
  <2> QED BY <2>1, <2>4, FaultHalts
<1> QED BY <1>1, TestInvariant, PTL DEF TestSpec, HaltDeserved
=============================================================================
