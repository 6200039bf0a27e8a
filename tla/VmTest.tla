------------------------------- MODULE VmTest -------------------------------
(* vm_self_test, src/vm.c, on the virtual memory of module Vm: a script of  *)
(* its calls and memory accesses, each free to fail for lack of frames.  A  *)
(* machine either runs the script or serves arbitrary kernel code.          *)
EXTENDS Vm

CONSTANTS VM_SCRATCH_BASE, VM_SPACE_TEST_BASE, \* pages of ClientPages
          LowPage,             \* the page of 0x100000
          LastHeapPage,        \* VM_HEAP_BASE + VM_HEAP_SIZE - VM_PAGE_SIZE
          MAX_CLIENT_FRAMES    \* bound: memory of a machine without the script

(* vm.h: the scratch page lies behind the heap, under the same PML4 entry;  *)
(* the space test page under one of the lower half that is not entry 0.     *)
ASSUME VmTestAssumption ==
  /\ {VM_SCRATCH_BASE, VM_SPACE_TEST_BASE, LowPage} \subseteq ClientPages
  /\ VM_SCRATCH_BASE[1] = HALF
  /\ VM_SPACE_TEST_BASE[1] \in 1 .. HALF - 1
  /\ Low(LowPage)
  /\ LastHeapPage \in HeapPages \ {FirstHeapPage}

VARIABLES st,     \* the locals of vm_self_test, and where it is
          dry     \* history: all frames were in use at some point of it

testVars == <<vmVars, st, dry>>

Va(page) == [page |-> page, off |-> 0]
Word(n) == [Zero EXCEPT ![0] = n]        \* contents of a page: one pattern
At(pc) == st.pc = pc
Goto(pc) == st' = [st EXCEPT !.pc = pc]
Check(good, pc) == st' = [st EXCEPT !.ok = @ /\ good, !.pc = pc]
CheckOrSkip(good, pc) == Check(good, IF st.ok /\ good THEN pc ELSE "clean_a")

(* heap_init's first write is under way. *)
TestInit ==
  /\ VmInit
  /\ st \in [pc : {"off", "take"}, ok : {TRUE}, frame : {0}, a : {0}, b : {0},
             fa : {0}, fb : {0}, c0 : {0}, k : {1}, val : {NoWrite}]
  /\ At("off") => Cardinality(usable) <= MAX_CLIENT_FRAMES
  /\ dry = FALSE

(* *p = pattern, and the read of *p: the value arrives with the access. *)
Store(page, n) == Access(Va(page), FALSE, Word(n))
Load(page) == Access(Va(page), FALSE, NoWrite)

CompleteTest ==
  /\ Complete
  /\ st' = IF access.write = NoWrite
           THEN [st EXCEPT !.val = mem[CHOOSE pa \in Target : TRUE]] ELSE st
FaultTest == PageFault /\ UNCHANGED st

NotVm == UNCHANGED <<usable, mem, spaces, cr3, tlb, access, vm_in_fault,
                     vm_faults, halted>>
Take(pa) == Running /\ AllocFrame /\ ret' = pa /\ NotVm
Give(pa) == /\ Running
            /\ IF pa = 0 THEN UNCHANGED pmmVars ELSE FreeFrame(pa)
            /\ NotVm

MapScratch(ok) == Map(BootPml4, Va(VM_SCRATCH_BASE), st.frame, ok)
UnmapScratch(pa) == Unmap(BootPml4, Va(VM_SCRATCH_BASE), pa)

(* Mutant: a frame that cannot be mapped is not given back. *)
AfterMap_Leaks(ok) == Goto(IF ok THEN "store" ELSE "failed")

AfterMap(ok) == Goto(IF ok THEN "store" ELSE "untake")

(* Map, read back, unmap; a page of the low gigabyte and a second mapping   *)
(* must be refused.                                                         *)
MapTest ==
  \/ At("take") /\ \E pa \in Answers : Take(pa) /\
       st' = [st EXCEPT !.frame = pa, !.pc = IF pa = 0 THEN "failed" ELSE "map"]
  \/ At("map") /\ \E ok \in BOOLEAN : MapScratch(ok) /\ AfterMap(ok)
  \/ At("untake") /\ Give(st.frame) /\ Goto("failed")
  \/ At("store") /\ Store(VM_SCRATCH_BASE, 1) /\ Goto("load")
  \/ At("load") /\ Load(VM_SCRATCH_BASE) /\ Goto("unmap")
  \/ At("unmap") /\ \E pa \in Answers :
       UnmapScratch(pa) /\ Check(st.val = Word(1) /\ pa = st.frame, "reject")
  \/ At("reject") /\ \E ok \in BOOLEAN :
       Map(BootPml4, Va(LowPage), st.frame, ok) /\ Check(~ok, "remap")
  \/ At("remap") /\ \E ok \in BOOLEAN :
       MapScratch(ok) /\ Check(ok, IF ok THEN "double" ELSE "unmap2")
  \/ At("double") /\ \E ok \in BOOLEAN :
       MapScratch(ok) /\ Check(~ok, "unmap2")
  \/ At("unmap2") /\ Goto("give") /\ \E pa \in Answers : UnmapScratch(pa)
  \/ At("give") /\ Give(st.frame) /\ CheckOrSkip(TRUE, "demand")

(* The last heap page faults on the first access and not on the second. *)
DemandTest ==
  \/ /\ At("demand") /\ Store(LastHeapPage, 2)
     /\ st' = [st EXCEPT !.c0 = vm_faults, !.pc = "demand_load"]
  \/ /\ At("demand_load") /\ Load(LastHeapPage)
     /\ Check(vm_faults = st.c0 + 1, "demand_check")
  \/ /\ At("demand_check") /\ Running
     /\ CheckOrSkip(vm_faults = st.c0 + 1 /\ st.val = Word(2), "create_a")
     /\ UNCHANGED vmVars

(* Two spaces, a frame for each, mapped at the same address. *)
SpaceSetup ==
  \/ At("create_a") /\ \E pa \in Answers :
       vm_create_space(pa) /\ st' = [st EXCEPT !.a = pa, !.pc = "create_b"]
  \/ At("create_b") /\ \E pa \in Answers :
       /\ vm_create_space(pa)
       /\ LET ok == st.a # 0 /\ pa # 0
          IN  st' = [st EXCEPT !.b = pa, !.ok = ok,
                               !.pc = IF ok THEN "take_a" ELSE "clean_a"]
  \/ At("take_a") /\ \E pa \in Answers :
       Take(pa) /\ st' = [st EXCEPT !.fa = pa, !.pc = "take_b"]
  \/ At("take_b") /\ \E pa \in Answers :
       /\ Take(pa)
       /\ LET ok == st.fa # 0 /\ pa # 0
          IN  st' = [st EXCEPT !.fb = pa, !.ok = ok,
                               !.pc = IF ok THEN "map_a" ELSE "clean_a"]
  \/ At("map_a") /\ \E ok \in BOOLEAN :
       Map(st.a, Va(VM_SPACE_TEST_BASE), st.fa, ok) /\ CheckOrSkip(ok, "map_b")
  \/ At("map_b") /\ \E ok \in BOOLEAN :
       Map(st.b, Va(VM_SPACE_TEST_BASE), st.fb, ok) /\ CheckOrSkip(ok, "switch")

(* Write in a, write in b, read in a, read in b; then back to the kernel's  *)
(* space.                                                                   *)
Visit == IF st.k = 5 THEN BootPml4 ELSE IF st.k \in {1, 3} THEN st.a ELSE st.b
SpaceTest ==
  \/ /\ At("switch") /\ vm_switch(Visit)
     /\ Check(/\ st.k = 4 => st.val = Word(11)
              /\ st.k = 5 => st.val = Word(12),
              IF st.k = 5 THEN "clean_a" ELSE "touch")
  \/ /\ At("touch")
     /\ IF st.k \in {1, 2} THEN Store(VM_SPACE_TEST_BASE, 10 + st.k)
        ELSE Load(VM_SPACE_TEST_BASE)
     /\ st' = [st EXCEPT !.k = @ + 1, !.pc = "switch"]

(* "Only the data frames are given back." *)
CleanUp ==
  \/ At("clean_a") /\ Goto("clean_b") /\
     IF st.a = 0 THEN Running /\ UNCHANGED vmVars
     ELSE \E pa \in Answers : Unmap(st.a, Va(VM_SPACE_TEST_BASE), pa)
  \/ At("clean_b") /\ Goto("give_a") /\
     IF st.b = 0 THEN Running /\ UNCHANGED vmVars
     ELSE \E pa \in Answers : Unmap(st.b, Va(VM_SPACE_TEST_BASE), pa)
  \/ At("give_a") /\ Give(st.fa) /\ Goto("give_b")
  \/ At("give_b") /\ Give(st.fb) /\ Goto(IF st.ok THEN "passed" ELSE "failed")

vm_self_test ==
  /\ MapTest \/ DemandTest \/ SpaceSetup \/ SpaceTest \/ CleanUp
       \/ (~At("off") /\ (CompleteTest \/ FaultTest))
  /\ dry' = (dry \/ pmm'.free_frames = 0)

TestNext ==
  \/ At("off") /\ VmNext /\ UNCHANGED <<st, dry>>
  \/ vm_self_test

TestSpec == TestInit /\ [][TestNext]_testVars

-----------------------------------------------------------------------------
(* However far vm_self_test gets before the frames run out, it gives back   *)
(* every frame it allocated for data, leaves none of its pages mapped in    *)
(* any space and the kernel's space current; and it fails for no other      *)
(* reason than that.                                                        *)
SelfTestTidy ==
  /\ st.pc \in {"passed", "failed"} =>
       /\ held = {} /\ cr3 = BootPml4
       /\ \A s \in spaces, page \in {VM_SCRATCH_BASE, VM_SPACE_TEST_BASE} :
            Translate(mem, s, page) = {}
  /\ st.pc = "failed" => dry
=============================================================================
