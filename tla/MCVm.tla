-------------------------------- MODULE MCVm --------------------------------
(* Tables of four entries: 0 the identity map, 1 private to each space,     *)
(* 2 and 3 the kernel half.  The scratch page lies behind the heap, under   *)
(* the same directory but in another page table, as VM_SCRATCH_BASE does.   *)
EXTENDS Vm, TLC

MCHeapPages == {<<2, 0, 0, 0>>, <<2, 0, 0, 1>>}
MCFirst == <<2, 0, 0, 0>>
MCLast == <<2, 0, 0, 1>>
ScratchPage == <<2, 0, 1, 0>>
SpaceTestPage == <<1, 0, 0, 0>>
Identity == <<0, 0, 1, 0>>
MCPages == {ScratchPage, SpaceTestPage, Identity}

(* From too little memory for the first heap page to enough for two spaces. *)
MCMemories == {{f * PMM_FRAME_SIZE : f \in 4 .. n} : n \in 6 .. PMM_FRAME_COUNT - 1}

(* A page of the kernel half under a PML4 entry that boot leaves empty. *)
MCFarPages == {<<3, 0, 0, 0>>}
=============================================================================
