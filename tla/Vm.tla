--------------------------------- MODULE Vm ---------------------------------
(* Virtual memory, src/vm.c: page tables in physical frames, address        *)
(* spaces, and the page-fault handler that fills the heap area on demand    *)
(* (entered through isr_handler in src/idt.c).  Frames come from the        *)
(* allocator of module Pmm.  The MMU and its TLB are external.  The kernel  *)
(* runs on one CPU and calls vm.c only with interrupts off or outside       *)
(* handlers, so a call is one step; a memory access that faults is retried  *)
(* and takes several.                                                       *)
EXTENDS Pmm, Sequences, Functions

CONSTANTS ENTRIES,       \* 512: entries of a table
          HALF,          \* 256: first PML4 entry of the kernel half
          HeapPages,     \* pages of [VM_HEAP_BASE, VM_HEAP_BASE+VM_HEAP_SIZE)
          FirstHeapPage, \* the page heap_init writes to
          ClientPages,   \* pages that kernel code passes to vm_map, vm_unmap
          Memories,      \* the sets of frames the machine may have free at boot
          MAX_HELD,      \* bound: frames kernel code holds at a time
          MAX_SPACES     \* bound: address spaces, the kernel's included

Index == 0 .. ENTRIES - 1
Pages == Index \X Index \X Index \X Index
Phys == {f * PMM_FRAME_SIZE : f \in Frames}

(* A table entry is 0 (not present), HUGE, or the frame it points to; every *)
(* caller in the kernel passes PRESENT | WRITE.                             *)
HUGE == -1
Zero == [i \in Index |-> 0]

(* The tables boot.asm builds, in frames of the kernel image. *)
BootPml4 == 1 * PMM_FRAME_SIZE
BootPdpt == 2 * PMM_FRAME_SIZE
BootPd == 3 * PMM_FRAME_SIZE
BootTables == {BootPml4, BootPdpt, BootPd}

ASSUME VmAssumption ==
  /\ ENTRIES \in Nat /\ BootTables \subseteq Phys
  /\ HALF \in 1 .. ENTRIES - 1
  /\ HeapPages \cup ClientPages \subseteq Pages
  /\ HeapPages \cap ClientPages = {}
  /\ FirstHeapPage \in HeapPages
  /\ \A page \in HeapPages : page[1] = HALF
  /\ \A m \in Memories : m \subseteq Phys \ ({0} \cup BootTables)

(* What a former user left in a frame: data that looks like table entries. *)
Dirty == [i \in Index |-> BootPml4]

VARIABLES usable,       \* the frames that were free at boot
          mem,          \* contents of the frames
          spaces,       \* the PML4s of the address spaces
          cr3,          \* the current one
          tlb,          \* translations the CPU has cached
          access,       \* the memory access in progress, or NoAccess:
                        \* [va, fetch, write], what it writes or NoWrite
          vm_in_fault,
          vm_faults,
          halted        \* isr_handler has stopped the machine

vmVars == <<pmm, held, ret, usable, mem, spaces, cr3, tlb, access, vm_in_fault,
            vm_faults, halted>>

NoAccess == <<>>
NoWrite == <<>>

-----------------------------------------------------------------------------
(* Operations return the set of their outcomes: here always one record.     *)

(* One level of vm_walk: follow entry i of the table, or allocate, clear    *)
(* and link a new table.  s = [ok, mem, pmm, table].                        *)
Descend(s, i, create) ==
  LET e == s.mem[s.table][i]
      r == pmm_alloc_frame(s.pmm)
  IN  IF ~s.ok THEN s
      ELSE IF e = 0
      THEN IF ~create \/ r.pa = 0 THEN [s EXCEPT !.ok = FALSE]
           ELSE [ok |-> TRUE, pmm |-> r.pmm, table |-> r.pa,
                 mem |-> [s.mem EXCEPT ![r.pa] = Zero, ![s.table][i] = r.pa]]
      ELSE IF e = HUGE THEN [s EXCEPT !.ok = FALSE]
      ELSE [s EXCEPT !.table = e]

(* PML4, PDPT, PD: afterwards "table" is the page table, if ok. *)
vm_walk(m, p, space, page, create) ==
  LET pdpt == {Descend([ok |-> TRUE, mem |-> m, pmm |-> p, table |-> space],
                       page[1], create)}
      pd == {Descend(s, page[2], create) : s \in pdpt}
  IN  {Descend(s, page[3], create) : s \in pd}

(* va < PMM_MAX_PHYS: the identity map's first gigabyte. *)
Low(page) == page[1] = 0 /\ page[2] = 0

RefusesMap(va, pa) ==
  va.off # 0 \/ pa % PMM_FRAME_SIZE # 0 \/ pa >= PMM_MAX_PHYS \/ Low(va.page)

(* Tables that a failed walk has added stay. *)
vm_map(m, p, space, va, pa) ==
  IF RefusesMap(va, pa) THEN {[ok |-> FALSE, mem |-> m, pmm |-> p]}
  ELSE {IF ~w.ok \/ w.mem[w.table][va.page[4]] # 0
        THEN [ok |-> FALSE, mem |-> w.mem, pmm |-> w.pmm]
        ELSE [ok |-> TRUE, pmm |-> w.pmm,
              mem |-> [w.mem EXCEPT ![w.table][va.page[4]] = pa]] :
        w \in vm_walk(m, p, space, va.page, TRUE)}

(* The old physical address, 0 if the page was not mapped. *)
vm_unmap(m, space, va) ==
  {IF w.ok THEN [pa |-> m[w.table][va.page[4]],
                 mem |-> [m EXCEPT ![w.table][va.page[4]] = 0]]
   ELSE [pa |-> 0, mem |-> m] :
   w \in vm_walk(m, pmm, space, va.page, FALSE)}

(* Mutant: only the identity map is copied. *)
NewPml4_NoKernelHalf(kernel) == [Zero EXCEPT ![0] = kernel[0]]

(* A new PML4 gets the identity map and the kernel half. *)
NewPml4(kernel) ==
  [i \in Index |-> IF i = 0 \/ i >= HALF THEN kernel[i] ELSE 0]

(* vm_handle_page_fault; "handled" is its return value. *)
RefusesFault(va, fetch) == vm_in_fault \/ fetch \/ va.page \notin HeapPages

Unhandled == [handled |-> FALSE, mem |-> mem, pmm |-> pmm]

(* Mutant: the frame is not given back when it cannot be mapped. *)
vm_handle_page_fault_Leaks(va, fetch) ==
  LET r == pmm_alloc_frame(pmm)
  IN  IF RefusesFault(va, fetch) \/ r.pa = 0 THEN {Unhandled}
      ELSE {[handled |-> q.ok, mem |-> q.mem,
             pmm |-> q.pmm] :
            q \in vm_map([mem EXCEPT ![r.pa] = Zero], r.pmm, cr3,
                         [va EXCEPT !.off = 0], r.pa)}

(* Mutant: the fault address is not rounded down to its page. *)
vm_handle_page_fault_Unaligned(va, fetch) ==
  LET r == pmm_alloc_frame(pmm)
  IN  IF RefusesFault(va, fetch) \/ r.pa = 0 THEN {Unhandled}
      ELSE {[handled |-> q.ok, mem |-> q.mem,
             pmm |-> IF q.ok THEN q.pmm ELSE pmm_free_frame(q.pmm, r.pa)] :
            q \in vm_map([mem EXCEPT ![r.pa] = Zero], r.pmm, cr3,
                         va, r.pa)}

(* Mutant: the frame is not cleared. *)
vm_handle_page_fault_NotCleared(va, fetch) ==
  LET r == pmm_alloc_frame(pmm)
  IN  IF RefusesFault(va, fetch) \/ r.pa = 0 THEN {Unhandled}
      ELSE {[handled |-> q.ok, mem |-> q.mem,
             pmm |-> IF q.ok THEN q.pmm ELSE pmm_free_frame(q.pmm, r.pa)] :
            q \in vm_map(mem, r.pmm, cr3,
                         [va EXCEPT !.off = 0], r.pa)}

(* A cleared frame is mapped at the page in the current space; when that    *)
(* fails the frame goes back.                                               *)
vm_handle_page_fault(va, fetch) ==
  LET r == pmm_alloc_frame(pmm)
  IN  IF RefusesFault(va, fetch) \/ r.pa = 0 THEN {Unhandled}
      ELSE {[handled |-> q.ok, mem |-> q.mem,
             pmm |-> IF q.ok THEN q.pmm ELSE pmm_free_frame(q.pmm, r.pa)] :
            q \in vm_map([mem EXCEPT ![r.pa] = Zero], r.pmm, cr3,
                         [va EXCEPT !.off = 0], r.pa)}

-----------------------------------------------------------------------------
Follow(m, tables, i) == {m[t][i] : t \in tables} \ {0, HUGE}

(* The MMU walks from the PML4 down: the table it finds at each level, last *)
(* the frame the page is mapped to, {} below the first empty entry.         *)
Path(m, space, page) ==
  LET pdpt == Follow(m, {space}, page[1])
      pd == Follow(m, pdpt, page[2])
      pt == Follow(m, pd, page[3])
  IN  <<pdpt, pd, pt, Follow(m, pt, page[4])>>

(* The frame of a page, {} for a fault. *)
Translate(m, space, page) == Path(m, space, page)[4]

vm_invlpg(t, page) == Restrict(t, DOMAIN t \ {page})

VirtAddrs(pages) == [page : pages, off : {0, 1}]

(* After boot; the kernel's first access to the heap is heap_init's write.  *)
(* The free frames hold old data.                                           *)
VmInit ==
  /\ usable \in Memories
  /\ mem = [pa \in Phys |->
              IF pa = BootPml4 THEN [Zero EXCEPT ![0] = BootPdpt]
              ELSE IF pa = BootPdpt THEN [Zero EXCEPT ![0] = BootPd]
              ELSE IF pa = BootPd THEN [i \in Index |-> HUGE]
              ELSE Dirty]
  /\ pmm = [bitmap |-> [f \in Frames |->
                          IF f * PMM_FRAME_SIZE \in usable THEN 0 ELSE 1],
            free_frames |-> Cardinality(usable), hint |-> 0]
  /\ held = {} /\ ret = 0
  /\ spaces = {BootPml4} /\ cr3 = BootPml4
  /\ tlb = <<>>
  /\ access = [va |-> [page |-> FirstHeapPage, off |-> 0], fetch |-> FALSE,
               write |-> Dirty]
  /\ vm_in_fault = FALSE /\ vm_faults = 0
  /\ halted = FALSE

Running == access = NoAccess /\ ~halted

(* Kernel code allocates and frees frames of its own.  It unmaps a frame    *)
(* before it frees it.                                                      *)
Alloc ==
  /\ Running /\ Cardinality(held) < MAX_HELD
  /\ AllocFrame
  /\ UNCHANGED <<usable, mem, spaces, cr3, tlb, access, vm_in_fault,
                 vm_faults, halted>>

Free(pa) ==
  /\ Running /\ pa \in held
  /\ \A s \in spaces, page \in ClientPages : pa \notin Translate(mem, s, page)
  /\ FreeFrame(pa)
  /\ UNCHANGED <<usable, mem, spaces, cr3, tlb, access, vm_in_fault,
                 vm_faults, halted>>

(* vm_map(space, va, pa, PRESENT | WRITE), and whether it succeeds. *)
Map(space, va, pa, ok) ==
  /\ Running
  /\ \E q \in vm_map(mem, pmm, space, va, pa) :
       /\ q.ok = ok
       /\ mem' = q.mem /\ pmm' = q.pmm
       /\ tlb' = IF ok THEN vm_invlpg(tlb, va.page) ELSE tlb
  /\ UNCHANGED <<held, ret, usable, spaces, cr3, access, vm_in_fault,
                 vm_faults, halted>>

(* Mutant: no invlpg. *)
TlbAfterUnmap_NoInvlpg(pa, page) == tlb

(* Nothing is invalidated when the page was not mapped. *)
TlbAfterUnmap(pa, page) == IF pa # 0 THEN vm_invlpg(tlb, page) ELSE tlb

(* vm_unmap(space, va), which returns pa. *)
Unmap(space, va, pa) ==
  /\ Running
  /\ \E q \in vm_unmap(mem, space, va) : q.pa = pa /\ mem' = q.mem
  /\ tlb' = TlbAfterUnmap(pa, va.page)
  /\ UNCHANGED <<pmm, held, ret, usable, spaces, cr3, access, vm_in_fault,
                 vm_faults, halted>>

(* The new space is pa, 0 when there is no frame for it. *)
vm_create_space(pa) ==
  /\ Running
  /\ \E r \in {pmm_alloc_frame(pmm)} : r.pa = pa /\ pmm' = r.pmm
  /\ IF pa = 0 THEN UNCHANGED <<mem, spaces>>
     ELSE /\ mem' = [mem EXCEPT ![pa] = NewPml4(mem[BootPml4])]
          /\ spaces' = spaces \cup {pa}
  /\ UNCHANGED <<held, ret, usable, cr3, tlb, access, vm_in_fault, vm_faults,
                 halted>>

(* Writing CR3 flushes the TLB. *)
vm_switch(space) ==
  /\ Running
  /\ cr3' = space
  /\ tlb' = <<>>
  /\ UNCHANGED <<pmm, held, ret, usable, mem, spaces, access, vm_in_fault,
                 vm_faults, halted>>

(* An instruction of the kernel reads, writes or jumps to an address. *)
Access(va, fetch, write) ==
  /\ Running
  /\ access' = [va |-> va, fetch |-> fetch, write |-> write]
  /\ UNCHANGED <<pmm, held, ret, usable, mem, spaces, cr3, tlb, vm_in_fault,
                 vm_faults, halted>>

(* The frame the MMU finds for the access: from the TLB, else the tables. *)
Target == IF access.va.page \in DOMAIN tlb THEN {tlb[access.va.page]}
          ELSE Translate(mem, cr3, access.va.page)

Complete ==
  /\ access # NoAccess /\ ~halted
  /\ \E pa \in Target :
       /\ tlb' = [page \in DOMAIN tlb \cup {access.va.page} |->
                    IF page = access.va.page THEN pa ELSE tlb[page]]
       /\ mem' = IF access.write = NoWrite THEN mem ELSE [mem EXCEPT ![pa] = access.write]
  /\ access' = NoAccess
  /\ UNCHANGED <<pmm, held, ret, usable, spaces, cr3, vm_in_fault, vm_faults,
                 halted>>

(* isr_handler, vector 14: retry the instruction if the fault was handled,  *)
(* otherwise stop.                                                          *)
PageFault ==
  /\ access # NoAccess /\ ~halted
  /\ Target = {}
  /\ \E h \in vm_handle_page_fault(access.va, access.fetch) :
       /\ mem' = h.mem /\ pmm' = h.pmm
       /\ tlb' = IF h.handled THEN vm_invlpg(tlb, access.va.page) ELSE tlb
       /\ vm_faults' = IF h.handled THEN vm_faults + 1 ELSE vm_faults
       /\ halted' = ~h.handled
  /\ vm_in_fault' = IF RefusesFault(access.va, access.fetch)
                    THEN vm_in_fault ELSE FALSE
  /\ UNCHANGED <<held, ret, usable, spaces, cr3, access>>

BadPas == {BootPml4 + 1, PMM_MAX_PHYS}
Answers == Phys   \* what a call can return; 0, the frame nobody gets, for failure

VmNext ==
  \/ Alloc
  \/ \E pa \in held : Free(pa)
  \/ \E s \in spaces, va \in VirtAddrs(ClientPages) :
       \/ \E pa \in held \cup BadPas, ok \in BOOLEAN : Map(s, va, pa, ok)
       \/ \E pa \in Answers : Unmap(s, va, pa)
  \/ \E pa \in Answers : Cardinality(spaces) < MAX_SPACES /\ vm_create_space(pa)
  \/ \E s \in spaces : vm_switch(s)
  \/ \E va \in VirtAddrs({page \in HeapPages \cup ClientPages : ~Low(page)}),
        fetch \in BOOLEAN :
       Access(va, fetch, IF fetch THEN NoWrite ELSE Dirty)
  \/ Complete
  \/ PageFault

VmSpec == VmInit /\ [][VmNext]_vmVars

-----------------------------------------------------------------------------
Targets(m, tables) == {m[t][i] : t \in tables, i \in Index} \ {0, HUGE}
Pdpts == Targets(mem, spaces)
Pds == Targets(mem, Pdpts)
Pts == Targets(mem, Pds)
Tables == spaces \cup Pdpts \cup Pds \cup Pts
HeapFrame(page) == Translate(mem, BootPml4, page)
MappedHeap == {page \in HeapPages : HeapFrame(page) # {}}

(* Every frame in use has one owner and one role: it is a table, reachable  *)
(* and at one level only, or it backs one heap page, or kernel code holds   *)
(* it.  So no frame is lost, not even when a walk or a fault fails half-way *)
(* for lack of frames, and no table can be overwritten through a mapping.   *)
FramesAccounted ==
  LET heap == UNION {HeapFrame(page) : page \in HeapPages}
      levels == <<spaces, Pdpts, Pds, Pts, heap, held>>
  IN  /\ {pa \in Phys : Used(pmm, pa)}
           = (Phys \ usable) \cup Tables \cup heap \cup held
      /\ \A i, j \in 1 .. 6 : i # j => levels[i] \cap levels[j] = {}
      /\ Cardinality(heap) = Cardinality(MappedHeap)
      /\ Targets(mem, Pts) \subseteq heap \cup held

(* Whatever is mapped, unmapped or switched, in the current space or in     *)
(* another, the CPU never holds a translation that the tables do not give.  *)
TlbCoherent ==
  \A page \in DOMAIN tlb : {tlb[page]} = Translate(mem, cr3, page)

(* "All address spaces share its kernel mappings" (vm.c): a page of the     *)
(* kernel half is the same frame in every space, whichever space was        *)
(* current when it was mapped.                                              *)
KernelHalfShared ==
  \A s \in spaces, page \in HeapPages \cup ClientPages :
    page[1] >= HALF => Translate(mem, s, page) = Translate(mem, BootPml4, page)

(* After a fault that was handled the retried instruction finds its page,   *)
(* in the space it runs in (it cannot fault forever), and the page does not *)
(* show what the frame's former user left.                                  *)
FreshPageZero ==
  [][vm_faults' > vm_faults =>
       \E pa \in Translate(mem', cr3', access'.va.page) : mem'[pa] = Zero]_vmVars

(* The frames a fault at the page needs: one for the page, one per missing  *)
(* table.                                                                   *)
Needed(page) ==
  Cardinality({level \in 1 .. 4 : Path(mem, cr3, page)[level] = {}})

(* The machine stops on a data access to the heap only if the frames are    *)
(* really used up: faults neither recurse nor fail for another reason.      *)
HaltDeserved ==
  [][halted' /\ ~halted =>
       \/ access.fetch
       \/ access.va.page \notin HeapPages
       \/ pmm.free_frames < Needed(access.va.page)]_vmVars
=============================================================================
