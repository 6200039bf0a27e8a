# 8godOS: a TLA+ verification project

8godOS is a small x86-64 teaching kernel: GRUB loads it, it builds a frame
allocator, page tables, a heap, programs the interrupt controllers and then
echoes the keyboard to the VGA screen. This directory models the kernel's
stateful parts in TLA+, checks them with TLC on small instances and proves, with
TLAPS and for every instance, the safety of boot, frame allocator, paging with
its self-test, heap, interrupt path, keyboard, their composition, the terminal
and the formatted output. File names
below are relative to the repository's `src/` directory.

## 1. The system

| Component | State | Operations | Talks to |
|---|---|---|---|
| boot code (`boot.asm`, `linker.ld`) | first page tables, stack, cleared `.bss` | one straight path | passes `mb_info` to `kmain` |
| multiboot2 parser (`mb2.c`) | none | `mb2_init` | read by `pmm_init` |
| frame allocator (`pmm.c`) | bitmap, `pmm_free_frames`, `pmm_hint` | `pmm_init`, `pmm_alloc_frame`, `pmm_free_frame`, `pmm_self_test` | page directory, `vm.c` |
| virtual memory (`vm.c`) | page tables in frames, CR3, `vm_in_fault`, `vm_faults` | `vm_map`, `vm_unmap`, `vm_create_space`, `vm_switch`, `vm_handle_page_fault`, `vm_self_test` | `pmm.c`, TLB, `isr_handler` |
| heap (`heap.c`) | block headers in a 16MB virtual area | `heap_init`, `kmalloc`, `kfree` | page faults supply its memory |
| IDT and stubs (`idt.c`, `isr.asm`) | gates, saved frame | `idt_init`, `isr_handler` | `irq.c`, `vm.c` |
| dispatcher (`irq.c`) | `irq_handlers[16]` | `irq_register`, `irq_dispatch` | drivers, `pic.c` |
| controller driver (`pic.c`) | (the 8259A registers) | `pic_init`, `pic_mask`, `pic_unmask`, `pic_send_eoi` | two 8259As |
| keyboard driver (`keyboard.c`) | ring `kb_buf/kb_head/kb_tail`, Shift flags, `e0_prefix` | `keyboard_handler`, `kb_get` | 8042, main loop |
| main loop (`kernel.c`) | program counter, interrupt flag | drain the ring, print, `sti; hlt` | all of the above |
| terminal (`vga.c`) | text buffer, row, column, colour; CRTC index and cursor registers | `vga_clear`, `vga_set_color`, `vga_putchar`, `vga_puts`, `vga_printf` | every part prints, `irq_dispatch` from interrupt context |

Concurrency: there is one CPU and no threads. The only concurrency is between
the main flow and interrupt handlers, which run with interrupts off (interrupt
gates) and can start between any two instructions of the main flow once `sti`
has been executed, and between CPU and devices. Memory management is called
only by the main flow and by the page-fault handler. What is hard to test here
is listed, line by line, under `hazards` in `PROJECT.json`: interrupt windows,
long call sequences on the allocators, running out of frames half-way, stale
headers, stale translations, rounding and overflow in the memory map, sizes
read from memory, a print that interrupts a print.

What makes each part correct:

* frame allocator: bitmap, counter and hint agree; no frame is handed out
  twice, lost or invented; only usable, unreserved and mapped memory is offered;
* multiboot2 parser: ends on every input, reads nothing outside the structure,
  refuses only what is malformed;
* virtual memory: each frame has one owner and role; the TLB never contradicts
  the tables; heap pages are the same in every space; a failed call loses
  nothing;
* heap: blocks tile the arena and match what callers hold; free neighbours are
  merged; a right `kfree` never stops the machine, and a wrong one does unless an
  owner has written over the old header it meets;
* interrupts: every EOI ends exactly its own interrupt; open lines are served;
* keyboard: a bounded queue of the characters typed, with the right Shift state;
* console: every byte is fetched, characters reach the screen;
* terminal: the screen shows what was printed, row and column are legal between
  calls whatever interrupted them, the cursor follows; a format prints what its
  documentation says and takes exactly its arguments.

## 2. Modules

    FramePool <-- Pmm <-- PmmBoot          Keyboard --> CharFifo
                  Pmm <-- Vm               Keyboard <-- Keys
                  Vm  <-- VmTest           Keyboard, Irq <-- Console
                  Heap    Vga    Printf

    PmmProofs <-- PmmBootProofs, VmProofs
    KeyboardProofs <-- ConsoleProofs
    HeapProofs    VgaProofs    PrintfProofs

(`A <-- B`: B extends or refines A.) `XProofs` holds the theorems about `X`;
KeyboardProofs has those of Keys too, ConsoleProofs those of Irq, VmProofs those
of VmTest. Each `MC*` module gives the constants of one module small values. Operators named `X_Something` with a comment that
begins "Mutant:" are faulty variants of `X`; no specification uses them, they
exist to show that the properties can fail.

**Pmm** models `pmm.c` after boot. `pmm` is a record of the three statics;
`pmm_alloc_frame` and `pmm_free_frame` are pure functions on it, so that Vm can
call them in the middle of a walk. `held` is what callers own. Callers free
what they hold or pass one of the bad addresses that `pmm.h` lists. Pmm has no run
of its own: PmmBoot runs it from the states that boot produces, and PmmProofs is
about every bitmap.
**FramePool** is the abstract promise: lowest free frame first, 0 only when
empty.

**PmmBoot** adds `pmm_init`: map the header, read `total_size`, map the rest,
walk the tags, build the bitmap, extend the identity map, run. `uint64_t` sums
wrap at `WORD`. The page directory is the set of present 2MB entries. The
branches for page tables that `boot.asm` never builds (1GB page, missing PDPT)
are left out. The structure is given by its tags, each a record of type, size,
entry size and entries at its offset; `ParseTag` is one round of the loop of
`mb2_init`, and `stray` collects every read that is not inside the structure or
not mapped. Where no tag starts the words have no meaning to the parser: a type
it skips and size 0. `ranges` holds references to the entries copied so far, tag
offset and index; since the parser copies without looking at the rest, nothing
depends on their order. `pmm_self_test` follows at any point of normal operation:
one step per frame it takes or releases and one for its pattern test (which
fails exactly if two of its frames are the same); every early exit leads to the
release of what was taken. `BootImplementsPool` maps the whole to FramePool: to a
caller the pool consists of the allocatable frames from the start, and boot and
self-test are steps it does not notice.

**Vm** models `vm.c` with real tables: `mem` gives the contents of each frame,
`vm_walk` descends three levels and allocates. The MMU with its TLB is
external: an access uses the TLB, else the tables, else raises a page fault,
whose handler either lets the instruction retry or stops the machine. The first
access is `heap_init`'s write, as in `kmain`. Kernel code maps frames it holds
and unmaps them before it frees them. `vm_handle_page_fault` runs in one step:
it touches only identity-mapped frames (`PoolMapped` in PmmBoot), so it does
not fault itself. The actions `Map`, `Unmap` and `vm_create_space` carry the
answer of the call as a parameter, for the caller to act on. **VmTest** uses
that to run `vm_self_test` as a script of calls and memory accesses, each of
which can fail for lack of frames; a machine of this module either runs the
script or serves arbitrary kernel code.

**Heap** models `heap.c` in units of 16 bytes, the header size. `mem` keeps
headers that were merged away, `blocks` is a history variable with the true
block starts, `live` what callers hold. Each iteration of a loop is a step.
`kmalloc` clears nothing, so an old header can lie inside a later allocation, and
`UserWrite` is its owner's store over it: the magic number is lost, or it survives
and the free word, the size word or both change. The history variable `written`
holds the old headers changed in part. Writing a magic number is outside the
contract. Callers pass to `kfree` what they hold, NULL, or any pointer that stops
the machine (`HeapSpec`); `AnyCallerSpec` adds every other aligned pointer, for
the question of run `heap_double_free`. A wrong pointer that `kfree` takes breaks
the caller's contract unnoticed, and nothing is claimed of the heap after it.

**Keyboard** models the handler as one step and `kb_get` as three (check,
read, advance). The static assertions make `& (KB_BUF_SIZE - 1)` a remainder.
**CharFifo** is the abstract queue. **Keys** puts a keyboard with Shift and
extended keys and a wire of unprocessed bytes in front of it.

**Irq** models two cascaded 8259As (external: requests, in-service bits, masks,
priority, spurious answers) with `pic.c` and `irq.c`. **Console** composes
Keyboard, Irq, the 8042 output buffer, the interrupt path of the CPU and
`kmain`: interrupt flag, the one-instruction shadow of an STI that changes the
flag, HLT, and every step of the loop at which an interrupt can be taken.

**Vga** models `vga.c`'s terminal twice. As pure functions on the record `t`
(buffer, row, column, colour, CRTC index and data): that is how the diagnostic
of `irq_dispatch` prints, with interrupts off, in one step. And access by
access (`call` holds the registers of the interrupted `vga_putchar`), since the
main flow can be interrupted anywhere. The order of the accesses is the one of
the compiled code (`gcc -O2`): row and column are loaded once and again after
`vga_newline`; the stores of cell and column come in either order. A character
printed while the row or column is half updated can go one line below the
screen; `Below` is that line of video memory. `paper` is the reference: a
printer that knows lines and no addresses. **Printf** models `vga_printf` and
`vga_put_uint` with two integer widths; the scan takes one step per flag, width
digit, length and conversion, and nothing is defined for a read behind the
terminator. Its locals are on the stack, so it needs no interrupts. What a caller
owes is the assumption `CallsAssumption`: a terminated string, and an argument
for each conversion that takes one, where `Before` says what the part of the
format before a character is. It is stated without the scan's own control.

## 3. Runs

| Run | Instance | States | Shows |
|---|---|---|---|
| `pmm_boot` | 2 032 structures, memory maps and places, 12 frames | 217 816 | exactly the allocatable frames, all mapped; the walk ends and stays inside; counter, hint and bitmap agree; refinement of FramePool; self-test neutral |
| `keys` | ring of 4, 6 keys with fake Shift, 2 bytes in flight | 667 604 | refinement of CharFifo under any interleaving; order and Shift state |
| `irq` | lines 1, 5, 12, every firmware state | 3 120 | clean controllers, service of open lines |
| `console` | ring of 4, three bytes, spurious IRQs | 75 952 | no orphaned byte, everything fetched, ring drained |
| `heap` | 7 units, sizes at the limits, stores of 0 | 1 054 646 | tiling, ownership, merging, wrong pointers caught, termination |
| `vm` | 3 to 18 free frames, 2 spaces (3 for the self-test), 5 pages | 203 503 | one role per frame, coherent TLB, shared heap, tidy self-test |
| `vga` | 2 lines of 3 columns, two colours, a diagnostic of 2 characters | 2 184 268 | screen as on paper, recovery from an interrupt anywhere |
| `printf` | integers of 5 and 8 bits, 62 928 calls | 1 042 692 | output and arguments as documented |
| `lost_wakeup` | as `console`, without spurious IRQs | violation | section 6 |
| `vm_far_page` | as `vm`, a page under another PML4 entry | violation | section 6 |
| `vga_cursor` | as `vga` | violation | section 6 |
| `heap_double_free` | as `heap`, any pointer to `kfree` | violation | section 6 |

Why the bounds are enough. The boot instance contains unaligned,
adjacent, overlapping, wrapping and out-of-range regions, structures at the
start of memory, across a 2MB boundary and at the 1GB limit, tags of odd size,
two memory maps, tags after the end tag, `total_size` cutting a tag in two, and
each size field at and around every value the parser compares it with; the
self-test takes four frames, which some machines have and some have not. Once
running, its callers take frames until none is left and release four of them
(below, at and above the hint) in any order, mixed with address 0, unaligned,
out-of-range and already free ones. A ring
of 4 wraps, fills and drops. Lines 1, 5 and 12 are above, below and behind the
cascade. Seven units hold up to three blocks, so that a block can be freed with
free or used neighbours on both sides, and a stale header can come to lie inside
a later allocation. Owners store 0 (`Stored`), which makes a free block one in use
and its size a wrong one; the proofs are for any value. The first heap page alone takes four of the `vm` instance's
frames, so that a walk runs out of frames at every level; arbitrary kernel code
gets up to nine (`MAX_CLIENT_FRAMES`), the script every number up to more
than it needs. On a screen of 2 by 3 every line end, tab stop, wrap and scroll
is a few characters away, and `BYTE = 4` makes the cursor position need both
registers. Eight bits hold numbers of one to three decimal digits, both limits
of both widths are among the arguments, and each call has two conversions and a
format that may break off. Named bounds: `MAX_WIRE`, `MAX_HELD`, `MAX_SPACES`,
`MAX_CLIENT_FRAMES`. Deadlock checking is off in `pmm_boot`, `heap` and `vm`,
whose machine may stop on purpose (a panic, a failed boot or test).

Fairness. `irq`: the CPU takes a deliverable interrupt and handlers return
(weak). `console`: boot, interrupt path and interrupt acceptance are weakly
fair, the instructions simply follow; the main loop is strongly fair, since a
serial keyboard cannot interrupt so often that the main flow never executes an
instruction. The keyboard itself is under no obligation. `heap`: a call that
was entered goes on. `pmm_boot`: `pmm_init` and `pmm_self_test`, once entered, go
on (weak); they run with interrupts off.

## 4. Proofs

Each theorem below holds for every value of the constants that satisfies the
named `ASSUME`s; TLC evaluates these on the instances. Each proof has the same
shape: an inductive invariant, one lemma per action, and the properties as
consequences. Every inductive invariant was first checked by TLC as an invariant
of its run.

**PmmProofs.** `IInv == TypeOK /\ CountExact /\ HintSound /\ NoDoubleGrant /\
frame 0 used`. The parts need each other: a scan that starts at the hint finds
the lowest free frame only by `HintSound`; the counter stays exact only because
a frame that is freed was marked used; frame 0 must be used for 0 to mean
"none". From it follow the invariants, the action property `Conservation` and,
with `free <- addresses of the clear bits`, the refinement `ImplementsPool`. This is
about Pmm from every bitmap; PmmBootProofs carries it over to the machine that
boots.

**PmmBootProofs**, for every memory size, every multiboot2 structure and every
place it lies at. `BootInv` says at each stage what is mapped (`MapInv`), what
has been copied (`WalkInv`), what the bitmap holds (`PoolInv`) and what the
self-test owns (`TestInv`). `WalkInv` is the loop invariant of `mb2_init`: the
tags passed so far lie end to end, the ranges are those of their entries, and in
a well-formed structure the walk stands at a tag; hence `ReadsMapped` and
`HaltsForCause`. `PoolExact` needs in addition the arithmetic of rounding:
a frame is freed iff it lies inside a usable entry, whatever the entry's length
does to the `uint64_t` sum, and marked used again iff it touches a reserved
range. `BootHandsOver` is the initial condition of PmmProofs, so that the
allocator's theorems hold from boot on. In the self-test the frames taken are
distinct and the pool without them is what the bitmap says; its verdict follows
from the pool's size (`SelfTestNeutral`). `CounterExact`, `HintNeverHigh` and
`HeldStaysUsed` hold from the first count on, in the middle of the self-test too.
`BootRefinesPool` maps a booting or testing machine to a pool of the allocatable
frames that callers do not hold, a running one to its clear bits; at each change
between the two, `PoolExact` and the neutrality of the test say that they are the
same set. Assumed of the boot loader, as the
multiboot2 specification promises: the structure starts at a multiple of 8, tags
start at multiples of 8 and do not overlap, a memory map's size counts its
entries. Assumed of the constants: whole 2MB pages, a word wider than an
address, and a self-test that takes frames beyond the first 2MB (1MB reserved,
512 frames).

**VmProofs**, for every memory size and every set of pages. `VmInv`: the tables
of all spaces form a forest whose every frame is used once (`Good`), each data
frame is the heap's or held (`OwnersKnown`), and the TLB agrees with the tables.
A frame fresh from the allocator is in no table, so a walk that builds tables
changes no translation, and one that fails half-way leaves only empty tables
behind: that is why `FramesAccounted` survives a failure. `HeapFirst` (the
first heap access precedes all other calls) is what `VmKernelHalf` rests on: the
heap's PML4 entry is filled before a second space copies it. The theorem says
that all spaces share the kernel half as long as kernel code maps nothing there
under another PML4 entry; run `vm_far_page` shows that this hypothesis is
needed. `FreshPageZero` and `HaltDeserved` are about a page fault: what it maps
is zeroed, and it stops the machine only when tables plus page exceed the free
frames. Assumed: the boot tables are frames, heap and client pages are disjoint.

The second half of VmProofs is about `vm_self_test`, in a machine that either
runs it or serves arbitrary kernel code. `SelfTestTidy` speaks of the end of the
script only, so the inductive invariant `TestInv` says for each of its stages
what is held, what the two test pages show in which space, which space is
current, and what the last word written or read was; `VmInv` carries along. Two
conjuncts are less obvious: nothing hangs below the PML4 entry of the space test
page before the second space exists (a space copies only entry 0 and the kernel
half, so the page of one space cannot show in the other), and a stage entered
after a failed call implies that the pool was once empty (`dry`), which makes
"fails for no other reason" provable. The theorems about Vm are then proved for
this machine as well. Assumed (`VmTestAssumption`), as the constants of `vm.h`
have it: the scratch page lies in the heap's PML4 entry outside the heap, the
space test page in the lower half outside entry 0, the refused page in the
identity map, and the heap has two pages.

**HeapProofs**, for every arena size and every sequence of requests. `HeapInv`
adds to `Tiling` and `InUseIsLive`: `StaleIsFree` (a header that was merged away
is marked free, so a pointer into the middle of a block is refused even if an
old header survives there; except where an owner has written over part of it,
which is what `written` records), `ScanSound` and `FreeSound` (where the loops of
`kmalloc` and `kfree` stand and what they have passed), `NearlyCoalesced` (two
free neighbours exist only next to the block `kfree` is merging). They give
`Coalesced`, `PanicDeserved`, `WrongFreeCaught` and `NullOnlyWhenFull`, for callers
that keep the contract and owners that store any size. The exception in
`WrongFreeCaught` is needed: run `heap_double_free`.

**ConsoleProofs**, first about Irq, for every set of lines and every state the
firmware leaves. `IsrClean` becomes inductive with "no interrupt is taken before `pic_init`". The
key lemma is that an EOI sequence for line n clears both chips if at most n and
its cascade are in service, spurious answers included.

Then about the composition. Every step of the composition is a step of Keyboard and of
Irq or leaves them alone (`ConsoleImplementsKeyboard`, `ConsoleImplementsIrq`),
so that their theorems, the refinement of CharFifo among them, hold in it.
`Handshake` is what only the composition has: handler registered before the
flag is set, and no second request of line 1 pending before the port is read;
with it `ByteHasInterrupt` is inductive.

**KeyboardProofs**, for every `KB_BUF_SIZE` >= 2 and all tables: types,
`GetSafe` and `RingHoldsChars` together are inductive. `GetSafe` makes the three
steps of `kb_get` safe: the handler only adds characters, so a ring found
non-empty stays so and the slot at the tail is not overwritten. The refinement
`ImplementsFifo` rests on lemmas about the ring as a sequence.

Keys is proved to implement Keyboard, for every keyboard that speaks scancode
set 1 (`KeysAssumption`: each key sends its make and break code, an extended one
the prefix and any second byte, that of a Shift key too). `ShiftTracks` and
`TypedInOrder` relate the driver to the keys, with bytes on their way; the
invariant `KeysInv` therefore says that the bytes on the wire lead (`Leads`) from
the driver's view now to the view of one who has seen every key. `Leads` asks for
a sequence of intermediate views, one per byte, instead of a fold over the wire:
handling a byte drops the first view, a keystroke appends the views of its
bytes, and the bytes of a whole keystroke have the effect of the key, whatever
prefix they carry.

**VgaProofs**, for every screen, tab width and diagnostic. `RangeInv` says how
far off the screen each stage of a call may leave row and column; the proof
needed two conjuncts that the property does not suggest: the row a call has
read stays below the height although an interrupt may move the real one, and
while cell and column are being stored the column is on the screen or one past
the register. `RegistersInv` says, for a call that was not interrupted, which
registers still agree with memory; it gives `CursorHeals`. `ScreenExact` uses
`Pending`, the terminal as it will be when the call at its stage is over: every
access changes what is left to do and not `Pending`, entering a call types the
character on paper, and `PutMatches` shows that one character on the flat buffer
and on paper agree, wrap, scroll, tab and backspace included (addresses of two
places differ; a scrolled cell is the one a line below). The loop of `vga_puts`
is a recursive function on the text; that it exists and keeps the agreement is
shown by least counterexample over the prefixes. Assumed: a tab is no wider
than a line, the diagnostic is shorter than one and has no control characters.

**PrintfProofs**, for every format, every pair of integer widths and every size of
the digit array that has a digit for three bits of a word (24 for 64). `PrintfInv`
ties the scan to the format: at each state of the scan, `Before` of the current
character is the matching part of a conversion and names the same argument; then
the caller's contract gives the argument, and the terminator, which completes
any conversion, is never stepped over. That the digits fit needs facts about
recursion and powers: the digit array and `Before` are recursive functions, whose
existence and size are shown by least counterexample, and the powers of two are
counted as subsets (`FS_SUBSET`), which gives `2 ^ (n + 1) = 2 * 2 ^ n` without
induction over data.

## 5. Only model-checked

* Liveness: `BootEnds`, `CallsReturn`, the service of open lines, the fetching
  of bytes and the draining of the ring. Liveness under fairness is outside the
  prover's reach.
* `PrintsReference` of Printf: what a call should show is given piece by piece
  with each call of the instance (`call.shows`), not as a function of the format,
  so there is nothing general to prove; the run compares 62 928 calls.
* The four properties of section 6, which do not hold. `KernelHalfShared` is proved
  under the hypothesis that excludes its counterexample.

Every other property of the runs is a theorem. Where a definition is recursive
(`vga_puts`, the digit array, `Before`), the proofs use recursive functions and
the least counterexample on the natural numbers, since an induction rule with an
operator as parameter cannot be used.

## 6. What the violations show

* `lost_wakeup`: the comment above the main loop says that `sti; hlt` is atomic
  and that the CPU never sleeps on unread characters. From its second round the
  loop runs with interrupts enabled, so the interrupt can come after `kb_get`
  has returned -1 and before HLT; STI then opens no shadow, and the CPU sleeps
  with the character in the ring until another interrupt. A `cli` before the
  last check would close the window. `DrainsWhileTyping` shows that a later key
  frees the character.
* `vm_far_page`: "all address spaces share its kernel mappings" holds for the
  entries that were filled when the space was created. It holds for the heap,
  since `heap_init` touches it first (run `vm`), not for a PML4 entry of the
  kernel half that is first used later.

* `vga_cursor`: "the hardware cursor always stands at the next position to be
  written" is an acceptance criterion of the terminal. `vga_update_cursor` computes
  the position from row and column and writes it in four port accesses; the
  diagnostic that `irq_dispatch` prints from interrupt context (a spurious IRQ7 is
  enough) can come in between. In the counterexample a carriage return has loaded
  the row when the diagnostic prints its line, moves the row on and places the
  cursor; then the interrupted call writes the position of the row it loaded
  before. A diagnostic between the accesses can in the same way leave one byte of
  each position. That it also changes the CRTC index does no lasting harm: a low
  byte that goes to the high register is overwritten by the high byte next.
  `CursorHeals` shows that the next
  undisturbed output repairs it, `TerminalRecovers` that row and column are never
  left outside the screen. A character overtaken by the diagnostic between
  column store and wrap is written below the screen, and the line it belonged to
  is not what was printed: `ScreenExact` is about undisturbed output.
* `heap_double_free`: "double free / bad pointer is reported and stops the
  machine" (`heap.h`). `kfree` judges a pointer by the header in front of it. A
  merged block leaves its header behind, marked free; when a later allocation
  covers it, an ordinary store of 0 into the free word leaves the magic number
  intact, and `kfree` of the pointer behind it goes ahead although nobody holds it.
  The same happens to a pointer that was handed out and freed before. The merge that
  follows may add a size that is no longer true, so that the chain no longer tiles
  the arena. Clearing the magic number when a block is merged away would close
  the gap; until an owner writes there, the tests are right (`WrongFreeCaught`).

One assumption hides a fifth: Console lets the 8042 speak only after
`pic_init`. A byte that arrived earlier would lose its edge to ICW1 and block
the keyboard, as nothing drains port 0x60 (hazard at `pic.c:43`).

## 7. Not modelled, and the plan

Not modelled: the descriptor encoding of `idt.c` and its exception dump, the
register frame of `isr.asm` (static assertions guard it), CPU feature tests and
mode switch in `boot.asm`, `vga_enable_cursor` (two constant registers, written
once before other output), `heap_self_test` (one fixed sequence of `kmalloc` and
`kfree`, without a branch that undoes anything; run `heap` covers all sequences), `m6_trigger` (compiled out), `io.h`,
`tools/decode_vga.py`. Characters from 0x80 on, which `vga_entry` would extend by
their sign into the attribute, are printed by no caller and are excluded from
`Glyphs`. Vm keeps the tests of `vm_handle_page_fault` on the error code as they
are; the CPU never reports an instruction fetch, since `boot.asm` leaves EFER.NXE
clear, and no property depends on it.

Order of work:

1. done: Pmm with proofs, PmmBoot, Keyboard with proofs, Keys, Irq, Console,
   Heap, Vm.
2. done: the tag walk of `mb2.c` and the allocator's self-test in PmmBoot,
   VmTest, Vga, Printf; no run spends a property on types any more: `TypeOK`,
   `KbTypeOK`, `IrqTypeOK`, `ConsoleTypeOK` and `HeapTypeOK` are proved, as parts
   of the inductive invariants.
3. done: proofs of PmmBoot, Vm, Heap, Irq, Console and Vga. Two models changed for
   them without changing what they do: PmmBoot keeps references to entries and
   releases the self-test's frames one by one; the loop of `vga_puts` is a
   recursive function instead of a fold.
4. done: proofs of Keys, VmTest and Printf. The assumptions of these modules now
   say what keyboard, page layout and callers are; `StaysInside` covers all five
   integer conversions and the value that is really converted.
5. done: owners that write over part of an old header, with `WrongFreeCaught` and the
   finding of `heap_double_free`; the allocator is run and refined from the states
   boot leaves instead of on its own.
6. Possible: a reference for `vga_printf` that is a function of format and
   arguments, to prove `PrintsReference` against; the descriptor encoding of
   `idt.c`.
