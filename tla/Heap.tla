-------------------------------- MODULE Heap --------------------------------
(* The kernel heap, src/heap.c: first fit, split, merge.  Addresses and     *)
(* sizes are counted in 16-byte units, the size of a block header, from the *)
(* start of the arena.  Memory is kept as the code finds it: a header that  *)
(* was merged away stays behind as old data until a user overwrites it.     *)
(* The loops of kmalloc and kfree are modelled iteration by iteration.  One *)
(* thread uses the heap and interrupt handlers do not.                      *)
EXTENDS Integers, FiniteSets

CONSTANTS HEAP_UNITS,    \* VM_HEAP_SIZE / 16
          Sizes,         \* byte counts callers pass to kmalloc
          Stored         \* what owners store where a size was, in units

UNIT == 16
VM_HEAP_SIZE == HEAP_UNITS * UNIT
Units == 0 .. HEAP_UNITS - 1

ASSUME HeapAssumption ==
  HEAP_UNITS \in Nat \ {0, 1} /\ Sizes \subseteq Nat /\ Stored \subseteq Nat

VARIABLES mem,     \* what each unit holds: a header or other data
          op,      \* the call in progress: [pc, b, size, prev, cur]
          live,    \* requested bytes of each pointer handed out and not freed
          blocks,  \* history: units at which a block currently starts
          written, \* history: old headers that an owner has changed in part
          result   \* the latest answer of kmalloc: a unit or NULL

heapVars == <<mem, op, live, blocks, written, result>>

-----------------------------------------------------------------------------
Header(f, s) == [magic |-> TRUE, free |-> f, size |-> s]
Data == [magic |-> FALSE, free |-> FALSE, size |-> 0]

NULL == -1                \* not an address of the arena
Payload(b) == b + 1       \* (uint8_t *)b + sizeof(block_t)

(* Mutant: forgets the header. *)
NextOf_NoHeader(m, b) == b + m[b].size

NextOf(m, b) == b + 1 + m[b].size

Idle == [pc |-> "idle", b |-> 0, size |-> 0, prev |-> -1, cur |-> 0]

(* Mutant: rounds the request down. *)
NeedOf_Floor(size) == size \div UNIT

(* (size + 15) & ~15, in units *)
NeedOf(size) == (size + UNIT - 1) \div UNIT

Fits(m, b, need) == m[b].free /\ m[b].size >= need

(* Block b is handed out; the tail becomes a block of its own when it has   *)
(* room for a header and 16 bytes.                                          *)
Carve(m, b, need) ==
  LET remain == m[b].size - need
  IN  IF remain >= 2
      THEN [m EXCEPT ![b + 1 + need] = Header(TRUE, remain - 1),
                     ![b] = Header(FALSE, need)]
      ELSE [m EXCEPT ![b].free = FALSE]

(* Where the tail's header is written, if the block is split. *)
CarvedAt(m, b, need) ==
  IF m[b].size - need >= 2 THEN {b + 1 + need} ELSE {}

-----------------------------------------------------------------------------
(* heap_init: one free block, the rest of the arena zero. *)
HeapInit ==
  /\ mem = [u \in Units |-> IF u = 0 THEN Header(TRUE, HEAP_UNITS - 1) ELSE Data]
  /\ op = Idle
  /\ live = [p \in {} |-> 0]
  /\ blocks = {0}
  /\ written = {}
  /\ result = NULL

Panic(b) == op' = [op EXCEPT !.pc = "panic", !.b = b]

(* The part before the loop. *)
kmalloc(size) ==
  /\ op.pc = "idle"
  /\ IF size = 0 \/ size > VM_HEAP_SIZE
     THEN result' = NULL /\ op' = op
     ELSE op' = [Idle EXCEPT !.pc = "scan", !.size = size] /\ UNCHANGED result
  /\ UNCHANGED <<mem, live, blocks, written>>

HandOut(b) ==
  /\ mem' = Carve(mem, b, NeedOf(op.size))
  /\ blocks' = blocks \cup CarvedAt(mem, b, NeedOf(op.size))
  /\ written' = written \ CarvedAt(mem, b, NeedOf(op.size))
  /\ result' = Payload(b)
  /\ live' = [p \in DOMAIN live \cup {Payload(b)} |->
                IF p = Payload(b) THEN op.size ELSE live[p]]
  /\ op' = Idle

(* Mutant: the scan gives up at a block that is in use. *)
StepOver_GivesUp(b) ==
  /\ op' = IF ~mem[b].free \/ NextOf(mem, b) >= HEAP_UNITS THEN Idle
           ELSE [op EXCEPT !.b = NextOf(mem, b)]
  /\ result' = IF ~mem[b].free \/ NextOf(mem, b) >= HEAP_UNITS THEN NULL
               ELSE result
  /\ UNCHANGED <<mem, live, blocks, written>>

(* Go to the next block, or return NULL behind the last one. *)
StepOver(b) ==
  /\ op' = IF NextOf(mem, b) >= HEAP_UNITS THEN Idle
           ELSE [op EXCEPT !.b = NextOf(mem, b)]
  /\ result' = IF NextOf(mem, b) >= HEAP_UNITS THEN NULL ELSE result
  /\ UNCHANGED <<mem, live, blocks, written>>

(* One iteration of kmalloc's loop. *)
ScanBlock ==
  /\ op.pc = "scan"
  /\ IF ~mem[op.b].magic
     THEN Panic(op.b) /\ UNCHANGED <<mem, live, blocks, written, result>>
     ELSE IF Fits(mem, op.b, NeedOf(op.size)) THEN HandOut(op.b)
     ELSE StepOver(op.b)

(* Mutant: a block that is already free is accepted. *)
RefusesFree_NoDoubleTest(b) == b \notin Units \/ ~mem[b].magic

(* The three tests that stop the machine. *)
RefusesFree(b) == b \notin Units \/ ~mem[b].magic \/ mem[b].free

(* kfree up to "b->free = 1", for any 16-byte aligned pointer. *)
kfree(p) ==
  LET b == p - 1
  IN  /\ op.pc = "idle"
      /\ IF p = NULL THEN UNCHANGED <<mem, op, live>>
         ELSE IF RefusesFree(b) THEN Panic(b) /\ UNCHANGED <<mem, live>>
         ELSE /\ mem' = [mem EXCEPT ![b].free = TRUE]
              /\ op' = [Idle EXCEPT !.pc = "forward", !.b = b]
              /\ live' = [q \in DOMAIN live \ {p} |-> live[q]]
      /\ UNCHANGED <<blocks, written, result>>

CanAbsorb(n) == n < HEAP_UNITS /\ mem[n].magic /\ mem[n].free

(* Mutant: the forward merge does not store the grown size. *)
MergeForward_NoGrow ==
  LET n == NextOf(mem, op.b)
  IN  /\ op.pc = "forward"
      /\ IF n < HEAP_UNITS /\ ~mem[n].magic
         THEN Panic(op.b) /\ UNCHANGED <<mem, blocks>>
         ELSE IF CanAbsorb(n)
         THEN blocks' = blocks \ {n} /\ UNCHANGED <<mem, op>>
         ELSE op' = [op EXCEPT !.pc = "walk"] /\ UNCHANGED <<mem, blocks>>
      /\ UNCHANGED <<live, written, result>>

(* One iteration of the forward merge: swallow the next block if it is      *)
(* free; otherwise start looking for the block in front.                    *)
MergeForward ==
  LET n == NextOf(mem, op.b)
  IN  /\ op.pc = "forward"
      /\ IF n < HEAP_UNITS /\ ~mem[n].magic
         THEN Panic(op.b) /\ UNCHANGED <<mem, blocks>>
         ELSE IF CanAbsorb(n)
         THEN /\ mem' = [mem EXCEPT ![op.b].size = @ + 1 + mem[n].size]
              /\ blocks' = blocks \ {n}
              /\ op' = op
         ELSE op' = [op EXCEPT !.pc = "walk"] /\ UNCHANGED <<mem, blocks>>
      /\ UNCHANGED <<live, written, result>>

(* One iteration of the walk from the start of the heap towards b. *)
WalkToPrevious ==
  /\ op.pc = "walk" /\ op.cur < op.b
  /\ op' = [op EXCEPT !.prev = op.cur, !.cur = NextOf(mem, op.cur)]
  /\ UNCHANGED <<mem, live, blocks, written, result>>

(* Mutant: the merge with the previous block is forgotten. *)
MergeBackward_Forgotten ==
  /\ op.pc = "walk" /\ op.cur >= op.b
  /\ op' = Idle
  /\ UNCHANGED <<mem, live, blocks, written, result>>

(* Mutant: the size of the previous block grows by the data only. *)
MergeBackward_NoHeader ==
  /\ op.pc = "walk" /\ op.cur >= op.b
  /\ IF op.prev >= 0 /\ mem[op.prev].free
     THEN /\ mem' = [mem EXCEPT ![op.prev].size = @ + mem[op.b].size]
          /\ blocks' = blocks \ {op.b}
     ELSE UNCHANGED <<mem, blocks>>
  /\ op' = Idle
  /\ UNCHANGED <<live, written, result>>

(* The walk has arrived; a free block in front swallows b. *)
MergeBackward ==
  /\ op.pc = "walk" /\ op.cur >= op.b
  /\ IF op.prev >= 0 /\ mem[op.prev].free
     THEN /\ mem' = [mem EXCEPT ![op.prev].size = @ + 1 + mem[op.b].size]
          /\ blocks' = blocks \ {op.b}
     ELSE UNCHANGED <<mem, blocks>>
  /\ op' = Idle
  /\ UNCHANGED <<live, written, result>>

(* What an owner's store makes of an old header: the magic number is gone,  *)
(* or it survives and one or both of the other words change.  Nobody writes *)
(* the magic number.                                                        *)
Overwritten(h) ==
  {Data} \cup [magic : {TRUE}, free : BOOLEAN, size : Stored \cup {h.size}]

(* The owner of a block writes to a unit of it that still holds the header  *)
(* of a former block: kmalloc clears nothing.  Writes elsewhere change      *)
(* nothing that the heap reads.                                             *)
UserWrite(p, u) ==
  /\ op.pc = "idle"
  /\ u \in p .. p + NeedOf(live[p]) - 1
  /\ mem[u].magic
  /\ \E h \in Overwritten(mem[u]) :
       /\ mem' = [mem EXCEPT ![u] = h]
       /\ written' = IF h.magic THEN written \cup {u} ELSE written \ {u}
  /\ UNCHANGED <<op, live, blocks, result>>

Running == ScanBlock \/ MergeForward \/ WalkToPrevious \/ MergeBackward

(* 16-byte aligned pointers, also outside the arena, and NULL. *)
Pointers == {NULL} \cup 0 .. HEAP_UNITS + 1

(* What callers may pass to kfree: NULL and what they hold. *)
Owned == {NULL} \cup DOMAIN live
Refused == {p \in Pointers : RefusesFree(p - 1)}

(* A caller frees what it owns, or passes a pointer that stops the machine. *)
(* A wrong pointer that kfree takes breaks the contract unnoticed.          *)
HeapNext ==
  \/ \E size \in Sizes : kmalloc(size)
  \/ \E p \in Owned \cup Refused : kfree(p)
  \/ Running
  \/ \E p \in DOMAIN live : \E u \in Units : UserWrite(p, u)

(* A call that has been entered keeps executing. *)
HeapSpec == HeapInit /\ [][HeapNext]_heapVars /\ WF_heapVars(Running)

(* The heap under callers that may pass any pointer. *)
AnyCallerNext == HeapNext \/ \E p \in Pointers : kfree(p)
AnyCallerSpec == HeapInit /\ [][AnyCallerNext]_heapVars /\ WF_heapVars(Running)

-----------------------------------------------------------------------------
(* Types. *)
HeapTypeOK ==
  /\ mem \in [Units -> [magic : BOOLEAN, free : BOOLEAN, size : Nat]]
  /\ op.pc \in {"idle", "scan", "forward", "walk", "panic"}
  /\ op.pc \in {"scan", "forward", "walk"} => op.b \in Units
  /\ op.prev \in Units \cup {-1} /\ op.cur \in Units
  /\ DOMAIN live \subseteq Units
  /\ result \in Units \cup {NULL}

(* The blocks cover the arena without gap or overlap: each starts with an   *)
(* intact header whose size leads exactly to the next block or to the end.  *)
(* No walk of kmalloc or kfree leaves the chain or reads user data.         *)
Tiling ==
  /\ 0 \in blocks
  /\ \A b \in blocks :
       /\ mem[b].magic
       /\ NextOf(mem, b) \in blocks \cup {HEAP_UNITS}
       /\ \A c \in blocks : c <= b \/ c >= NextOf(mem, b)

(* The blocks in use are exactly the allocations their owners still hold,   *)
(* each at least as large as requested; with Tiling, no two allocations     *)
(* overlap and none reaches into a header.                                  *)
InUseIsLive ==
  /\ {b \in blocks : ~mem[b].free} = {p - 1 : p \in DOMAIN live}
  /\ \A p \in DOMAIN live : mem[p - 1].size * UNIT >= live[p]

(* Between calls no two neighbouring blocks are both free: memory that was  *)
(* given back in any order can be handed out again in one piece.            *)
Coalesced ==
  op.pc = "idle" =>
    \A b \in blocks :
      (mem[b].free /\ NextOf(mem, b) \in blocks) => ~mem[NextOf(mem, b)].free

(* The machine stops only in kfree and only for a pointer nobody holds: a   *)
(* correct caller never sees "corrupt magic", "bad magic" or "double free". *)
PanicDeserved ==
  [][op'.pc = "panic" =>
       op.pc = "idle" /\ op'.b + 1 \notin DOMAIN live]_heapVars

(* Between calls kfree's three tests stop every pointer that nobody holds,  *)
(* inside a block, at a free block or outside the arena, although headers   *)
(* of merged blocks lie about in memory; except where an owner has written  *)
(* over such an old header since.                                           *)
WrongFreeCaught ==
  op.pc = "idle" =>
    \A p \in Pointers \ Owned : p - 1 \in written \/ RefusesFree(p - 1)

(* "double free / bad pointer is reported and stops the machine" (heap.h):  *)
(* kfree goes ahead only with a pointer that is currently handed out.       *)
BadFreeStops ==
  [][op.pc = "idle" /\ op'.pc = "forward" => op'.b + 1 \in DOMAIN live]_heapVars

(* The units of the blocks that owners hold, headers included. *)
HeldUnits == UNION {p - 1 .. p - 1 + mem[p - 1].size : p \in DOMAIN live}

(* kmalloc answers NULL only when nowhere in the arena a header and the     *)
(* requested bytes fit between the blocks in use: however they were given   *)
(* back, free units that lie side by side can be had in one piece.          *)
NullOnlyWhenFull ==
  [][(op.pc = "scan" /\ op'.pc = "idle" /\ result' = NULL) =>
       \A u \in 0 .. HEAP_UNITS - 1 - NeedOf(op.size) :
         (u .. u + NeedOf(op.size)) \cap HeldUnits # {}]_heapVars

(* Every call returns or stops the machine: no walk goes round in circles. *)
CallsReturn == (op.pc # "idle") ~> (op.pc \in {"idle", "panic"})
=============================================================================
