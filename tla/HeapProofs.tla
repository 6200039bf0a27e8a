----------------------------- MODULE HeapProofs -----------------------------
(* Proofs about Heap for every size of the arena and every set of request   *)
(* sizes.                                                                   *)
EXTENDS Heap, NaturalsInduction, WellFoundedInduction, TLAPS

-----------------------------------------------------------------------------
(* The inductive invariant, part by part. *)

Calls == [pc : {"idle", "scan", "forward", "walk", "panic"},
          b : Int, size : Nat, prev : Units \cup {-1}, cur : Units]

(* Types, with those of the history and of the request in progress. *)
HeapTypes ==
  /\ mem \in [Units -> [magic : BOOLEAN, free : BOOLEAN, size : Nat]]
  /\ op \in Calls
  /\ DOMAIN live \subseteq Units
  /\ \A p \in DOMAIN live : live[p] \in Nat
  /\ blocks \subseteq Units
  /\ result \in Units \cup {NULL}

(* A header that was merged away is marked free until an owner writes over  *)
(* it, so that kfree takes no pointer to it for a live one.                 *)
StaleIsFree ==
  \A u \in Units \ (blocks \cup written) : mem[u].magic => mem[u].free

(* kmalloc's loop stands at a block and has passed none that fits. *)
ScanSound ==
  op.pc = "scan" =>
    /\ op.b \in blocks
    /\ op.size # 0
    /\ \A c \in blocks : c < op.b => ~Fits(mem, c, NeedOf(op.size))

(* kfree's loops work on a free block of the chain; the walk from the start *)
(* stands at a block not behind it and remembers the one before.            *)
FreeSound ==
  op.pc \in {"forward", "walk"} =>
    /\ op.b \in blocks
    /\ mem[op.b].free
    /\ op.cur \in blocks
    /\ op.cur <= op.b
    /\ \/ op.prev = -1 /\ op.cur = 0
       \/ op.prev \in blocks /\ NextOf(mem, op.prev) = op.cur

(* Two neighbouring free blocks exist only next to the block kfree is       *)
(* merging: behind it in the forward loop, in front of it until the end.    *)
NearlyCoalesced ==
  \A b \in blocks :
    (mem[b].free /\ NextOf(mem, b) \in blocks /\ mem[NextOf(mem, b)].free) =>
      \/ op.pc = "forward" /\ b = op.b
      \/ op.pc \in {"forward", "walk"} /\ NextOf(mem, b) = op.b

HeapInv ==
  /\ HeapTypes
  /\ Tiling
  /\ InUseIsLive
  /\ StaleIsFree
  /\ ScanSound
  /\ FreeSound
  /\ NearlyCoalesced

-----------------------------------------------------------------------------
(* Helpers. *)

(* The rounding of kmalloc: NeedOf(size) units hold size bytes, and any     *)
(* number of units that holds them is no smaller.                           *)
LEMMA NeedRounds ==
  ASSUME NEW size \in Nat
  PROVE  /\ NeedOf(size) \in Nat
         /\ NeedOf(size) * UNIT >= size
         /\ size # 0 => NeedOf(size) >= 1
         /\ \A k \in Nat : k * UNIT >= size => k >= NeedOf(size)
BY DEF NeedOf, UNIT

(* What the chain of blocks looks like from one block. *)
LEMMA BlockFacts ==
  ASSUME HeapTypes, Tiling, NEW b \in blocks
  PROVE  /\ b \in Units /\ b \in Nat /\ b < HEAP_UNITS
         /\ mem[b] \in [magic : BOOLEAN, free : BOOLEAN, size : Nat]
         /\ mem[b].size \in Nat /\ mem[b].magic
         /\ mem[b].free \in BOOLEAN
         /\ NextOf(mem, b) \in Nat
         /\ NextOf(mem, b) = b + 1 + mem[b].size
         /\ NextOf(mem, b) > b
         /\ NextOf(mem, b) <= HEAP_UNITS
         /\ NextOf(mem, b) \in blocks \cup {HEAP_UNITS}
         /\ \A c \in blocks : c <= b \/ c >= NextOf(mem, b)
<1>1. b \in Units /\ b \in Nat /\ b < HEAP_UNITS
  BY HeapAssumption DEF HeapTypes, Units
<1>2. mem[b] \in [magic : BOOLEAN, free : BOOLEAN, size : Nat]
  BY <1>1 DEF HeapTypes
<1>3. mem[b].size \in Nat /\ mem[b].free \in BOOLEAN
  BY <1>2, HeapAssumption
<1>4. /\ mem[b].magic
      /\ NextOf(mem, b) \in blocks \cup {HEAP_UNITS}
      /\ \A c \in blocks : c <= b \/ c >= NextOf(mem, b)
  BY DEF Tiling
<1>5. NextOf(mem, b) <= HEAP_UNITS
  <2>1. \A c \in blocks : c \in Int /\ c < HEAP_UNITS
    BY HeapAssumption DEF HeapTypes, Units
  <2> QED BY <1>4, <2>1, HeapAssumption
<1>6. NextOf(mem, b) = b + 1 + mem[b].size
  BY DEF NextOf
<1> QED BY <1>1, <1>2, <1>3, <1>4, <1>5, <1>6

(* A block has at most one block in front of it. *)
LEMMA OnePredecessor ==
  ASSUME HeapTypes, Tiling, NEW b \in blocks, NEW c \in blocks,
         NextOf(mem, b) = NextOf(mem, c)
  PROVE  b = c
<1>1. /\ b \in Nat /\ NextOf(mem, b) \in Nat /\ NextOf(mem, b) > b
      /\ \A d \in blocks : d <= b \/ d >= NextOf(mem, b)
  BY BlockFacts
<1>2. /\ c \in Nat /\ NextOf(mem, c) > c
      /\ \A d \in blocks : d <= c \/ d >= NextOf(mem, c)
  BY BlockFacts
<1> QED BY <1>1, <1>2

(* A pointer handed out lies behind the header of a block in use. *)
LEMMA LiveIsBlock ==
  ASSUME HeapTypes, InUseIsLive, NEW p
  PROVE  p \in DOMAIN live <=> (p \in Int /\ p - 1 \in blocks /\ ~mem[p - 1].free)
<1>1. ASSUME p \in DOMAIN live
      PROVE  p \in Int /\ p - 1 \in blocks /\ ~mem[p - 1].free
  BY <1>1, HeapAssumption DEF HeapTypes, InUseIsLive, Units
<1>2. ASSUME p \in Int, p - 1 \in blocks, ~mem[p - 1].free
      PROVE  p \in DOMAIN live
  <2>1. PICK q \in DOMAIN live : p - 1 = q - 1
    BY <1>2 DEF InUseIsLive
  <2>2. q \in Int
    BY HeapAssumption DEF HeapTypes, Units
  <2> QED BY <1>2, <2>1, <2>2
<1> QED BY <1>1, <1>2

(* Between a block and the next one there is no block. *)
LEMMA InsideIsNoBlock ==
  ASSUME HeapTypes, Tiling, NEW b \in blocks, NEW u \in Int,
         b < u, u < NextOf(mem, b)
  PROVE  u \notin blocks
BY BlockFacts

-----------------------------------------------------------------------------
(* The initial state and every action keep the invariant. *)

(* heap_init establishes the invariant. *)
LEMMA InitInv == HeapInit => HeapInv
<1> SUFFICES ASSUME HeapInit PROVE HeapInv
  OBVIOUS
<1>1. HeapTypes
  BY HeapAssumption DEF HeapInit, HeapTypes, Units, Idle, Header, Data, NULL, Calls
<1>2. mem[0] = Header(TRUE, HEAP_UNITS - 1) /\ blocks = {0} /\ 0 \in Units
  BY HeapAssumption DEF HeapInit, Units
<1>3. NextOf(mem, 0) = HEAP_UNITS
  BY <1>2, HeapAssumption DEF NextOf, Header
<1>4. Tiling
  BY <1>2, <1>3 DEF Tiling, Header
<1>5. InUseIsLive
  BY <1>2 DEF InUseIsLive, HeapInit, Header
<1>6. StaleIsFree
  BY <1>2 DEF StaleIsFree, HeapInit, Header, Data
<1>7. ScanSound /\ FreeSound
  BY DEF ScanSound, FreeSound, HeapInit, Idle
<1>8. NearlyCoalesced
  BY <1>2, <1>3, HeapAssumption DEF NearlyCoalesced
<1> QED BY <1>1, <1>4, <1>5, <1>6, <1>7, <1>8 DEF HeapInv

(* The start of kmalloc keeps it. *)
LEMMA MallocInv ==
  ASSUME HeapInv, NEW size \in Sizes, kmalloc(size)
  PROVE  HeapInv'
<1>1. HeapTypes'
  <2>1. size \in Nat
    BY HeapAssumption
  <2>2. op' \in Calls
    <3>1. op \in Calls
      BY DEF HeapInv, HeapTypes
    <3>2. op' = op \/ op' = [Idle EXCEPT !.pc = "scan", !.size = size]
      BY DEF kmalloc
    <3>3. Idle \in Calls
      BY HeapAssumption DEF Idle, Calls, Units
    <3> QED BY <2>1, <3>1, <3>2, <3>3 DEF Calls
  <2>3. result' \in Units \cup {NULL}
    BY DEF HeapInv, HeapTypes, kmalloc
  <2> QED BY <2>2, <2>3 DEF HeapInv, HeapTypes, kmalloc
<1>2. Tiling' /\ InUseIsLive' /\ StaleIsFree'
  BY DEF HeapInv, kmalloc, Tiling, InUseIsLive, StaleIsFree, NextOf
<1>3. op.pc = "idle" /\ op'.pc \in {"idle", "scan"}
  BY DEF kmalloc, Idle
<1>4. ScanSound'
  <2>1. op'.pc = "scan" => op'.b = 0 /\ op'.size = size /\ size # 0
    BY <1>3 DEF kmalloc, Idle
  <2>2. 0 \in blocks' /\ \A c \in blocks' : ~(c < 0)
    BY <1>1, <1>2, HeapAssumption DEF Tiling, HeapTypes, Units
  <2> QED BY <2>1, <2>2 DEF ScanSound
<1>5. FreeSound'
  BY <1>3 DEF FreeSound
<1>6. NearlyCoalesced'
  BY <1>3 DEF HeapInv, NearlyCoalesced, kmalloc, NextOf
<1> QED BY <1>1, <1>2, <1>4, <1>5, <1>6 DEF HeapInv

(* So does stepping over a block that does not fit. *)
LEMMA StepOverInv ==
  ASSUME HeapInv, op.pc = "scan", ~Fits(mem, op.b, NeedOf(op.size)),
         StepOver(op.b)
  PROVE  HeapInv'
<1> DEFINE n == NextOf(mem, op.b)
<1>1. op.b \in blocks
  BY DEF HeapInv, ScanSound
<1>2. /\ n \in Nat /\ n > op.b /\ n <= HEAP_UNITS /\ n \in blocks \cup {HEAP_UNITS}
      /\ \A c \in blocks : c <= op.b \/ c >= n
      /\ \A c \in blocks : c \in Nat
      /\ op.b \in Nat
  BY <1>1, BlockFacts DEF HeapInv
<1>3. HeapTypes'
  <2>1. op \in Calls /\ Idle \in Calls
    BY HeapAssumption DEF HeapInv, HeapTypes, Idle, Calls, Units
  <2>2. op' = Idle \/ op' = [op EXCEPT !.b = n]
    BY DEF StepOver
  <2>3. op' \in Calls
    <3> HIDE DEF n
    <3> QED BY <2>1, <2>2, <1>2 DEF Calls
  <2> QED BY <2>3 DEF HeapInv, HeapTypes, StepOver, NULL
<1>4. Tiling' /\ InUseIsLive' /\ StaleIsFree'
  BY DEF HeapInv, StepOver, Tiling, InUseIsLive, StaleIsFree, NextOf
<1>5. op'.pc \in {"idle", "scan"}
  BY DEF StepOver, Idle
<1>6. ScanSound'
  <2>1. SUFFICES ASSUME op'.pc = "scan" PROVE ScanSound'
    BY DEF ScanSound
  <2>2. op' = [op EXCEPT !.b = n] /\ n < HEAP_UNITS
    BY <2>1, <1>2, HeapAssumption DEF StepOver, Idle
  <2>3. op'.b = n /\ op'.size = op.size /\ n \in blocks
    BY <2>2, <1>2, HeapAssumption DEF HeapInv, HeapTypes, Calls
  <2>4. \A c \in blocks : c < n => ~Fits(mem, c, NeedOf(op.size))
    BY <1>2, <1>1 DEF HeapInv, ScanSound
  <2> QED BY <2>3, <2>4 DEF ScanSound, HeapInv, StepOver, Fits
<1>7. FreeSound'
  BY <1>5 DEF FreeSound
<1>8. NearlyCoalesced'
  BY <1>5 DEF HeapInv, NearlyCoalesced, StepOver, NextOf
<1> QED BY <1>3, <1>4, <1>6, <1>7, <1>8 DEF HeapInv

(* HandOut without a split: only the flag of the block changes. *)
LEMMA HandOutWholeInv ==
  ASSUME HeapInv, op.pc = "scan", Fits(mem, op.b, NeedOf(op.size)),
         HandOut(op.b), ~(mem[op.b].size - NeedOf(op.size) >= 2)
  PROVE  HeapInv'
<1> DEFINE b == op.b
           need == NeedOf(op.size)
<1>1. b \in blocks /\ op.size \in Nat /\ op.size # 0
  BY DEF HeapInv, ScanSound, HeapTypes, Calls
<1>2. /\ b \in Nat /\ b \in Units /\ mem[b].size \in Nat /\ mem[b].free
      /\ mem[b].size >= need /\ NextOf(mem, b) <= HEAP_UNITS
      /\ NextOf(mem, b) = b + 1 + mem[b].size
  BY <1>1, BlockFacts DEF HeapInv, Fits
<1>3. need \in Nat /\ need >= 1 /\ need * UNIT >= op.size
  BY <1>1, NeedRounds
<1>4. mem' = [mem EXCEPT ![b].free = FALSE] /\ blocks' = blocks /\ written' = written
  BY DEF HandOut, Carve, CarvedAt
<1>5. /\ mem'[b].size = mem[b].size /\ mem'[b].magic = mem[b].magic
      /\ ~mem'[b].free
      /\ \A u \in Units : u # b => mem'[u] = mem[u]
      /\ mem' \in [Units -> [magic : BOOLEAN, free : BOOLEAN, size : Nat]]
  BY <1>2, <1>4 DEF HeapInv, HeapTypes
<1>6. /\ DOMAIN live' = DOMAIN live \cup {b + 1}
      /\ live'[b + 1] = op.size
      /\ \A p \in DOMAIN live : p # b + 1 => live'[p] = live[p]
      /\ result' = b + 1 /\ op' = Idle
  BY DEF HandOut, Payload
<1>7. \A c \in blocks : c \in Units /\ NextOf(mem', c) = NextOf(mem, c)
  BY <1>5 DEF HeapInv, HeapTypes, NextOf
<1>8. b + 1 \in Units
  BY <1>2, <1>3, HeapAssumption DEF Units
<1>9. HeapTypes'
  <2>1. Idle \in Calls
    BY HeapAssumption DEF Idle, Calls, Units
  <2>2. DOMAIN live' \subseteq Units /\ \A p \in DOMAIN live' : live'[p] \in Nat
    BY <1>1, <1>6, <1>8 DEF HeapInv, HeapTypes
  <2>3. result' \in Units \cup {NULL}
    BY <1>6, <1>8
  <2>4. blocks' \subseteq Units
    BY <1>4 DEF HeapInv, HeapTypes
  <2> QED BY <2>1, <2>2, <2>3, <2>4, <1>5, <1>6 DEF HeapTypes
<1>10. Tiling'
  BY <1>4, <1>5, <1>7 DEF Tiling, HeapInv
<1>11. InUseIsLive'
  <2>1. {c \in blocks' : ~mem'[c].free} = {c \in blocks : ~mem[c].free} \cup {b}
    BY <1>1, <1>2, <1>4, <1>5, <1>7
  <2>2. {p - 1 : p \in DOMAIN live'} = {p - 1 : p \in DOMAIN live} \cup {b}
    BY <1>2, <1>6
  <2>3. ASSUME NEW p \in DOMAIN live'
        PROVE  mem'[p - 1].size * UNIT >= live'[p]
    <3>1. CASE p = b + 1
      BY <3>1, <1>1, <1>2, <1>3, <1>5, <1>6 DEF UNIT
    <3>2. CASE p # b + 1
      <4>1. p \in DOMAIN live /\ live'[p] = live[p]
        BY <3>2, <1>6
      <4>2. p \in Int /\ p - 1 \in blocks
        BY <4>1, LiveIsBlock DEF HeapInv
      <4>3. p - 1 # b
        BY <3>2, <4>2, <1>2
      <4> QED BY <4>1, <4>2, <4>3, <1>5, <1>7 DEF HeapInv, InUseIsLive
    <3> QED BY <3>1, <3>2
  <2> QED BY <2>1, <2>2, <2>3 DEF InUseIsLive, HeapInv
<1>12. StaleIsFree'
  BY <1>1, <1>4, <1>5 DEF StaleIsFree, HeapInv
<1>13. ScanSound' /\ FreeSound'
  BY <1>6 DEF ScanSound, FreeSound, Idle
<1>14. NearlyCoalesced'
  BY <1>4, <1>5, <1>7 DEF NearlyCoalesced, HeapInv
<1> QED BY <1>9, <1>10, <1>11, <1>12, <1>13, <1>14 DEF HeapInv

(* HandOut with a split: the tail becomes a free block in front of the old  *)
(* next block, which is in use or the end of the arena.                     *)
LEMMA HandOutSplitInv ==
  ASSUME HeapInv, op.pc = "scan", Fits(mem, op.b, NeedOf(op.size)),
         HandOut(op.b), mem[op.b].size - NeedOf(op.size) >= 2
  PROVE  HeapInv'
<1> DEFINE b == op.b
           need == NeedOf(op.size)
           t == b + 1 + need
           n == NextOf(mem, b)
<1>1. b \in blocks /\ op.size \in Nat /\ op.size # 0
  BY DEF HeapInv, ScanSound, HeapTypes, Calls
<1>2. /\ b \in Nat /\ b \in Units /\ mem[b].size \in Nat /\ mem[b].free
      /\ n \in Nat /\ n <= HEAP_UNITS /\ n \in blocks \cup {HEAP_UNITS}
      /\ n = b + 1 + mem[b].size
      /\ \A c \in blocks : c <= b \/ c >= n
  BY <1>1, BlockFacts DEF HeapInv, Fits
<1>3. need \in Nat /\ need >= 1 /\ need * UNIT >= op.size
  BY <1>1, NeedRounds
<1>4. t \in Nat /\ b < t /\ t < n /\ t \in Units /\ t # b
  BY <1>2, <1>3, HeapAssumption DEF Units
<1>5. t \notin blocks
  BY <1>1, <1>4, InsideIsNoBlock DEF HeapInv
<1>6. mem' = [mem EXCEPT ![t] = Header(TRUE, mem[b].size - need - 1),
                         ![b] = Header(FALSE, need)]
      /\ blocks' = blocks \cup {t} /\ written' = written \ {t}
  BY DEF HandOut, Carve, CarvedAt
<1>7. /\ mem'[t] = Header(TRUE, mem[b].size - need - 1)
      /\ mem'[b] = Header(FALSE, need)
      /\ \A u \in Units : u # b /\ u # t => mem'[u] = mem[u]
  BY <1>2, <1>4, <1>6 DEF HeapInv, HeapTypes
<1>8. /\ mem'[t].magic /\ mem'[t].free /\ mem'[t].size = mem[b].size - need - 1
      /\ mem'[b].magic /\ ~mem'[b].free /\ mem'[b].size = need
  BY <1>7 DEF Header
<1>9. /\ NextOf(mem', b) = t
      /\ NextOf(mem', t) = n
  BY <1>2, <1>3, <1>8 DEF NextOf
<1>10. \A c \in blocks : c # b => /\ mem'[c] = mem[c]
                                  /\ NextOf(mem', c) = NextOf(mem, c)
  BY <1>5, <1>7 DEF HeapInv, HeapTypes, NextOf
<1>11. /\ DOMAIN live' = DOMAIN live \cup {b + 1}
       /\ live'[b + 1] = op.size
       /\ \A p \in DOMAIN live : p # b + 1 => live'[p] = live[p]
       /\ result' = b + 1 /\ op' = Idle
  BY DEF HandOut, Payload
<1>12. b + 1 \in Units
  BY <1>2, <1>3, <1>4, HeapAssumption DEF Units
<1>13. HeapTypes'
  <2>1. Idle \in Calls
    BY HeapAssumption DEF Idle, Calls, Units
  <2>2. DOMAIN live' \subseteq Units /\ \A p \in DOMAIN live' : live'[p] \in Nat
    BY <1>1, <1>11, <1>12 DEF HeapInv, HeapTypes
  <2>3. result' \in Units \cup {NULL}
    BY <1>11, <1>12
  <2>4. blocks' \subseteq Units
    BY <1>4, <1>6 DEF HeapInv, HeapTypes
  <2>5. /\ Header(TRUE, mem[b].size - need - 1)
             \in [magic : BOOLEAN, free : BOOLEAN, size : Nat]
        /\ Header(FALSE, need)
             \in [magic : BOOLEAN, free : BOOLEAN, size : Nat]
    BY <1>2, <1>3, <1>4, HeapAssumption DEF Header
  <2>6. mem' \in [Units -> [magic : BOOLEAN, free : BOOLEAN, size : Nat]]
    BY <2>5, <1>6 DEF HeapInv, HeapTypes
  <2> QED BY <2>1, <2>2, <2>3, <2>4, <2>6, <1>11 DEF HeapTypes
<1>14. Tiling'
  <2>1. 0 \in blocks'
    BY <1>6 DEF HeapInv, Tiling
  <2>2. ASSUME NEW c \in blocks'
        PROVE  /\ mem'[c].magic
               /\ NextOf(mem', c) \in blocks' \cup {HEAP_UNITS}
               /\ \A d \in blocks' : d <= c \/ d >= NextOf(mem', c)
    <3>1. CASE c = b
      <4>1. \A d \in blocks' : d <= b \/ d >= t
        BY <1>2, <1>4, <1>6 DEF HeapInv, HeapTypes, Units
      <4>2. t \in blocks'
        BY <1>6
      <4> HIDE DEF t, b
      <4> QED BY <3>1, <4>1, <4>2, <1>8, <1>9
    <3>2. CASE c = t
      <4>1. \A d \in blocks' : d <= t \/ d >= n
        BY <1>2, <1>4, <1>6 DEF HeapInv, HeapTypes, Units
      <4>2. n \in blocks' \cup {HEAP_UNITS}
        BY <1>2, <1>6
      <4> HIDE DEF t, n
      <4> QED BY <3>2, <4>1, <4>2, <1>8, <1>9
    <3>3. CASE c # b /\ c # t
      <4>1. c \in blocks
        BY <3>3, <1>6
      <4>2. /\ c \in Nat /\ NextOf(mem, c) \in Nat /\ mem[c].magic
            /\ NextOf(mem, c) \in blocks \cup {HEAP_UNITS}
            /\ \A d \in blocks : d <= c \/ d >= NextOf(mem, c)
        BY <4>1, BlockFacts DEF HeapInv
      <4>3. c < b \/ c >= n
        BY <3>3, <4>1, <4>2, <1>2
      <4>4. t <= c \/ t >= NextOf(mem, c)
        BY <4>2, <4>3, <1>1, <1>2, <1>4
      <4> QED BY <3>3, <4>1, <4>2, <4>4, <1>6, <1>10
    <3> QED BY <3>1, <3>2, <3>3
  <2> QED BY <2>1, <2>2 DEF Tiling
<1>15. InUseIsLive'
  <2>1. {c \in blocks' : ~mem'[c].free} = {c \in blocks : ~mem[c].free} \cup {b}
    BY <1>1, <1>2, <1>5, <1>6, <1>8, <1>10
  <2>2. {p - 1 : p \in DOMAIN live'} = {p - 1 : p \in DOMAIN live} \cup {b}
    BY <1>2, <1>11
  <2>3. ASSUME NEW p \in DOMAIN live'
        PROVE  mem'[p - 1].size * UNIT >= live'[p]
    <3>1. CASE p = b + 1
      BY <3>1, <1>1, <1>2, <1>3, <1>8, <1>11 DEF UNIT
    <3>2. CASE p # b + 1
      <4>1. p \in DOMAIN live /\ live'[p] = live[p]
        BY <3>2, <1>11
      <4>2. p \in Int /\ p - 1 \in blocks
        BY <4>1, LiveIsBlock DEF HeapInv
      <4>3. p - 1 # b
        BY <3>2, <4>2, <1>2
      <4> QED BY <4>1, <4>2, <4>3, <1>10 DEF HeapInv, InUseIsLive
    <3> QED BY <3>1, <3>2
  <2> QED BY <2>1, <2>2, <2>3 DEF InUseIsLive, HeapInv
<1>16. StaleIsFree'
  BY <1>1, <1>6, <1>7 DEF StaleIsFree, HeapInv
<1>17. ScanSound' /\ FreeSound'
  BY <1>11 DEF ScanSound, FreeSound, Idle
<1>18. NearlyCoalesced'
  <2> SUFFICES ASSUME NEW c \in blocks', mem'[c].free,
                      NextOf(mem', c) \in blocks', mem'[NextOf(mem', c)].free
               PROVE  FALSE
    BY DEF NearlyCoalesced
  <2>1. c # b
    BY <1>8
  <2>2. CASE c = t
    <3>1. n \in blocks /\ n # b /\ mem[n].free
      <4>1. n \in blocks' /\ mem'[n].free
        <5> HIDE DEF t, n
        <5> QED BY <2>2, <1>9
      <4>2. n # t /\ n # b
        BY <1>2, <1>4
      <4> HIDE DEF t, n
      <4> QED BY <4>1, <4>2, <1>6, <1>10
    <3> QED BY <3>1, <1>1, <1>2 DEF HeapInv, NearlyCoalesced
  <2>3. CASE c # t
    <3>1. c \in blocks /\ mem[c].free /\ NextOf(mem', c) = NextOf(mem, c)
      BY <2>1, <2>3, <1>6, <1>10
    <3>2. NextOf(mem, c) # t
      BY <3>1, <1>4, <1>5, <1>2, HeapAssumption DEF HeapInv, Tiling
    <3>3. NextOf(mem, c) \in blocks /\ NextOf(mem, c) # b
      BY <3>1, <3>2, <1>6, <1>8
    <3>4. mem[NextOf(mem, c)].free
      BY <3>1, <3>3, <1>10
    <3> QED BY <3>1, <3>3, <3>4 DEF HeapInv, NearlyCoalesced
  <2> QED BY <2>2, <2>3
<1> QED BY <1>13, <1>14, <1>15, <1>16, <1>17, <1>18 DEF HeapInv

(* What passes kfree's tests is handed out, or an old header that an owner  *)
(* has written over.                                                        *)
LEMMA AcceptedIsLive ==
  ASSUME HeapInv, NEW p \in Int, p - 1 \notin written, ~RefusesFree(p - 1)
  PROVE  p - 1 \in blocks /\ ~mem[p - 1].free /\ p \in DOMAIN live
<1>1. p - 1 \in Units /\ mem[p - 1].magic /\ ~mem[p - 1].free
  BY DEF RefusesFree
<1>2. p - 1 \in blocks
  BY <1>1 DEF HeapInv, StaleIsFree
<1> QED BY <1>1, <1>2, LiveIsBlock DEF HeapInv

(* A pointer that is handed out passes kfree's tests. *)
LEMMA LiveIsAccepted ==
  ASSUME HeapInv, NEW p \in DOMAIN live
  PROVE  p \in Int /\ ~RefusesFree(p - 1)
<1>1. p \in Int /\ p - 1 \in blocks /\ ~mem[p - 1].free
  BY LiveIsBlock DEF HeapInv
<1> QED BY <1>1, BlockFacts DEF HeapInv, RefusesFree

(* What HeapNext passes to kfree is a number. *)
LEMMA OwnedOrRefused ==
  ASSUME HeapInv, NEW p \in Owned \cup Refused
  PROVE  p \in Int
BY HeapAssumption
   DEF HeapInv, HeapTypes, Owned, Refused, Pointers, NULL, Units

(* kfree up to the merges: ignored, refused, or the block is marked free. *)
LEMMA FreeInv ==
  ASSUME HeapInv, NEW p \in Owned \cup Refused, kfree(p)
  PROVE  HeapInv'
<1> DEFINE b == p - 1
<1>0. p \in Int /\ b \in Int
  BY OwnedOrRefused
<1>1. CASE p = NULL
  BY <1>1 DEF HeapInv, kfree, HeapTypes, Tiling, InUseIsLive, StaleIsFree,
              ScanSound, FreeSound, NearlyCoalesced, NextOf, Fits
<1>2. CASE p # NULL /\ RefusesFree(b)
  <2>1. /\ op' = [op EXCEPT !.pc = "panic", !.b = b]
        /\ mem' = mem /\ live' = live /\ blocks' = blocks /\ result' = result
        /\ written' = written
    BY <1>2 DEF kfree, Panic
  <2>2. op' \in Calls /\ op'.pc = "panic" /\ op.pc = "idle"
    <3>1. op \in Calls /\ op.pc = "idle"
      BY DEF HeapInv, HeapTypes, kfree
    <3> HIDE DEF b
    <3> QED BY <2>1, <1>0, <3>1 DEF Calls
  <2>3. HeapTypes'
    BY <2>1, <2>2 DEF HeapInv, HeapTypes
  <2>4. Tiling' /\ InUseIsLive' /\ StaleIsFree'
    BY <2>1 DEF HeapInv, Tiling, InUseIsLive, StaleIsFree, NextOf
  <2>5. ScanSound' /\ FreeSound'
    BY <2>2 DEF ScanSound, FreeSound
  <2>6. NearlyCoalesced'
    BY <2>1, <2>2 DEF HeapInv, NearlyCoalesced, NextOf
  <2> QED BY <2>3, <2>4, <2>5, <2>6 DEF HeapInv
<1>3. CASE p # NULL /\ ~RefusesFree(b)
  <2>1. b \in blocks /\ ~mem[b].free /\ p \in DOMAIN live
    BY <1>3, LiveIsBlock DEF HeapInv, Owned, Refused
  <2>2. /\ mem' = [mem EXCEPT ![b].free = TRUE]
        /\ op' = [Idle EXCEPT !.pc = "forward", !.b = b]
        /\ live' = [q \in DOMAIN live \ {p} |-> live[q]]
        /\ blocks' = blocks /\ written' = written
        /\ result' = result /\ op.pc = "idle"
    BY <1>3 DEF kfree
  <2>3. b \in Nat /\ b \in Units
    BY <2>1, BlockFacts DEF HeapInv
  <2>4. /\ mem'[b].size = mem[b].size /\ mem'[b].magic = mem[b].magic
        /\ mem'[b].free
        /\ \A u \in Units : u # b => mem'[u] = mem[u]
        /\ mem' \in [Units -> [magic : BOOLEAN, free : BOOLEAN, size : Nat]]
    BY <2>2, <2>3 DEF HeapInv, HeapTypes
  <2>5. \A c \in blocks : c \in Units /\ NextOf(mem', c) = NextOf(mem, c)
    BY <2>4 DEF HeapInv, HeapTypes, NextOf
  <2>6. op' \in Calls /\ op'.pc = "forward" /\ op'.b = b /\ op'.cur = 0 /\ op'.prev = -1
    <3>1. Idle \in Calls /\ Idle.cur = 0 /\ Idle.prev = -1
      BY HeapAssumption DEF Idle, Calls, Units
    <3>2. op' = [Idle EXCEPT !.pc = "forward", !.b = b]
      BY <2>2
    <3>3. b \in Int
      BY <1>0
    <3> HIDE DEF b
    <3> QED BY <3>1, <3>2, <3>3 DEF Calls
  <2>7. HeapTypes'
    BY <2>2, <2>4, <2>6 DEF HeapInv, HeapTypes
  <2>8. Tiling'
    BY <2>2, <2>4, <2>5 DEF Tiling, HeapInv
  <2>9. InUseIsLive'
    <3>1. \A q \in DOMAIN live : q \in Int /\ q - 1 \in blocks
      BY LiveIsBlock DEF HeapInv
    <3>2. {c \in blocks' : ~mem'[c].free} = {c \in blocks : ~mem[c].free} \ {b}
      BY <2>1, <2>2, <2>4, <2>5
    <3>3. {q - 1 : q \in DOMAIN live'} = {q - 1 : q \in DOMAIN live} \ {b}
      BY <2>2, <3>1, <1>0
    <3>4. ASSUME NEW q \in DOMAIN live'
          PROVE  mem'[q - 1].size * UNIT >= live'[q]
      <4>1. q \in DOMAIN live /\ live'[q] = live[q] /\ q # p
        BY <2>2
      <4>2. q - 1 # b /\ q - 1 \in blocks
        BY <4>1, <3>1, <1>0
      <4> QED BY <4>1, <4>2, <2>4, <2>5 DEF HeapInv, InUseIsLive
    <3> QED BY <3>2, <3>3, <3>4 DEF InUseIsLive, HeapInv
  <2>10. StaleIsFree'
    BY <2>1, <2>2, <2>4 DEF StaleIsFree, HeapInv
  <2>11. ScanSound'
    BY <2>6 DEF ScanSound
  <2>12. FreeSound'
    BY <2>1, <2>2, <2>3, <2>4, <2>6 DEF FreeSound, HeapInv, Tiling
  <2>13. NearlyCoalesced'
    <3> SUFFICES ASSUME NEW c \in blocks, mem'[c].free,
                        NextOf(mem, c) \in blocks, mem'[NextOf(mem, c)].free,
                        c # b, NextOf(mem, c) # b
                 PROVE  FALSE
      BY <2>2, <2>5, <2>6 DEF NearlyCoalesced
    <3> QED BY <2>2, <2>4, <2>5 DEF NearlyCoalesced, HeapInv
  <2> HIDE DEF b
  <2> QED BY <2>7, <2>8, <2>9, <2>10, <2>11, <2>12, <2>13 DEF HeapInv
<1> QED BY <1>1, <1>2, <1>3

(* A free block a swallows the free block n behind it: the loop of the      *)
(* forward merge and the backward merge do this.                            *)
Swallow(a, n) ==
  /\ mem' = [mem EXCEPT ![a].size = @ + 1 + mem[n].size]
  /\ blocks' = blocks \ {n}
  /\ UNCHANGED <<live, written, result>>

(* Swallowing keeps the chain; only a's end moves, to the end of n. *)
LEMMA SwallowKeeps ==
  ASSUME HeapInv, NEW a \in blocks, NEW n \in blocks, n = NextOf(mem, a),
         mem[a].free, mem[n].free, Swallow(a, n)
  PROVE  /\ op' \in Calls => HeapTypes'
         /\ Tiling' /\ InUseIsLive' /\ StaleIsFree'
         /\ n # a /\ a \in blocks' /\ mem'[a].free
         /\ NextOf(mem', a) = NextOf(mem, n)
         /\ \A c \in blocks : c # a => /\ mem'[c] = mem[c]
                                       /\ NextOf(mem', c) = NextOf(mem, c)
<1>1. /\ a \in Nat /\ a \in Units /\ mem[a].size \in Nat /\ n > a
      /\ n = a + 1 + mem[a].size
      /\ mem[a].magic
      /\ \A c \in blocks : c <= a \/ c >= n
  BY BlockFacts DEF HeapInv
<1>2. /\ n \in Nat /\ n \in Units /\ mem[n].size \in Nat
      /\ NextOf(mem, n) = n + 1 + mem[n].size
      /\ NextOf(mem, n) <= HEAP_UNITS /\ NextOf(mem, n) > n
      /\ NextOf(mem, n) \in blocks \cup {HEAP_UNITS}
      /\ \A c \in blocks : c <= n \/ c >= NextOf(mem, n)
  BY BlockFacts DEF HeapInv
<1>3. /\ mem'[a].size = mem[a].size + 1 + mem[n].size
      /\ mem'[a].magic /\ mem'[a].free
      /\ \A u \in Units : u # a => mem'[u] = mem[u]
  BY <1>1 DEF Swallow, HeapInv, HeapTypes
<1>4. mem' \in [Units -> [magic : BOOLEAN, free : BOOLEAN, size : Nat]]
  <2>1. mem[a].size + 1 + mem[n].size \in Nat
    BY <1>1, <1>2
  <2>2. mem \in [Units -> [magic : BOOLEAN, free : BOOLEAN, size : Nat]]
    BY DEF HeapInv, HeapTypes
  <2> QED BY <1>1, <2>1, <2>2 DEF Swallow
<1>5. \A c \in blocks : c # a => /\ mem'[c] = mem[c]
                                 /\ NextOf(mem', c) = NextOf(mem, c)
  BY <1>3 DEF HeapInv, HeapTypes, NextOf
<1>6. NextOf(mem', a) = NextOf(mem, n)
  BY <1>1, <1>2, <1>3 DEF NextOf
<1>7. blocks' = blocks \ {n} /\ n # a /\ a \in blocks' /\ live' = live
  BY <1>1, <1>2 DEF Swallow
<1>8. op' \in Calls => HeapTypes'
  BY <1>4, <1>7 DEF HeapInv, HeapTypes, Swallow
<1>9. Tiling'
  <2>1. 0 \in blocks'
    BY <1>1, <1>2, <1>7 DEF HeapInv, Tiling
  <2>2. ASSUME NEW c \in blocks'
        PROVE  /\ mem'[c].magic
               /\ NextOf(mem', c) \in blocks' \cup {HEAP_UNITS}
               /\ \A d \in blocks' : d <= c \/ d >= NextOf(mem', c)
    <3>1. CASE c = a
      <4>1. \A d \in blocks' : d <= a \/ d >= NextOf(mem, n)
        BY <1>1, <1>2, <1>7 DEF HeapInv, HeapTypes, Units
      <4>2. NextOf(mem, n) \in blocks' \cup {HEAP_UNITS}
        BY <1>2, <1>7
      <4> QED BY <3>1, <4>1, <4>2, <1>3, <1>6
    <3>2. CASE c # a
      <4>1. c \in blocks /\ c # n
        BY <1>7
      <4>2. NextOf(mem, c) # n
        BY <3>2, <4>1, OnePredecessor DEF HeapInv
      <4>3. /\ mem[c].magic /\ NextOf(mem, c) \in blocks \cup {HEAP_UNITS}
            /\ \A d \in blocks : d <= c \/ d >= NextOf(mem, c)
        BY <4>1, BlockFacts DEF HeapInv
      <4> QED BY <3>2, <4>1, <4>2, <4>3, <1>5, <1>7
    <3> QED BY <3>1, <3>2
  <2> QED BY <2>1, <2>2 DEF Tiling
<1>10. InUseIsLive'
  <2>1. {c \in blocks' : ~mem'[c].free} = {c \in blocks : ~mem[c].free}
    BY <1>3, <1>5, <1>7
  <2>2. ASSUME NEW p \in DOMAIN live
        PROVE  mem'[p - 1].size * UNIT >= live[p]
    <3>1. p - 1 \in blocks /\ ~mem[p - 1].free
      BY LiveIsBlock DEF HeapInv
    <3>2. mem'[p - 1] = mem[p - 1]
      BY <3>1, <1>5
    <3> QED BY <3>2 DEF HeapInv, InUseIsLive
  <2> QED BY <2>1, <2>2, <1>7 DEF InUseIsLive, HeapInv
<1>11. StaleIsFree'
  BY <1>3, <1>7 DEF StaleIsFree, HeapInv, Swallow
<1> QED BY <1>3, <1>5, <1>6, <1>7, <1>8, <1>9, <1>10, <1>11

(* The walks of kmalloc and kfree read a header wherever they stand. *)
LEMMA HeadersIntact ==
  ASSUME HeapInv
  PROVE  /\ op.pc = "scan" => mem[op.b].magic
         /\ op.pc = "forward" /\ NextOf(mem, op.b) < HEAP_UNITS =>
              NextOf(mem, op.b) \in blocks /\ mem[NextOf(mem, op.b)].magic
<1>1. op.pc = "scan" => mem[op.b].magic
  BY BlockFacts DEF HeapInv, ScanSound
<1>2. ASSUME op.pc = "forward", NextOf(mem, op.b) < HEAP_UNITS
      PROVE  NextOf(mem, op.b) \in blocks /\ mem[NextOf(mem, op.b)].magic
  <2>1. op.b \in blocks
    BY <1>2 DEF HeapInv, FreeSound
  <2>2. NextOf(mem, op.b) \in blocks
    BY <1>2, <2>1, BlockFacts, HeapAssumption DEF HeapInv
  <2> QED BY <2>2, BlockFacts DEF HeapInv
<1> QED BY <1>1, <1>2

(* One iteration of kmalloc's loop. *)
LEMMA ScanInv ==
  ASSUME HeapInv, ScanBlock
  PROVE  HeapInv'
<1>1. op.pc = "scan" /\ mem[op.b].magic
  BY HeadersIntact DEF ScanBlock
<1>2. CASE Fits(mem, op.b, NeedOf(op.size))
  BY <1>1, <1>2, HandOutWholeInv, HandOutSplitInv DEF ScanBlock
<1>3. CASE ~Fits(mem, op.b, NeedOf(op.size))
  BY <1>1, <1>3, StepOverInv DEF ScanBlock
<1> QED BY <1>2, <1>3

(* One iteration of kfree's forward loop. *)
LEMMA MergeForwardInv ==
  ASSUME HeapInv, MergeForward
  PROVE  HeapInv'
<1> DEFINE b == op.b
           n == NextOf(mem, b)
<1>1. /\ op.pc = "forward" /\ b \in blocks /\ mem[b].free /\ op.cur \in blocks
      /\ op.cur <= b /\ op \in Calls
      /\ \/ op.prev = -1 /\ op.cur = 0
         \/ op.prev \in blocks /\ NextOf(mem, op.prev) = op.cur
  BY DEF MergeForward, HeapInv, FreeSound, HeapTypes
<1>2. /\ b \in Nat /\ n \in Nat /\ n > b /\ n \in blocks \cup {HEAP_UNITS}
      /\ n <= HEAP_UNITS
  BY <1>1, BlockFacts DEF HeapInv
<1>3. ~(n < HEAP_UNITS /\ ~mem[n].magic)
  BY <1>1, HeadersIntact
<1>4. CASE CanAbsorb(n)
  <2>1. n \in blocks /\ mem[n].free
    BY <1>2, <1>4, HeapAssumption DEF CanAbsorb
  <2>2. Swallow(b, n) /\ op' = op
    BY <1>3, <1>4 DEF MergeForward, Swallow
  <2>3. /\ HeapTypes' /\ Tiling' /\ InUseIsLive' /\ StaleIsFree'
        /\ b \in blocks' /\ mem'[b].free
        /\ \A c \in blocks : c # b => /\ mem'[c] = mem[c]
                                      /\ NextOf(mem', c) = NextOf(mem, c)
    BY <1>1, <2>1, <2>2, SwallowKeeps
  <2>4. ScanSound'
    BY <1>1, <2>2 DEF ScanSound
  <2>5. FreeSound'
    <3>1. op.cur \in Nat /\ op.cur # n /\ op.cur \in blocks'
      BY <1>1, <1>2, <2>2, HeapAssumption DEF Calls, Swallow, Units
    <3>2. op.prev \in blocks /\ NextOf(mem, op.prev) = op.cur =>
            op.prev \in blocks' /\ NextOf(mem', op.prev) = op.cur
      <4> HAVE op.prev \in blocks /\ NextOf(mem, op.prev) = op.cur
      <4>1. op.prev \in Nat /\ op.prev < op.cur
        BY BlockFacts DEF HeapInv
      <4>2. op.prev # b /\ op.prev # n
        BY <4>1, <3>1, <1>1, <1>2
      <4> QED BY <4>2, <2>2, <2>3 DEF Swallow
    <3> QED BY <1>1, <2>2, <2>3, <3>1, <3>2 DEF FreeSound
  <2>6. NearlyCoalesced'
    <3> SUFFICES ASSUME NEW c \in blocks', mem'[c].free,
                        NextOf(mem', c) \in blocks', mem'[NextOf(mem', c)].free,
                        c # b, NextOf(mem', c) # b
                 PROVE  FALSE
      BY <1>1, <2>2 DEF NearlyCoalesced
    <3>1. c \in blocks /\ mem[c].free /\ NextOf(mem', c) = NextOf(mem, c)
      BY <2>2, <2>3 DEF Swallow
    <3>2. NextOf(mem, c) \in blocks /\ mem[NextOf(mem, c)].free
      BY <2>2, <2>3, <3>1 DEF Swallow
    <3> QED BY <3>1, <3>2 DEF NearlyCoalesced, HeapInv
  <2> QED BY <2>3, <2>4, <2>5, <2>6 DEF HeapInv
<1>5. CASE ~CanAbsorb(n)
  <2>1. /\ op' = [op EXCEPT !.pc = "walk"]
        /\ mem' = mem /\ blocks' = blocks /\ live' = live /\ result' = result
        /\ written' = written
    BY <1>3, <1>5 DEF MergeForward
  <2>2. /\ op' \in Calls /\ op'.pc = "walk" /\ op'.b = op.b
        /\ op'.cur = op.cur /\ op'.prev = op.prev
    BY <1>1, <2>1 DEF Calls
  <2>3. HeapTypes'
    BY <2>1, <2>2 DEF HeapInv, HeapTypes
  <2>4. Tiling' /\ InUseIsLive' /\ StaleIsFree'
    BY <2>1 DEF HeapInv, Tiling, InUseIsLive, StaleIsFree, NextOf
  <2>5. ScanSound'
    BY <2>2 DEF ScanSound
  <2>6. FreeSound'
    BY <1>1, <2>1, <2>2 DEF FreeSound, NextOf
  <2>7. NearlyCoalesced'
    <3>1. ~(n \in blocks /\ mem[n].free)
      <4> SUFFICES ASSUME n \in blocks PROVE ~mem[n].free
        OBVIOUS
      <4>1. n < HEAP_UNITS /\ mem[n].magic
        BY BlockFacts DEF HeapInv
      <4> QED BY <4>1, <1>5 DEF CanAbsorb
    <3> QED BY <1>1, <2>1, <2>2, <3>1 DEF NearlyCoalesced, HeapInv, NextOf
  <2> QED BY <2>3, <2>4, <2>5, <2>6, <2>7 DEF HeapInv
<1> QED BY <1>4, <1>5

(* One iteration of kfree's walk. *)
LEMMA WalkInv ==
  ASSUME HeapInv, WalkToPrevious
  PROVE  HeapInv'
<1> DEFINE n == NextOf(mem, op.cur)
<1>1. /\ op.pc = "walk" /\ op.cur < op.b /\ op \in Calls
      /\ op.b \in blocks /\ mem[op.b].free /\ op.cur \in blocks
  BY DEF WalkToPrevious, HeapInv, FreeSound, HeapTypes
<1>2. op.b \in Nat /\ op.b < HEAP_UNITS
  BY <1>1, BlockFacts DEF HeapInv
<1>3. op.cur \in Nat /\ n \in Nat /\ n \in blocks /\ n <= op.b
  BY <1>1, <1>2, BlockFacts, HeapAssumption DEF HeapInv
<1>4. /\ op' \in Calls /\ op'.pc = "walk" /\ op'.b = op.b
      /\ op'.cur = n /\ op'.prev = op.cur
      /\ mem' = mem /\ blocks' = blocks /\ live' = live /\ result' = result
      /\ written' = written
  <2>1. op' = [op EXCEPT !.prev = op.cur, !.cur = n]
    BY DEF WalkToPrevious
  <2>2. op \in Calls /\ op.pc = "walk" /\ op.cur \in Units /\ n \in Units
    BY <1>1, <1>3 DEF HeapInv, HeapTypes
  <2>3. /\ op' \in Calls /\ op'.pc = "walk" /\ op'.b = op.b
        /\ op'.cur = n /\ op'.prev = op.cur
    <3> HIDE DEF n
    <3> QED BY <2>1, <2>2 DEF Calls
  <2> QED BY <2>3 DEF WalkToPrevious
<1>5. HeapTypes'
  BY <1>4 DEF HeapInv, HeapTypes
<1>6. Tiling' /\ InUseIsLive' /\ StaleIsFree'
  BY <1>4 DEF HeapInv, Tiling, InUseIsLive, StaleIsFree, NextOf
<1>7. ScanSound'
  BY <1>4 DEF ScanSound
<1>8. FreeSound'
  BY <1>1, <1>3, <1>4 DEF FreeSound
<1>9. NearlyCoalesced'
  BY <1>1, <1>4 DEF NearlyCoalesced, HeapInv, NextOf
<1> QED BY <1>5, <1>6, <1>7, <1>8, <1>9 DEF HeapInv

(* The end of kfree: the walk stands at the freed block, so the block it    *)
(* remembers is the one in front.                                           *)
LEMMA MergeBackwardInv ==
  ASSUME HeapInv, MergeBackward
  PROVE  HeapInv'
<1> DEFINE b == op.b
           p == op.prev
<1>1. /\ op.pc = "walk" /\ b \in blocks /\ mem[b].free /\ op.cur \in blocks
      /\ op.cur >= b /\ op.cur <= b
      /\ \/ p = -1 /\ op.cur = 0
         \/ p \in blocks /\ NextOf(mem, p) = op.cur
  BY DEF MergeBackward, HeapInv, FreeSound
<1>2. op.cur = b
  BY <1>1, BlockFacts DEF HeapInv
<1>3. /\ op' = Idle /\ Idle \in Calls /\ Idle.pc = "idle"
      /\ live' = live /\ written' = written /\ result' = result
  BY HeapAssumption DEF MergeBackward, Idle, Calls, Units
<1>4. CASE p >= 0 /\ mem[p].free
  <2>1. p \in blocks /\ NextOf(mem, p) = b
    BY <1>1, <1>2, <1>4
  <2>2. Swallow(p, b)
    BY <1>4 DEF MergeBackward, Swallow
  <2>3. /\ HeapTypes' /\ Tiling' /\ InUseIsLive' /\ StaleIsFree'
        /\ b # p /\ NextOf(mem', p) = NextOf(mem, b)
        /\ \A c \in blocks : c # p => /\ mem'[c] = mem[c]
                                      /\ NextOf(mem', c) = NextOf(mem, c)
    BY <1>1, <1>3, <1>4, <2>1, <2>2, SwallowKeeps
  <2>4. ScanSound' /\ FreeSound'
    BY <1>3 DEF ScanSound, FreeSound
  <2>5. NearlyCoalesced'
    <3> SUFFICES ASSUME NEW c \in blocks', mem'[c].free,
                        NextOf(mem', c) \in blocks', mem'[NextOf(mem', c)].free
                 PROVE  FALSE
      BY DEF NearlyCoalesced
    <3>1. blocks' = blocks \ {b}
      BY <2>2 DEF Swallow
    <3>2. NextOf(mem, b) # b /\ NextOf(mem, b) # p
      BY <1>1, <2>1, BlockFacts DEF HeapInv
    <3>3. CASE c = p
      <4>1. NextOf(mem, b) \in blocks /\ mem[NextOf(mem, b)].free
        BY <3>1, <3>2, <3>3, <2>3
      <4> QED BY <4>1, <3>2, <1>1 DEF HeapInv, NearlyCoalesced
    <3>4. CASE c # p
      <4>1. c \in blocks /\ mem[c].free /\ NextOf(mem', c) = NextOf(mem, c)
        BY <3>1, <3>4, <2>3
      <4>2. NextOf(mem, c) \in blocks /\ NextOf(mem, c) # b
        BY <3>1, <4>1
      <4>3. mem[NextOf(mem, c)].free
        BY <4>1, <4>2, <2>3, <1>4
      <4> QED BY <4>1, <4>2, <4>3, <1>1 DEF HeapInv, NearlyCoalesced
    <3> QED BY <3>3, <3>4
  <2> QED BY <2>3, <2>4, <2>5 DEF HeapInv
<1>5. CASE ~(p >= 0 /\ mem[p].free)
  <2>1. mem' = mem /\ blocks' = blocks
    BY <1>5 DEF MergeBackward
  <2>2. HeapTypes'
    BY <1>3, <2>1 DEF HeapInv, HeapTypes
  <2>3. Tiling' /\ InUseIsLive' /\ StaleIsFree'
    BY <1>3, <2>1 DEF HeapInv, Tiling, InUseIsLive, StaleIsFree, NextOf
  <2>4. ScanSound' /\ FreeSound'
    BY <1>3 DEF ScanSound, FreeSound
  <2>5. ASSUME NEW c \in blocks, NextOf(mem, c) = b
        PROVE  ~mem[c].free
    <3>1. c \in Nat /\ b > c
      BY <2>5, BlockFacts DEF HeapInv
    <3>2. p \in blocks /\ NextOf(mem, p) = b
      BY <3>1, <1>1, <1>2
    <3>3. c = p
      BY <2>5, <3>2, OnePredecessor DEF HeapInv
    <3>4. p >= 0
      BY <3>1, <3>3
    <3> QED BY <3>3, <3>4, <1>5
  <2>6. NearlyCoalesced'
    BY <2>1, <2>5, <1>1, <1>3 DEF HeapInv, NearlyCoalesced, NextOf
  <2> QED BY <2>2, <2>3, <2>4, <2>6 DEF HeapInv
<1> QED BY <1>4, <1>5

(* An owner's write stays inside its block. *)
LEMMA UserWriteInv ==
  ASSUME HeapInv, NEW p \in DOMAIN live, NEW u \in Units, UserWrite(p, u)
  PROVE  HeapInv'
<1> DEFINE b == p - 1
<1>1. p \in Int /\ b \in blocks /\ live[p] \in Nat
  BY LiveIsBlock DEF HeapInv, HeapTypes
<1>2. mem[b].size \in Nat /\ NextOf(mem, b) = b + 1 + mem[b].size
  BY <1>1, BlockFacts DEF HeapInv
<1>3. NeedOf(live[p]) \in Nat /\ mem[b].size >= NeedOf(live[p])
  BY <1>1, <1>2, NeedRounds DEF HeapInv, InUseIsLive
<1>4. u \in Int /\ b < u /\ u < NextOf(mem, b)
  BY <1>1, <1>2, <1>3, HeapAssumption DEF UserWrite, Units
<1>5. u \notin blocks
  BY <1>1, <1>4, InsideIsNoBlock DEF HeapInv
<1>6. PICK h \in Overwritten(mem[u]) :
        /\ mem' = [mem EXCEPT ![u] = h] /\ op' = op /\ live' = live
        /\ written' = IF h.magic THEN written \cup {u} ELSE written \ {u}
        /\ blocks' = blocks /\ result' = result /\ op.pc = "idle"
  BY DEF UserWrite
<1>7. /\ mem' \in [Units -> [magic : BOOLEAN, free : BOOLEAN, size : Nat]]
      /\ \A v \in Units : v # u => mem'[v] = mem[v]
      /\ mem'[u] = h
  <2>1. h \in [magic : BOOLEAN, free : BOOLEAN, size : Nat]
    <3>1. mem[u].size \in Nat
      BY DEF HeapInv, HeapTypes
    <3>2. Data \in [magic : BOOLEAN, free : BOOLEAN, size : Nat]
      BY DEF Data
    <3>3. Stored \cup {mem[u].size} \subseteq Nat
      BY <3>1, HeapAssumption
    <3>4. [magic : {TRUE}, free : BOOLEAN, size : Stored \cup {mem[u].size}]
            \subseteq [magic : BOOLEAN, free : BOOLEAN, size : Nat]
      BY <3>3
    <3>5. h = Data \/ h \in [magic : {TRUE}, free : BOOLEAN,
                             size : Stored \cup {mem[u].size}]
      BY <1>6 DEF Overwritten
    <3> QED BY <3>2, <3>4, <3>5
  <2> QED BY <1>6, <2>1 DEF HeapInv, HeapTypes
<1>8. \A c \in blocks : mem'[c] = mem[c] /\ NextOf(mem', c) = NextOf(mem, c)
  BY <1>5, <1>7 DEF HeapInv, HeapTypes, NextOf
<1>9. HeapTypes'
  BY <1>6, <1>7 DEF HeapInv, HeapTypes
<1>10. Tiling'
  BY <1>6, <1>8 DEF HeapInv, Tiling
<1>11. InUseIsLive'
  <2>1. {c \in blocks' : ~mem'[c].free} = {c \in blocks : ~mem[c].free}
    BY <1>6, <1>8
  <2>2. \A q \in DOMAIN live : q - 1 \in blocks
    BY LiveIsBlock DEF HeapInv
  <2> QED BY <2>1, <2>2, <1>6, <1>8 DEF HeapInv, InUseIsLive
<1>12. StaleIsFree'
  BY <1>6, <1>7 DEF HeapInv, StaleIsFree
<1>13. ScanSound' /\ FreeSound'
  BY <1>6 DEF ScanSound, FreeSound
<1>14. NearlyCoalesced'
  BY <1>6, <1>8 DEF HeapInv, NearlyCoalesced
<1> QED BY <1>9, <1>10, <1>11, <1>12, <1>13, <1>14 DEF HeapInv

(* Every step keeps the invariant. *)
LEMMA NextInv == HeapInv /\ [HeapNext]_heapVars => HeapInv'
<1> SUFFICES ASSUME HeapInv, [HeapNext]_heapVars PROVE HeapInv'
  OBVIOUS
<1>1. ASSUME NEW size \in Sizes, kmalloc(size) PROVE HeapInv'
  BY <1>1, MallocInv
<1>2. ASSUME NEW p \in Owned \cup Refused, kfree(p) PROVE HeapInv'
  BY <1>2, FreeInv
<1>3. CASE Running
  BY <1>3, ScanInv, MergeForwardInv, WalkInv, MergeBackwardInv DEF Running
<1>4. ASSUME NEW p \in DOMAIN live, NEW u \in Units, UserWrite(p, u)
      PROVE  HeapInv'
  BY <1>4, UserWriteInv
<1>5. CASE UNCHANGED heapVars
  BY <1>5 DEF heapVars, HeapInv, HeapTypes, Tiling, InUseIsLive, StaleIsFree,
              ScanSound, FreeSound, NearlyCoalesced, NextOf, Fits
<1> QED BY <1>1, <1>2, <1>3, <1>4, <1>5 DEF HeapNext

-----------------------------------------------------------------------------
(* The heap's promises. *)

(* The strengthened invariant holds in every reachable state. *)
THEOREM HeapInvariant == HeapSpec => []HeapInv
BY InitInv, NextInv, PTL DEF HeapSpec

(* Types. *)
THEOREM HeapTypeCorrect == HeapSpec => []HeapTypeOK
<1>1. HeapInv => HeapTypeOK
  <2> SUFFICES ASSUME HeapInv PROVE HeapTypeOK
    OBVIOUS
  <2>1. op.pc \in {"scan", "forward", "walk"} => op.b \in Units
    BY DEF HeapInv, HeapTypes, ScanSound, FreeSound
  <2>2. op.prev \in Units \cup {-1} /\ op.cur \in Units
    BY DEF HeapInv, HeapTypes, Calls
  <2> QED BY <2>1, <2>2 DEF HeapInv, HeapTypes, HeapTypeOK, Calls
<1> QED BY <1>1, HeapInvariant, PTL

(* The chain of headers tiles the arena, whatever is allocated and freed in *)
(* whatever order: no walk of kmalloc or kfree leaves it.                   *)
THEOREM HeapTiling == HeapSpec => []Tiling
<1>1. HeapInv => Tiling
  BY DEF HeapInv
<1> QED BY <1>1, HeapInvariant, PTL

(* The blocks in use are the allocations handed out and not given back,     *)
(* each as large as was asked for.                                          *)
THEOREM HeapInUseIsLive == HeapSpec => []InUseIsLive
<1>1. HeapInv => InUseIsLive
  BY DEF HeapInv
<1> QED BY <1>1, HeapInvariant, PTL

(* kfree's two merges leave no pair of neighbouring free blocks. *)
THEOREM HeapCoalesced == HeapSpec => []Coalesced
<1>1. HeapInv => Coalesced
  BY DEF HeapInv, NearlyCoalesced, Coalesced
<1> QED BY <1>1, HeapInvariant, PTL

(* The machine stops only in kfree, for a pointer nobody holds. *)
THEOREM HeapPanicDeserved == HeapSpec => PanicDeserved
<1> DEFINE Deserved == op'.pc = "panic" =>
                         op.pc = "idle" /\ op'.b + 1 \notin DOMAIN live
<1>1. HeapInv /\ [HeapNext]_heapVars => [Deserved]_heapVars
  <2> SUFFICES ASSUME HeapInv, HeapNext, op'.pc = "panic", ~UNCHANGED heapVars
               PROVE  op.pc = "idle" /\ op'.b + 1 \notin DOMAIN live
    OBVIOUS
  <2>1. op \in Calls
    BY DEF HeapInv, HeapTypes
  <2>2. ASSUME NEW size \in Sizes, kmalloc(size) PROVE FALSE
    BY <2>1, <2>2 DEF kmalloc, Idle
  <2>3. ASSUME NEW p \in Owned \cup Refused, kfree(p)
        PROVE  op.pc = "idle" /\ op'.b + 1 \notin DOMAIN live
    <3>1. p \in Int /\ op.pc = "idle"
      BY <2>3, OwnedOrRefused DEF kfree
    <3>2. p # NULL /\ RefusesFree(p - 1) /\ op' = [op EXCEPT !.pc = "panic", !.b = p - 1]
      BY <2>3 DEF kfree, Panic, Idle
    <3>3. op'.b = p - 1
      BY <2>1, <3>2 DEF Calls
    <3> QED BY <3>1, <3>2, <3>3, LiveIsAccepted
  <2>4. ASSUME Running PROVE FALSE
    <3>1. ASSUME ScanBlock PROVE FALSE
      BY <3>1, <2>1, HeadersIntact DEF ScanBlock, HandOut, StepOver, Idle, Calls
    <3>2. ASSUME MergeForward PROVE FALSE
      BY <3>2, <2>1, HeadersIntact DEF MergeForward, Calls
    <3>3. ASSUME WalkToPrevious PROVE FALSE
      BY <3>3, <2>1 DEF WalkToPrevious, Calls
    <3>4. ASSUME MergeBackward PROVE FALSE
      BY <3>4 DEF MergeBackward, Idle
    <3> QED BY <2>4, <3>1, <3>2, <3>3, <3>4 DEF Running
  <2>5. ASSUME NEW p \in DOMAIN live, NEW u \in Units, UserWrite(p, u)
        PROVE  FALSE
    BY <2>5 DEF UserWrite
  <2> QED BY <2>2, <2>3, <2>4, <2>5 DEF HeapNext
<1> QED BY <1>1, HeapInvariant, PTL DEF HeapSpec, PanicDeserved

(* kfree's tests stop every pointer that nobody holds, unless an owner has  *)
(* written over the old header it points behind.                            *)
THEOREM HeapWrongFreeCaught == HeapSpec => []WrongFreeCaught
<1>1. HeapInv => WrongFreeCaught
  <2> SUFFICES ASSUME HeapInv, NEW p \in Pointers \ Owned,
                      p - 1 \notin written, ~RefusesFree(p - 1)
               PROVE  FALSE
    BY DEF WrongFreeCaught
  <2>1. p \in Int
    BY HeapAssumption DEF Pointers, NULL
  <2> QED BY <2>1, AcceptedIsLive DEF Owned
<1> QED BY <1>1, HeapInvariant, PTL

(* Every unit of the arena lies in a block. *)
LEMMA BlockAround ==
  ASSUME HeapInv, NEW u \in Units
  PROVE  \E b \in blocks : b <= u /\ u < NextOf(mem, b)
<1> DEFINE R == OpToRel(<, Nat)
           Gaps == {g \in Nat : u - g \in blocks}
<1>0. u \in Nat /\ u < HEAP_UNITS
  BY HeapAssumption DEF Units
<1>1. IsWellFoundedOn(R, Nat)
  BY NatLessThanWellFounded
<1>2. u \in Gaps
  BY <1>0 DEF HeapInv, Tiling
<1>3. \E g \in Gaps : \A h \in Gaps : ~(<<h, g>> \in R)
  <2>1. Gaps \subseteq Nat /\ Gaps # {}
    BY <1>2
  <2> HIDE DEF R, Gaps
  <2> QED BY <1>1, <2>1, WFMin
<1>4. PICK g \in Gaps : \A h \in Gaps : ~(<<h, g>> \in R)
  BY <1>3
<1>5. ASSUME NEW h \in Gaps PROVE g <= h
  <2>1. g \in Nat /\ h \in Nat
    OBVIOUS
  <2>2. h < g => <<h, g>> \in R
    BY <2>1 DEF OpToRel
  <2> QED
    <3> HIDE DEF R
    <3> QED BY <1>4, <2>1, <2>2
<1>6. u - g \in blocks /\ g \in Nat
  OBVIOUS
<1>7. u < NextOf(mem, u - g)
  <2> DEFINE n == NextOf(mem, u - g)
  <2>1. n \in Nat /\ n > u - g /\ n \in blocks \cup {HEAP_UNITS}
    BY <1>6, BlockFacts DEF HeapInv
  <2>2. ASSUME n <= u PROVE FALSE
    <3>1. n \in blocks
      BY <2>1, <2>2, <1>0, HeapAssumption
    <3>2. u - n \in Nat /\ u - (u - n) = n
      BY <2>1, <2>2, <1>0
    <3>3. u - n \in Gaps
      BY <3>1, <3>2
    <3>4. g <= u - n
      BY <3>3, <1>5
    <3> HIDE DEF n
    <3> QED BY <3>4, <2>1, <1>0, <1>6
  <2>3. u < n
    <3> HIDE DEF n
    <3> QED BY <2>1, <2>2, <1>0
  <2> QED BY <2>3
<1> QED BY <1>0, <1>6, <1>7

(* kmalloc returns NULL only when no run of free units is long enough for   *)
(* the request and its header.                                              *)
THEOREM HeapNullOnlyWhenFull == HeapSpec => NullOnlyWhenFull
<1> DEFINE Full == (op.pc = "scan" /\ op'.pc = "idle" /\ result' = NULL) =>
                     \A u \in 0 .. HEAP_UNITS - 1 - NeedOf(op.size) :
                       (u .. u + NeedOf(op.size)) \cap HeldUnits # {}
<1>1. HeapInv /\ [HeapNext]_heapVars => [Full]_heapVars
  <2> SUFFICES ASSUME HeapInv, HeapNext, op.pc = "scan", op'.pc = "idle",
                      result' = NULL,
                      NEW u \in 0 .. HEAP_UNITS - 1 - NeedOf(op.size)
               PROVE  (u .. u + NeedOf(op.size)) \cap HeldUnits # {}
    OBVIOUS
  <2> DEFINE need == NeedOf(op.size)
  <2>1. ScanBlock
    BY DEF HeapNext, kmalloc, kfree, Running, MergeForward, WalkToPrevious,
           MergeBackward, UserWrite
  <2>2. /\ op \in Calls /\ op.b \in blocks
        /\ \A c \in blocks : c < op.b => ~Fits(mem, c, need)
    BY DEF HeapInv, HeapTypes, ScanSound
  <2>3. need \in Nat
    BY <2>2, NeedRounds DEF Calls
  <2>4. /\ op.b \in Nat /\ mem[op.b].magic
        /\ \A c \in blocks : c <= op.b \/ c >= NextOf(mem, op.b)
    BY <2>2, BlockFacts DEF HeapInv
  <2>5. ~Fits(mem, op.b, need) /\ NextOf(mem, op.b) >= HEAP_UNITS
    <3>1. ~HandOut(op.b)
      BY <2>4 DEF HandOut, Payload, NULL
    <3>2. ~Fits(mem, op.b, need) /\ StepOver(op.b)
      BY <3>1, <2>1, <2>4 DEF ScanBlock
    <3> QED BY <3>2, <2>2 DEF StepOver, Calls
  <2>6. \A c \in blocks : ~Fits(mem, c, need)
    <3> TAKE c \in blocks
    <3>1. c \in Nat /\ c < HEAP_UNITS /\ NextOf(mem, op.b) \in Nat
      BY <2>2, BlockFacts DEF HeapInv
    <3>2. c <= op.b
      BY <3>1, <2>4, <2>5, HeapAssumption
    <3> QED BY <3>1, <3>2, <2>2, <2>4, <2>5
  <2>7. u \in Units /\ u \in Nat /\ u + need < HEAP_UNITS
    BY <2>3, HeapAssumption DEF Units
  <2>8. PICK b \in blocks : b <= u /\ u < NextOf(mem, b)
    BY <2>7, BlockAround
  <2>9. /\ b \in Nat /\ mem[b].size \in Nat
        /\ NextOf(mem, b) = b + 1 + mem[b].size
        /\ NextOf(mem, b) \in blocks \cup {HEAP_UNITS}
    BY BlockFacts DEF HeapInv
  <2>10. ASSUME NEW c \in blocks, ~mem[c].free, NEW v \in Int, c <= v, v < NextOf(mem, c)
         PROVE  v \in HeldUnits
    <3>1. c \in Nat /\ mem[c].size \in Nat /\ NextOf(mem, c) = c + 1 + mem[c].size
      BY BlockFacts DEF HeapInv
    <3>2. c + 1 \in DOMAIN live /\ (c + 1) - 1 = c
      BY <2>10, <3>1, LiveIsBlock DEF HeapInv
    <3>3. v \in (c + 1) - 1 .. (c + 1) - 1 + mem[(c + 1) - 1].size
      BY <2>10, <3>1, <3>2
    <3> QED BY <3>2, <3>3 DEF HeldUnits
  <2>11. CASE ~mem[b].free
    <3>1. u \in HeldUnits
      BY <2>7, <2>8, <2>10, <2>11
    <3> QED BY <3>1, <2>3, <2>7
  <2>12. CASE mem[b].free
    <3> DEFINE n == NextOf(mem, b)
    <3>1. mem[b].size < need
      BY <2>3, <2>6, <2>9, <2>12 DEF Fits
    <3>2. n \in Nat /\ u < n /\ n <= u + need
      BY <3>1, <2>3, <2>7, <2>8, <2>9
    <3>3. n \in blocks
      BY <3>2, <2>7, <2>9, <2>3, HeapAssumption
    <3>4. ~mem[n].free
      BY <3>3, <2>12 DEF HeapInv, NearlyCoalesced
    <3>5. n < NextOf(mem, n)
      BY <3>3, BlockFacts DEF HeapInv
    <3>6. n \in HeldUnits
      <4> HIDE DEF n
      <4> QED BY <3>2, <3>3, <3>4, <3>5, <2>10
    <3> HIDE DEF n
    <3> QED BY <3>2, <3>6, <2>3, <2>7
  <2> QED BY <2>11, <2>12
<1> QED BY <1>1, HeapInvariant, PTL DEF HeapSpec, NullOnlyWhenFull
=============================================================================
