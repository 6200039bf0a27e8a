--------------------------- MODULE ConsoleProofs ---------------------------
(* Proofs about the interrupt path alone, for every set of device lines and *)
(* every state the firmware may leave the controllers in; then about its    *)
(* composition with keyboard, CPU and main loop.  The composition takes     *)
(* only steps of its parts, so what was proved of the parts holds in it;    *)
(* the handshake between the keyboard controller and the interrupt path     *)
(* needs an invariant of its own.                                           *)
EXTENDS Console, KeyboardProofs, NaturalsInduction, WellFoundedInduction

-----------------------------------------------------------------------------
(* The interrupt path. *)

(* The safety part of IrqSpec, which the composed system implements too. *)
IrqSafety == IrqInit /\ [][IrqNext]_irqVars

(* IsrClean, with what the time before pic_init needs: no interrupt is      *)
(* taken then, whatever the firmware left in service.                       *)
IrqInv ==
  /\ IrqTypeOK
  /\ ~setup => cur = NoIrq
  /\ IsrClean

-----------------------------------------------------------------------------
(* A non-empty set of naturals has a least element, and Min returns it. *)
LEMMA LeastNatural ==
  ASSUME NEW S \in SUBSET Nat, S # {}
  PROVE  /\ Min(S) \in S
         /\ \A y \in S : Min(S) <= y
<1> DEFINE R == OpToRel(<, Nat)
<1>1. \E x \in S : \A y \in S : ~(<<y, x>> \in R)
  <2>1. IsWellFoundedOn(R, Nat)
    BY NatLessThanWellFounded
  <2> HIDE DEF R
  <2> QED BY <2>1, WFMin
<1>2. PICK x \in S : \A y \in S : ~(<<y, x>> \in R)
  BY <1>1
<1>3. ASSUME NEW y \in S PROVE x <= y
  <2>1. x \in Nat /\ y \in Nat
    OBVIOUS
  <2>2. y < x => <<y, x>> \in R
    BY <2>1 DEF OpToRel
  <2> HIDE DEF R
  <2> QED BY <1>2, <2>1, <2>2
<1> QED BY <1>3 DEF Min

(* The controllers always have a request of highest priority to offer. *)
LEMMA HighestIsMember ==
  ASSUME NEW S \in SUBSET IrqNumbers, S # {}
  PROVE  Highest(S) \in S
<1> DEFINE Ranks == {Rank(n) : n \in S}
<1>1. Ranks \in SUBSET Nat /\ Ranks # {}
  <2>1. \A n \in IrqNumbers : Rank(n) \in Nat
    BY DEF Rank, Slave, IrqNumbers, CASCADE
  <2> QED BY <2>1
<1>2. Min(Ranks) \in Ranks /\ \A r \in Ranks : Min(Ranks) <= r
  <2> HIDE DEF Ranks
  <2> QED BY <1>1, LeastNatural
<1>3. \E n \in S : \A m \in S : Rank(n) <= Rank(m)
  BY <1>2
<1> QED BY <1>3 DEF Highest

(* The EOI for the line in service clears both chips, spurious interrupts   *)
(* included, whose own bit is not set.                                      *)
LEMMA EoiClears ==
  ASSUME NEW p \in Pics, NEW n \in IrqNumbers, p.isr \subseteq {n, MasterLine(n)}
  PROVE  /\ pic_send_eoi(p, n) = [p EXCEPT !.isr = {}]
         /\ pic_send_eoi(p, n) \in Pics
<1>1. ASSUME NEW q \in Pics, NEW S \in SUBSET Nat, NEW m \in Nat,
             q.isr \cap S \subseteq {m}
      PROVE  /\ EndOfInterrupt(q, S) = [q EXCEPT !.isr = @ \ S]
             /\ EndOfInterrupt(q, S) \in Pics
  <2>1. CASE q.isr \cap S = {}
    <3>1. EndOfInterrupt(q, S) = q
      BY <2>1 DEF EndOfInterrupt
    <3>2. q.isr \ S = q.isr
      BY <2>1
    <3> QED BY <3>1, <3>2 DEF Pics
  <2>2. CASE q.isr \cap S # {}
    <3>1. q.isr \cap S = {m}
      BY <1>1, <2>2
    <3>2. Min({m}) = m
      BY LeastNatural
    <3>3. EndOfInterrupt(q, S) = [q EXCEPT !.isr = @ \ {m}]
      BY <2>2, <3>1, <3>2 DEF EndOfInterrupt
    <3>4. q.isr \ {m} = q.isr \ S
      BY <3>1
    <3> QED BY <3>3, <3>4 DEF Pics
  <2> QED BY <2>1, <2>2
<1>2. Master \in SUBSET Nat /\ Slave \in SUBSET Nat
  BY DEF Master, Slave
<1>3. ~(n >= 16) /\ n \in Nat
  BY DEF IrqNumbers
<1>4. CASE n >= 8
  <2>1. MasterLine(n) = 2 /\ n \in Slave /\ n \notin Master
    BY <1>4 DEF MasterLine, Slave, Master, CASCADE, IrqNumbers
  <2>2. p.isr \cap Slave \subseteq {n}
    BY <2>1 DEF Slave
  <2> DEFINE q == EndOfInterrupt(p, Slave)
  <2>3. q = [p EXCEPT !.isr = @ \ Slave] /\ q \in Pics
    BY <1>1, <1>2, <1>3, <2>2
  <2>4. q.isr = p.isr \ Slave
    <3> HIDE DEF q
    <3> QED BY <2>3 DEF Pics
  <2>5. q.isr \cap Master \subseteq {2} /\ q.isr \ Master = {}
    <3> HIDE DEF q
    <3> QED BY <2>1, <2>4 DEF Master, Slave
  <2>6. /\ EndOfInterrupt(q, Master) = [q EXCEPT !.isr = {}]
        /\ EndOfInterrupt(q, Master) \in Pics
    <3> HIDE DEF q
    <3> QED BY <1>1, <1>2, <2>3, <2>5
  <2>7. [q EXCEPT !.isr = {}] = [p EXCEPT !.isr = {}]
    <3> HIDE DEF q
    <3> QED BY <2>3 DEF Pics
  <2> QED BY <1>3, <1>4, <2>6, <2>7 DEF pic_send_eoi
<1>5. CASE ~(n >= 8)
  <2>1. MasterLine(n) = n
    BY <1>3, <1>5 DEF MasterLine, Slave
  <2>2. p.isr \cap Master \subseteq {n} /\ p.isr \ Master = {}
    BY <1>3, <1>5, <2>1 DEF Master
  <2>3. /\ EndOfInterrupt(p, Master) = [p EXCEPT !.isr = {}]
        /\ EndOfInterrupt(p, Master) \in Pics
    BY <1>1, <1>2, <1>3, <2>2
  <2> QED BY <1>3, <1>5, <2>3 DEF pic_send_eoi
<1> QED BY <1>4, <1>5

-----------------------------------------------------------------------------
(* The actions keep the invariant. *)

(* Masking and unmasking change masks only. *)
LEMMA MaskMeaning ==
  ASSUME NEW p \in Pics, NEW irq \in ApiIrqs
  PROVE  /\ pic_mask(p, irq) \in Pics /\ pic_unmask(p, irq) \in Pics
         /\ pic_mask(p, irq).isr = p.isr /\ pic_unmask(p, irq).isr = p.isr
         /\ pic_mask(p, irq).irr = p.irr /\ pic_unmask(p, irq).irr = p.irr
<1>1. ASSUME NEW q \in Pics, NEW n \in Nat, NEW m \in BOOLEAN
      PROVE  /\ pic_update_mask(q, n, m) \in Pics
             /\ pic_update_mask(q, n, m).isr = q.isr
             /\ pic_update_mask(q, n, m).irr = q.irr
  BY DEF pic_update_mask, Pics, IrqNumbers
<1>2. irq \in Nat /\ CASCADE \in Nat
  BY LinesAssumption DEF CASCADE
<1>3. /\ pic_mask(p, irq) \in Pics
      /\ pic_mask(p, irq).isr = p.isr /\ pic_mask(p, irq).irr = p.irr
  BY <1>1, <1>2 DEF pic_mask
<1> DEFINE r == IF irq >= 8 /\ irq < 16 THEN pic_update_mask(p, CASCADE, FALSE)
                ELSE p
<1>4. r \in Pics /\ r.isr = p.isr /\ r.irr = p.irr
  BY <1>1, <1>2
<1>5. pic_unmask(p, irq) = pic_update_mask(r, irq, FALSE)
  BY DEF pic_unmask
<1>6. /\ pic_unmask(p, irq) \in Pics
      /\ pic_unmask(p, irq).isr = p.isr /\ pic_unmask(p, irq).irr = p.irr
  <2> HIDE DEF r
  <2>1. /\ pic_update_mask(r, irq, FALSE) \in Pics
        /\ pic_update_mask(r, irq, FALSE).isr = r.isr
        /\ pic_update_mask(r, irq, FALSE).irr = r.irr
    BY <1>1, <1>2, <1>4
  <2> QED BY <1>4, <1>5, <2>1
<1> QED BY <1>3, <1>6

(* Acknowledging puts the taken line, and the cascade for a slave line, in  *)
(* service.                                                                 *)
LEMMA AcceptMeaning ==
  ASSUME IrqTypeOK, Accept
  PROVE  /\ cur' \in pic.irr /\ cur' \in IrqNumbers
         /\ pic' \in Pics
         /\ pic'.irr = pic.irr \ {cur'}
         /\ pic'.isr = pic.isr \cup {cur', MasterLine(cur')}
<1>1. pic \in Pics
  BY DEF IrqTypeOK
<1>2. Deliverable(pic) \in SUBSET IrqNumbers /\ Deliverable(pic) \subseteq pic.irr
  BY <1>1 DEF Deliverable, Pics
<1>3. cur' \in pic.irr /\ cur' \in IrqNumbers
  BY <1>2, HighestIsMember DEF Accept
<1>4. MasterLine(cur') \in IrqNumbers
  BY <1>3 DEF MasterLine, CASCADE, IrqNumbers
<1>5. pic' = [pic EXCEPT !.irr = pic.irr \ {cur'},
                         !.isr = pic.isr \cup {cur', MasterLine(cur')}]
  BY DEF Accept, Acknowledge
<1>6. /\ pic' \in Pics
      /\ pic'.irr = pic.irr \ {cur'}
      /\ pic'.isr = pic.isr \cup {cur', MasterLine(cur')}
  BY <1>1, <1>3, <1>4, <1>5 DEF Pics
<1> QED BY <1>3, <1>6

(* Initially the firmware's state stands and no interrupt is being served. *)
LEMMA IrqInitInv == IrqInit => IrqInv
BY BiosAssumption DEF IrqInit, IrqInv, IrqTypeOK, IsrClean

(* Every step keeps the invariant. *)
LEMMA IrqNextInv == IrqInv /\ [IrqNext]_irqVars => IrqInv'
<1> SUFFICES ASSUME IrqInv, [IrqNext]_irqVars PROVE IrqInv'
  OBVIOUS
<1>0. pic \in Pics /\ IrqTypeOK
  BY DEF IrqInv, IrqTypeOK
<1>1. CASE PicInit
  <2>1. pic' = [irr |-> {}, isr |-> {}, imr |-> IrqNumbers]
    BY <1>1 DEF PicInit, pic_init
  <2>2. pic' \in Pics /\ pic'.isr = {}
    BY <2>1 DEF Pics
  <2> QED BY <1>1, <2>2 DEF PicInit, IrqInv, IrqTypeOK, IsrClean
<1>2. ASSUME NEW irq \in ApiIrqs, Mask(irq) \/ Unmask(irq)
      PROVE  IrqInv'
  <2>1. pic' \in Pics /\ pic'.isr = pic.isr
    BY <1>0, <1>2, MaskMeaning DEF Mask, Unmask
  <2>2. UNCHANGED <<irq_handlers, cur, setup>>
    BY <1>2 DEF Mask, Unmask
  <2> QED BY <2>1, <2>2 DEF IrqInv, IrqTypeOK, IsrClean, MasterLine
<1>3. ASSUME NEW irq \in ApiIrqs, irq_register(irq)
      PROVE  IrqInv'
  BY <1>3 DEF irq_register, IrqInv, IrqTypeOK, IsrClean, MasterLine
<1>4. ASSUME NEW n \in Lines, Raise(n)
      PROVE  IrqInv'
  <2>1. n \in IrqNumbers
    BY LinesAssumption
  <2>2. pic' \in Pics /\ pic'.isr = pic.isr
    BY <1>0, <1>4, <2>1 DEF Raise, Pics
  <2> QED BY <1>4, <2>2 DEF Raise, IrqInv, IrqTypeOK, IsrClean, MasterLine
<1>5. CASE Accept
  <2>1. pic.isr = {} /\ setup /\ setup' = setup /\ irq_handlers' = irq_handlers
    BY <1>5 DEF Accept, IrqInv, IsrClean
  <2>2. /\ cur' \in IrqNumbers /\ pic' \in Pics
        /\ pic'.isr = {cur', MasterLine(cur')}
    BY <1>0, <1>5, <2>1, AcceptMeaning
  <2>3. cur' # NoIrq
    BY <2>2 DEF IrqNumbers, NoIrq
  <2>4. IsrClean'
    BY <2>1, <2>2, <2>3 DEF IsrClean, MasterLine
  <2> QED BY <2>1, <2>2, <2>4 DEF IrqInv, IrqTypeOK
<1>6. CASE SpuriousMaster
  BY <1>6 DEF SpuriousMaster, IrqInv, IrqTypeOK, IsrClean, IrqNumbers, NoIrq
<1>7. CASE SpuriousSlave
  <2>1. pic.isr = {} /\ setup /\ setup' = setup /\ irq_handlers' = irq_handlers
    BY <1>7 DEF SpuriousSlave, IrqInv, IsrClean
  <2>2. pic' \in Pics /\ pic'.isr = {CASCADE} /\ cur' = 15
    BY <1>0, <1>7, <2>1 DEF SpuriousSlave, Pics, CASCADE, IrqNumbers
  <2>3. MasterLine(15) = CASCADE
    BY DEF MasterLine, Slave
  <2> QED BY <2>1, <2>2, <2>3 DEF IrqInv, IrqTypeOK, IsrClean, IrqNumbers, NoIrq, MasterLine
<1>8. CASE irq_dispatch
  <2>1. /\ cur # NoIrq /\ cur \in IrqNumbers /\ setup
        /\ pic.isr \subseteq {cur, MasterLine(cur)}
    BY <1>8 DEF irq_dispatch, IrqInv, IrqTypeOK, IsrClean
  <2>2. pic' \in Pics /\ pic' = [pic EXCEPT !.isr = {}]
    BY <1>0, <1>8, <2>1, EoiClears DEF irq_dispatch
  <2>3. pic'.isr = {}
    BY <1>0, <2>2 DEF Pics
  <2> QED BY <1>8, <2>2, <2>3 DEF irq_dispatch, IrqInv, IrqTypeOK, IsrClean
<1>9. CASE UNCHANGED irqVars
  BY <1>9 DEF irqVars, IrqInv, IrqTypeOK, IsrClean, MasterLine
<1> QED BY <1>1, <1>2, <1>3, <1>4, <1>5, <1>6, <1>7, <1>8, <1>9 DEF IrqNext

-----------------------------------------------------------------------------
(* The invariant holds throughout, with or without fairness. *)
THEOREM IrqInvariant == IrqSafety => []IrqInv
BY IrqInitInv, IrqNextInv, PTL DEF IrqSafety

(* Types. *)
THEOREM IrqTypes == IrqSpec => []IrqTypeOK
<1>1. IrqSpec => IrqSafety
  BY PTL DEF IrqSpec, IrqSafety
<1>2. IrqInv => IrqTypeOK
  BY DEF IrqInv
<1> QED BY <1>1, <1>2, IrqInvariant, PTL

(* Between interrupts nothing is left in service on either chip, whatever   *)
(* was raised, masked or spurious.                                          *)
THEOREM IrqIsrClean == IrqSpec => []IsrClean
<1>1. IrqSpec => IrqSafety
  BY PTL DEF IrqSpec, IrqSafety
<1>2. IrqInv => IsrClean
  BY DEF IrqInv
<1> QED BY <1>1, <1>2, IrqInvariant, PTL

-----------------------------------------------------------------------------
(* The inductive invariant of the handshake. *)

CpuTypes ==
  /\ obf \in {<<>>} \cup {<<b>> : b \in Bytes}
  /\ pc \in {"pic_init", "pic_unmask", "keyboard_init", "get", "put", "sti",
             "hlt", "halted"}
  /\ hpc \in {"none", "dispatch", "eoi", "iret"}
  /\ IF_ \in BOOLEAN /\ shadow \in BOOLEAN

Booting == pc \in {"pic_init", "pic_unmask", "keyboard_init"}

(* No interrupt is let in before the handler of line 1 is registered. *)
ReadyBeforeSti ==
  /\ Booting => ~IF_ /\ hpc = "none"
  /\ ~Booting => KEYBOARD \in irq_handlers

(* While the handler for one byte has not read the port, no second request  *)
(* of line 1 is pending.                                                    *)
OneRequest ==
  setup => ~(KEYBOARD \in pic.irr /\ cur = KEYBOARD /\ hpc = "dispatch")

Handshake == CpuTypes /\ ReadyBeforeSti /\ OneRequest /\ ByteHasInterrupt

-----------------------------------------------------------------------------
(* The composition implements its parts. *)

(* A step of the system is a step of the keyboard driver or leaves it be. *)
LEMMA StepIsKeyboardStep ==
  ASSUME CpuTypes, [ConsoleNext]_consoleVars
  PROVE  [KbNext]_kbVars
<1>1. CASE RunHandler
  <2>1. PICK sc \in IF obf = <<>> THEN Bytes ELSE {obf[1]} : Handler(sc)
    BY <1>1 DEF RunHandler
  <2>2. sc \in Bytes
    BY <2>1 DEF CpuTypes
  <2> QED BY <2>1, <2>2, BytesAssumption DEF KbNext
<1>2. CASE LoopGet
  BY <1>2 DEF LoopGet, KbNext
<1>3. CASE \/ Boot \/ vga_putchar \/ Sti \/ Hlt \/ Unhandled \/ SendEoi \/ Iret
           \/ TakeIrq \/ TakeSpurious \/ KeyByte
  BY <1>3 DEF Boot, BootPic, BootUnmask, keyboard_init, vga_putchar, Sti, Hlt,
              Unhandled, SendEoi, Iret, TakeIrq, TakeSpurious, EnterGate, KeyByte
<1>4. CASE UNCHANGED consoleVars
  BY <1>4 DEF consoleVars
<1> QED BY <1>1, <1>2, <1>3, <1>4 DEF ConsoleNext, MainLoop, Interrupt

(* A step of the system is a step of the interrupt path or leaves it be. *)
LEMMA StepIsIrqStep ==
  ASSUME [ConsoleNext]_consoleVars
  PROVE  [IrqNext]_irqVars
<1>1. CASE Boot
  BY <1>1, KeyboardAssumption DEF Boot, BootPic, BootUnmask, keyboard_init, IrqNext
<1>2. CASE TakeIrq \/ TakeSpurious \/ SendEoi
  BY <1>2 DEF TakeIrq, TakeSpurious, SendEoi, IrqNext
<1>3. CASE KeyByte
  BY <1>3, KeyboardAssumption DEF KeyByte, IrqNext
<1>4. CASE MainLoop \/ RunHandler \/ Unhandled \/ Iret
  BY <1>4 DEF MainLoop, LoopGet, vga_putchar, Sti, Hlt, RunHandler, Unhandled, Iret
<1>5. CASE UNCHANGED consoleVars
  BY <1>5 DEF consoleVars
<1> QED BY <1>1, <1>2, <1>3, <1>4, <1>5 DEF ConsoleNext, Interrupt

-----------------------------------------------------------------------------
(* The handshake is kept. *)

(* Before boot the port is empty and no request is pending. *)
LEMMA HandshakeInit == ConsoleInit => Handshake
BY DEF ConsoleInit, IrqInit, Handshake, CpuTypes, ReadyBeforeSti, Booting,
       OneRequest, ByteHasInterrupt

(* Steps that leave the controllers, the port and the interrupt path alone. *)
LEMMA MainFlowKeeps ==
  ASSUME Handshake, MainLoop
  PROVE  Handshake'
<1>1. UNCHANGED <<irqVars, obf, hpc>> /\ hpc = "none"
  BY DEF MainLoop, LoopGet, vga_putchar, Sti, Hlt, At
<1>2. /\ pc \in {"get", "put", "sti", "hlt"}
      /\ pc' \in {"get", "put", "sti", "hlt", "halted"}
  BY DEF MainLoop, LoopGet, vga_putchar, Sti, Hlt, At
<1>3. IF_' \in BOOLEAN /\ shadow' \in BOOLEAN
  BY DEF MainLoop, LoopGet, vga_putchar, Sti, Hlt, Handshake, CpuTypes
<1>4. CpuTypes'
  BY <1>1, <1>2, <1>3 DEF Handshake, CpuTypes
<1>5. ReadyBeforeSti'
  BY <1>1, <1>2 DEF Handshake, ReadyBeforeSti, Booting, irqVars
<1>6. OneRequest' /\ ByteHasInterrupt'
  BY <1>1 DEF Handshake, OneRequest, ByteHasInterrupt, irqVars
<1> QED BY <1>4, <1>5, <1>6 DEF Handshake

(* kmain's boot steps, in their order. *)
LEMMA BootKeeps ==
  ASSUME Handshake, IrqInv, Boot
  PROVE  Handshake'
<1>0. pic \in Pics
  BY DEF IrqInv, IrqTypeOK
<1>1. CASE BootPic
  <2>1. /\ ~setup /\ setup' /\ cur' = NoIrq /\ pc' = "pic_unmask" /\ ~IF_ /\ hpc = "none"
        /\ UNCHANGED <<obf, IF_, shadow, hpc, irq_handlers>>
    BY <1>1 DEF BootPic, PicInit, At, Handshake, ReadyBeforeSti, Booting, IrqInv
  <2>2. pic'.irr = {}
    BY <1>1 DEF BootPic, PicInit, pic_init
  <2>3. obf = <<>>
    BY <2>1 DEF Handshake, ByteHasInterrupt
  <2> QED BY <2>1, <2>2, <2>3 DEF Handshake, CpuTypes, ReadyBeforeSti, Booting,
                                  OneRequest, ByteHasInterrupt, NoIrq, KEYBOARD
<1>2. CASE BootUnmask
  <2>1. /\ pc' = "keyboard_init" /\ pc = "pic_unmask" /\ hpc = "none"
        /\ UNCHANGED <<obf, IF_, shadow, hpc, irq_handlers, cur, setup>>
        /\ pic' = pic_unmask(pic, KEYBOARD)
    BY <1>2 DEF BootUnmask, Unmask, At
  <2>2. pic'.irr = pic.irr
    BY <1>0, <2>1, MaskMeaning, KeyboardAssumption
  <2> QED BY <2>1, <2>2 DEF Handshake, CpuTypes, ReadyBeforeSti, Booting,
                            OneRequest, ByteHasInterrupt
<1>3. CASE keyboard_init
  <2>1. /\ pc' = "get" /\ pc = "keyboard_init" /\ hpc = "none"
        /\ UNCHANGED <<obf, IF_, shadow, hpc, pic, cur, setup>>
        /\ irq_handlers' = irq_handlers \cup ({KEYBOARD} \cap IrqNumbers)
    BY <1>3 DEF keyboard_init, irq_register, At
  <2>2. KEYBOARD \in irq_handlers'
    BY <2>1 DEF KEYBOARD, IrqNumbers
  <2> QED BY <2>1, <2>2 DEF Handshake, CpuTypes, ReadyBeforeSti, Booting,
                            OneRequest, ByteHasInterrupt
<1> QED BY <1>1, <1>2, <1>3 DEF Boot

(* The gate: taking the keyboard's request moves it from the controller to  *)
(* the handler; any other interrupt leaves it pending.                      *)
LEMMA EnterKeeps ==
  ASSUME Handshake, IrqInv, TakeIrq \/ TakeSpurious
  PROVE  Handshake'
<1>1. /\ IF_ /\ hpc = "none" /\ IF_' = FALSE /\ hpc' = "dispatch"
      /\ UNCHANGED <<obf, shadow, irq_handlers, setup>> /\ setup
      /\ pc' = IF pc = "halted" THEN "get" ELSE pc
  BY DEF TakeIrq, TakeSpurious, EnterGate, Accept, SpuriousMaster
<1>2. ~Booting /\ ~Booting'
  BY <1>1 DEF Handshake, ReadyBeforeSti, Booting
<1>3. CpuTypes'
  BY <1>1 DEF Handshake, CpuTypes
<1>4. ReadyBeforeSti'
  BY <1>1, <1>2 DEF Handshake, ReadyBeforeSti
<1>5. \/ cur' \in pic.irr /\ pic'.irr = pic.irr \ {cur'}
      \/ cur' = 7 /\ pic' = pic
  BY AcceptMeaning DEF IrqInv, TakeIrq, TakeSpurious, SpuriousMaster
<1>6. OneRequest' /\ ByteHasInterrupt'
  BY <1>1, <1>5 DEF Handshake, OneRequest, ByteHasInterrupt, KEYBOARD
<1> QED BY <1>3, <1>4, <1>6 DEF Handshake

(* The interrupt path from the dispatcher to the return. *)
LEMMA InterruptKeeps ==
  ASSUME Handshake, IrqInv, Interrupt
  PROVE  Handshake'
<1>1. CASE RunHandler
  <2>1. /\ hpc = "dispatch" /\ cur = KEYBOARD /\ obf' = <<>> /\ hpc' = "eoi"
        /\ UNCHANGED <<irqVars, pc, IF_, shadow>>
    BY <1>1 DEF RunHandler
  <2> QED BY <2>1 DEF Handshake, CpuTypes, ReadyBeforeSti, Booting,
                      OneRequest, ByteHasInterrupt, irqVars
<1>2. CASE Unhandled
  <2>1. /\ hpc = "dispatch" /\ cur \notin irq_handlers /\ hpc' = "eoi"
        /\ UNCHANGED <<irqVars, obf, pc, IF_, shadow>>
    BY <1>2 DEF Unhandled
  <2>2. cur # KEYBOARD
    BY <2>1 DEF Handshake, ReadyBeforeSti
  <2> QED BY <2>1, <2>2 DEF Handshake, CpuTypes, ReadyBeforeSti, Booting,
                            OneRequest, ByteHasInterrupt, irqVars
<1>3. CASE SendEoi
  <2>1. /\ hpc = "eoi" /\ hpc' = "iret" /\ cur # NoIrq
        /\ pic' = pic_send_eoi(pic, cur)
        /\ UNCHANGED <<obf, pc, IF_, shadow, irq_handlers, setup>>
    BY <1>3 DEF SendEoi, irq_dispatch
  <2>2. pic \in Pics /\ cur \in IrqNumbers /\ pic.isr \subseteq {cur, MasterLine(cur)}
    BY <2>1 DEF IrqInv, IrqTypeOK, IsrClean
  <2>3. pic' = [pic EXCEPT !.isr = {}]
    BY <2>1, <2>2, EoiClears
  <2>4. pic'.irr = pic.irr
    BY <2>2, <2>3 DEF Pics
  <2> QED BY <2>1, <2>4 DEF Handshake, CpuTypes, ReadyBeforeSti, Booting,
                            OneRequest, ByteHasInterrupt
<1>4. CASE Iret
  <2>1. /\ hpc = "iret" /\ hpc' = "none" /\ IF_' = TRUE
        /\ UNCHANGED <<irqVars, obf, pc, shadow>>
    BY <1>4 DEF Iret
  <2> QED BY <2>1 DEF Handshake, CpuTypes, ReadyBeforeSti, Booting,
                      OneRequest, ByteHasInterrupt, irqVars
<1> QED BY <1>1, <1>2, <1>3, <1>4 DEF Interrupt

(* The next byte arrives only into an empty buffer, so nothing of line 1 is *)
(* pending or about to be read.                                             *)
LEMMA KeyByteKeeps ==
  ASSUME Handshake, IrqInv, KeyByte
  PROVE  Handshake'
<1>1. /\ setup /\ obf = <<>> /\ UNCHANGED <<irq_handlers, cur, setup, cpuVars>>
      /\ \E sc \in Bytes : obf' = <<sc>>
      /\ pic' = [pic EXCEPT !.irr = @ \cup {KEYBOARD}]
  BY DEF KeyByte, Raise
<1>2. KEYBOARD \in pic'.irr
  BY <1>1 DEF IrqInv, IrqTypeOK, Pics
<1>3. obf' # <<>> /\ CpuTypes'
  BY <1>1 DEF Handshake, CpuTypes, cpuVars
<1>4. ~(cur = KEYBOARD /\ hpc = "dispatch")
  BY <1>1 DEF Handshake, ByteHasInterrupt
<1> QED BY <1>1, <1>2, <1>3, <1>4 DEF Handshake, ReadyBeforeSti, Booting,
                                      OneRequest, ByteHasInterrupt, cpuVars

(* Every step keeps the handshake. *)
LEMMA HandshakeNext ==
  Handshake /\ IrqInv /\ [ConsoleNext]_consoleVars => Handshake'
<1> SUFFICES ASSUME Handshake, IrqInv, [ConsoleNext]_consoleVars
             PROVE  Handshake'
  OBVIOUS
<1>1. CASE UNCHANGED consoleVars
  BY <1>1 DEF consoleVars, irqVars, Handshake, CpuTypes, ReadyBeforeSti, Booting,
              OneRequest, ByteHasInterrupt
<1> QED BY <1>1, MainFlowKeeps, BootKeeps, EnterKeeps, InterruptKeeps,
           KeyByteKeeps DEF ConsoleNext

-----------------------------------------------------------------------------
(* What holds of the whole path from key to screen. *)

(* The composed system implements the interrupt path. *)
THEOREM ConsoleImplementsIrq == ConsoleSpec => IrqSafety
<1>1. ConsoleInit => IrqInit
  BY DEF ConsoleInit
<1>2. [ConsoleNext]_consoleVars => [IrqNext]_irqVars
  BY StepIsIrqStep
<1> QED BY <1>1, <1>2, PTL DEF ConsoleSpec, IrqSafety

(* Port, controllers and interrupt path agree in every reachable state. *)
THEOREM ConsoleHandshake == ConsoleSpec => [](Handshake /\ IrqInv)
<1>1. ConsoleInit => Handshake
  BY HandshakeInit
<1>2. Handshake /\ IrqInv /\ [ConsoleNext]_consoleVars => Handshake'
  BY HandshakeNext
<1> QED BY <1>1, <1>2, ConsoleImplementsIrq, IrqInvariant, PTL DEF ConsoleSpec

(* A byte waits in the keyboard controller exactly while an interrupt that  *)
(* will fetch it is pending or about to read it: no byte is stranded and no *)
(* empty port is read.                                                      *)
THEOREM ConsoleByteHasInterrupt == ConsoleSpec => []ByteHasInterrupt
<1>1. Handshake => ByteHasInterrupt
  BY DEF Handshake
<1> QED BY <1>1, ConsoleHandshake, PTL

(* Interrupts of the composed system leave nothing in service behind. *)
THEOREM ConsoleIsrClean == ConsoleSpec => []IsrClean
<1>1. IrqInv => IsrClean
  BY DEF IrqInv
<1> QED BY <1>1, ConsoleHandshake, PTL

(* The composed system implements the keyboard driver, so the ring buffer   *)
(* between handler and main loop is the bounded queue CharFifo and kb_get's *)
(* check stays true under interrupts at any instruction.                    *)
THEOREM ConsoleImplementsKeyboard == ConsoleSpec => KbSpec
<1>1. ConsoleInit => KbInit
  BY DEF ConsoleInit
<1>2. Handshake /\ [ConsoleNext]_consoleVars => [KbNext]_kbVars
  BY StepIsKeyboardStep DEF Handshake
<1> QED BY <1>1, <1>2, ConsoleHandshake, PTL DEF ConsoleSpec, KbSpec

(* What the main loop gets from the ring is what the handler put there, in  *)
(* order, in the composed system.                                           *)
THEOREM ConsoleFifo == ConsoleSpec => ImplementsFifo /\ []GetSafe
BY ConsoleImplementsKeyboard, KeyboardRefinesFifo, KeyboardGetSafe, PTL

(* Types of the composition. *)
THEOREM ConsoleTypes == ConsoleSpec => []ConsoleTypeOK
<1>1. Handshake /\ IrqInv /\ KbTypeOK => ConsoleTypeOK
  BY DEF Handshake, CpuTypes, IrqInv, ConsoleTypeOK
<1> QED BY <1>1, ConsoleHandshake, ConsoleImplementsKeyboard, KeyboardTypes, PTL
=============================================================================
