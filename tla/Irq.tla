--------------------------------- MODULE Irq ---------------------------------
(* Interrupt requests from the device lines to irq_dispatch: the two        *)
(* cascaded 8259A controllers (external), the driver src/pic.c and the      *)
(* dispatcher src/irq.c.  Gates 32..47 are interrupt gates, so the CPU      *)
(* takes no second interrupt until the first has returned.                  *)
EXTENDS Integers, FiniteSets, FiniteSetsExt

CONSTANTS Lines,        \* lines with a device that may raise them
          ApiIrqs,      \* numbers callers pass to mask, unmask, register
          BiosPics      \* states in which the firmware may leave the PICs

IrqNumbers == 0 .. 15
Master == 0 .. 7
Slave == 8 .. 15
CASCADE == 2            \* master line the slave hangs on

(* Nobody masks the cascade line itself. *)
ASSUME LinesAssumption == /\ Lines \subseteq IrqNumbers \ {CASCADE}
                          /\ ApiIrqs \subseteq Nat \ {CASCADE}

Pics == [irr : SUBSET IrqNumbers, isr : SUBSET IrqNumbers,
         imr : SUBSET IrqNumbers]

ASSUME BiosAssumption == BiosPics \subseteq Pics

NoIrq == -1

VARIABLES pic,           \* [irr, isr, imr]: requests, in service, masked
          irq_handlers,  \* lines with a registered handler
          cur,           \* the line the CPU is servicing, NoIrq for none
          setup          \* pic_init has run

irqVars == <<pic, irq_handlers, cur, setup>>

-----------------------------------------------------------------------------
(* The controllers. *)

(* The slave's lines have the priority of line 2. *)
Rank(n) == IF n \in Slave THEN CASCADE * 8 + (n - 8)
           ELSE IF n < 0 THEN 8 * 8 ELSE n * 8
MasterLine(n) == IF n \in Slave THEN CASCADE ELSE n

Open(p, n) == n \notin p.imr /\ MasterLine(n) \notin p.imr

(* Requests that can interrupt: not masked, nothing in service at the same  *)
(* or a higher priority on the chips they pass through.                     *)
Deliverable(p) ==
  {n \in p.irr : /\ Open(p, n)
                 /\ \A m \in p.isr \cap Master : MasterLine(n) < m
                 /\ n \in Slave => \A m \in p.isr \cap Slave : n < m}

Highest(S) == CHOOSE n \in S : \A m \in S : Rank(n) <= Rank(m)

(* Interrupt acknowledge for line n. *)
Acknowledge(p, n) ==
  [p EXCEPT !.irr = @ \ {n}, !.isr = @ \cup {n, MasterLine(n)}]

(* Non-specific end of interrupt, to one chip. *)
EndOfInterrupt(p, chip) ==
  IF p.isr \cap chip = {} THEN p
  ELSE [p EXCEPT !.isr = @ \ {Min(p.isr \cap chip)}]

-----------------------------------------------------------------------------
(* pic.c *)

(* The ICW sequence resets both chips; then everything is masked. *)
pic_init(p) == [irr |-> {}, isr |-> {}, imr |-> IrqNumbers]

(* Numbers beyond 15 are ignored. *)
pic_update_mask(p, irq, masked) ==
  IF irq >= 16 THEN p
  ELSE [p EXCEPT !.imr = IF masked THEN @ \cup {irq} ELSE @ \ {irq}]

pic_mask(p, irq) == pic_update_mask(p, irq, TRUE)

(* Mutant: the cascade line is not opened. *)
pic_unmask_NoCascade(p, irq) == pic_update_mask(p, irq, FALSE)

(* A slave line also needs the cascade line. *)
pic_unmask(p, irq) ==
  pic_update_mask(IF irq >= 8 /\ irq < 16
                  THEN pic_update_mask(p, CASCADE, FALSE) ELSE p,
                  irq, FALSE)

(* Mutant: a slave interrupt is acknowledged on the slave only. *)
pic_send_eoi_OneChip(p, irq) ==
  IF irq >= 16 THEN p
  ELSE EndOfInterrupt(p, IF irq >= 8 THEN Slave ELSE Master)

pic_send_eoi(p, irq) ==
  IF irq >= 16 THEN p
  ELSE EndOfInterrupt(IF irq >= 8 THEN EndOfInterrupt(p, Slave) ELSE p, Master)

-----------------------------------------------------------------------------
IrqInit ==
  /\ pic \in BiosPics
  /\ irq_handlers = {}
  /\ cur = NoIrq
  /\ setup = FALSE

PicInit ==
  /\ ~setup
  /\ pic' = pic_init(pic)
  /\ setup' = TRUE
  /\ UNCHANGED <<irq_handlers, cur>>

(* Calls from kernel code outside interrupt handlers. *)
Mask(irq) ==
  /\ setup /\ cur = NoIrq
  /\ pic' = pic_mask(pic, irq)
  /\ UNCHANGED <<irq_handlers, cur, setup>>

Unmask(irq) ==
  /\ setup /\ cur = NoIrq
  /\ pic' = pic_unmask(pic, irq)
  /\ UNCHANGED <<irq_handlers, cur, setup>>

irq_register(irq) ==
  /\ setup /\ cur = NoIrq
  /\ irq_handlers' = irq_handlers \cup ({irq} \cap IrqNumbers)
  /\ UNCHANGED <<pic, cur, setup>>

(* A device pulls its line up: the edge is latched, masked or not. *)
Raise(n) ==
  /\ pic' = [pic EXCEPT !.irr = @ \cup {n}]
  /\ UNCHANGED <<irq_handlers, cur, setup>>

(* The CPU takes the request of highest priority. *)
Accept ==
  /\ setup /\ cur = NoIrq
  /\ Deliverable(pic) # {}
  /\ cur' = Highest(Deliverable(pic))
  /\ pic' = Acknowledge(pic, cur')
  /\ UNCHANGED <<irq_handlers, setup>>

(* A request vanished before it was acknowledged: the controller answers    *)
(* with its line 7, no bit in service; on the slave, the master has line 2  *)
(* in service.                                                              *)
SpuriousMaster ==
  /\ setup /\ cur = NoIrq /\ Deliverable(pic) = {}
  /\ cur' = 7
  /\ UNCHANGED <<pic, irq_handlers, setup>>

SpuriousSlave ==
  /\ setup /\ cur = NoIrq /\ Deliverable(pic) = {}
  /\ CASCADE \notin pic.imr
  /\ cur' = 15
  /\ pic' = [pic EXCEPT !.isr = @ \cup {CASCADE}]
  /\ UNCHANGED <<irq_handlers, setup>>

(* irq_dispatch: call the handler or, when there is none, print a line;     *)
(* send the EOI either way; return from the interrupt.                      *)
irq_dispatch ==
  /\ cur # NoIrq
  /\ pic' = pic_send_eoi(pic, cur)
  /\ cur' = NoIrq
  /\ UNCHANGED <<irq_handlers, setup>>

IrqNext ==
  \/ PicInit
  \/ \E irq \in ApiIrqs : Mask(irq) \/ Unmask(irq) \/ irq_register(irq)
  \/ \E n \in Lines : Raise(n)
  \/ Accept
  \/ SpuriousMaster
  \/ SpuriousSlave
  \/ irq_dispatch

(* The idle loop keeps interrupts enabled, and handlers return. *)
IrqSpec == /\ IrqInit /\ [][IrqNext]_irqVars
           /\ WF_irqVars(PicInit) /\ WF_irqVars(Accept) /\ WF_irqVars(irq_dispatch)

-----------------------------------------------------------------------------
(* Types. *)
IrqTypeOK ==
  /\ pic \in Pics
  /\ irq_handlers \subseteq IrqNumbers
  /\ cur \in IrqNumbers \cup {NoIrq}
  /\ setup \in BOOLEAN

(* While no handler runs nothing is in service, on either chip, spurious    *)
(* interrupts included: no line and no line below it is left blocked, and   *)
(* the EOI of one interrupt never ends another.                             *)
IsrClean ==
  setup => IF cur = NoIrq THEN pic.isr = {}
           ELSE pic.isr \subseteq {cur, MasterLine(cur)}

(* A request on a line that pic_unmask has opened, and that stays open, is  *)
(* taken, unless requests of higher priority keep the CPU busy: the slave's *)
(* lines get through the cascade, whatever was masked and unmasked before.  *)
RequestsServed ==
  \A n \in Lines :
    (setup /\ n \in pic.irr \ pic.imr) ~>
      \/ n \notin pic.irr
      \/ n \in pic.imr
      \/ cur # NoIrq /\ Rank(cur) < Rank(n)
=============================================================================
