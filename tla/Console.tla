------------------------------ MODULE Console ------------------------------
(* From key to screen: the 8042 controller and the 8259As (external), the   *)
(* interrupt path of one CPU (idt.c, isr.asm, irq.c, pic.c), the keyboard   *)
(* driver and kmain's main loop.  An interrupt can be taken between any two *)
(* steps of the main loop once interrupts are enabled.                      *)
EXTENDS Keyboard, Irq

CONSTANTS Bytes,        \* scancodes the keyboard may send
          SpuriousIrqs  \* whether noise on the lines causes interrupts

KEYBOARD == 1

ASSUME BytesAssumption == Bytes \subseteq Scancodes /\ SpuriousIrqs \in BOOLEAN
ASSUME KeyboardAssumption == KEYBOARD \in Lines \cap ApiIrqs

VARIABLES obf,     \* the 8042 output buffer: <<>> or <<byte>>
          pc,      \* where kmain is
          IF_,     \* the interrupt flag
          shadow,  \* the instruction after an STI that set the flag
          hpc      \* where the interrupt path is, "none" outside

consoleVars == <<kbVars, irqVars, obf, pc, IF_, shadow, hpc>>
cpuVars == <<pc, IF_, shadow, hpc>>

-----------------------------------------------------------------------------
ConsoleInit ==
  /\ KbInit
  /\ IrqInit
  /\ obf = <<>>
  /\ pc = "pic_init"
  /\ IF_ = FALSE
  /\ shadow = FALSE
  /\ hpc = "none"

(* The main flow runs while no interrupt is being serviced. *)
At(label) == pc = label /\ hpc = "none"

(* kmain, interrupts off: program the PICs, open line 1, register. *)
BootPic ==
  /\ At("pic_init")
  /\ PicInit
  /\ pc' = "pic_unmask"
  /\ UNCHANGED <<kbVars, obf, IF_, shadow, hpc>>

BootUnmask ==
  /\ At("pic_unmask")
  /\ Unmask(KEYBOARD)
  /\ pc' = "keyboard_init"
  /\ UNCHANGED <<kbVars, obf, IF_, shadow, hpc>>

(* Mutant: enters the main loop without registering the handler. *)
keyboard_init_Forgotten ==
  /\ At("keyboard_init")
  /\ pc' = "get"
  /\ UNCHANGED <<kbVars, irqVars, obf, IF_, shadow, hpc>>

keyboard_init ==
  /\ At("keyboard_init")
  /\ irq_register(KEYBOARD)
  /\ pc' = "get"
  /\ UNCHANGED <<kbVars, obf, IF_, shadow, hpc>>

(* while ((c = kb_get()) >= 0) vga_putchar(c) *)
LoopGet ==
  /\ At("get")
  /\ \/ /\ KbCheck
        /\ pc' = IF Empty THEN "sti" ELSE "get"
     \/ KbRead /\ pc' = "get"
     \/ KbAdvance /\ pc' = "put"
  /\ UNCHANGED <<irqVars, obf, IF_, shadow, hpc>>

vga_putchar ==
  /\ At("put")
  /\ pc' = "get"
  /\ UNCHANGED <<kbVars, irqVars, obf, IF_, shadow, hpc>>

(* STI holds interrupts off for one more instruction only when it is the    *)
(* one that enables them.                                                   *)
Sti ==
  /\ At("sti")
  /\ shadow' = ~IF_
  /\ IF_' = TRUE
  /\ pc' = "hlt"
  /\ UNCHANGED <<kbVars, irqVars, obf, hpc>>

Hlt ==
  /\ At("hlt")
  /\ shadow' = FALSE
  /\ pc' = "halted"
  /\ UNCHANGED <<kbVars, irqVars, obf, IF_, hpc>>

-----------------------------------------------------------------------------
(* An interrupt gate clears the flag; a halted CPU wakes up and will go     *)
(* round the loop.                                                          *)
EnterGate ==
  /\ IF_ /\ ~shadow /\ hpc = "none"
  /\ IF_' = FALSE
  /\ hpc' = "dispatch"
  /\ pc' = IF pc = "halted" THEN "get" ELSE pc
  /\ UNCHANGED <<kbVars, obf, shadow>>

TakeIrq == EnterGate /\ Accept
TakeSpurious == SpuriousIrqs /\ EnterGate /\ SpuriousMaster

(* Mutant: the handler decides what to do without reading the port. *)
RunHandler_NoRead ==
  /\ hpc = "dispatch"
  /\ cur = KEYBOARD /\ cur \in irq_handlers
  /\ hpc' = "eoi"
  /\ UNCHANGED <<kbVars, obf, irqVars, pc, IF_, shadow>>

(* irq_dispatch calls the handler; keyboard_handler starts by reading port  *)
(* 0x60, which empties the output buffer.  An empty port would answer with  *)
(* some old byte.                                                           *)
RunHandler ==
  /\ hpc = "dispatch"
  /\ cur = KEYBOARD /\ cur \in irq_handlers
  /\ \E sc \in IF obf = <<>> THEN Bytes ELSE {obf[1]} : Handler(sc)
  /\ obf' = <<>>
  /\ hpc' = "eoi"
  /\ UNCHANGED <<irqVars, pc, IF_, shadow>>

(* No handler registered: a diagnostic line, nothing else. *)
Unhandled ==
  /\ hpc = "dispatch"
  /\ cur \notin irq_handlers
  /\ hpc' = "eoi"
  /\ UNCHANGED <<kbVars, irqVars, obf, pc, IF_, shadow>>

(* The EOI; nothing but the return is left of the interrupt. *)
SendEoi ==
  /\ hpc = "eoi"
  /\ irq_dispatch
  /\ hpc' = "iret"
  /\ UNCHANGED <<kbVars, obf, pc, IF_, shadow>>

(* iretq restores the flags: interrupts were enabled. *)
Iret ==
  /\ hpc = "iret"
  /\ IF_' = TRUE
  /\ hpc' = "none"
  /\ UNCHANGED <<kbVars, irqVars, obf, pc, shadow>>

(* The 8042 takes the next byte from the keyboard and raises line 1.  It    *)
(* stays silent until the PICs are programmed.                              *)
KeyByte ==
  /\ setup
  /\ obf = <<>>
  /\ \E sc \in Bytes : obf' = <<sc>>
  /\ Raise(KEYBOARD)
  /\ UNCHANGED <<kbVars, cpuVars>>

MainLoop == LoopGet \/ vga_putchar \/ Sti \/ Hlt
Boot == BootPic \/ BootUnmask \/ keyboard_init
Interrupt == RunHandler \/ Unhandled \/ SendEoi \/ Iret

ConsoleNext ==
  \/ Boot \/ MainLoop \/ Interrupt
  \/ TakeIrq \/ TakeSpurious
  \/ KeyByte

(* The CPU keeps executing and takes interrupts that are enabled.  The      *)
(* keyboard, a serial device, is too slow to keep the main loop from ever   *)
(* getting a turn: strong fairness.  It need not send anything at all.      *)
ConsoleSpec ==
  /\ ConsoleInit /\ [][ConsoleNext]_consoleVars
  /\ WF_consoleVars(Boot) /\ SF_consoleVars(MainLoop)
  /\ WF_consoleVars(Interrupt) /\ WF_consoleVars(TakeIrq)

-----------------------------------------------------------------------------
(* Types of the composition, and the CPU's flag discipline. *)
ConsoleTypeOK ==
  /\ KbTypeOK /\ IrqTypeOK
  /\ obf \in {<<>>} \cup {<<b>> : b \in Bytes}
  /\ pc \in {"pic_init", "pic_unmask", "keyboard_init", "get", "put", "sti",
             "hlt", "halted"}
  /\ hpc \in {"none", "dispatch", "eoi", "iret"}
  /\ IF_ \in BOOLEAN /\ shadow \in BOOLEAN

(* A byte in the output buffer and an interrupt that will fetch it always   *)
(* go together: a byte is never left without its interrupt (the keyboard    *)
(* would be dead, its line stays high) and the handler never reads an empty *)
(* port, wherever the next byte arrives between read, EOI and return.       *)
ByteHasInterrupt ==
  (obf # <<>>) <=>
    (setup /\ (KEYBOARD \in pic.irr \/ (cur = KEYBOARD /\ hpc = "dispatch")))

(* Every byte the keyboard sends is eventually fetched: the line is open    *)
(* and the handler registered before the first interrupt is let in.         *)
BytesFetched == (obf # <<>>) ~> (obf = <<>>)

(* While bytes keep coming, a character in the ring is eventually returned  *)
(* by kb_get, so that the main loop prints it.                              *)
DrainsWhileTyping ==
  []<>(obf # <<>>) =>
    \A t \in Slots : (~Empty /\ kb.tail = t) ~> (kb.tail # t)

(* kernel.c says that STI and HLT being adjacent rules out sleeping with    *)
(* characters in the buffer that nobody fetches: a CPU that sleeps, with no *)
(* interrupt on its way, leaves the ring empty.                             *)
NoSleepOnData ==
  (pc = "halted" /\ hpc = "none" /\ pic.irr = {}) => Empty
=============================================================================
