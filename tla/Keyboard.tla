------------------------------ MODULE Keyboard ------------------------------
(* The keyboard driver, src/keyboard.c: the scancode state machine and the  *)
(* producer end of the ring buffer run in the IRQ1 handler, the consumer    *)
(* end in kb_get, called by the main loop.  The handler runs with           *)
(* interrupts off on the only CPU, so it is one step; kb_get can be         *)
(* interrupted between its accesses, so it is three.                        *)
EXTENDS Integers, Sequences

CONSTANTS KB_BUF_SIZE,
          Codes,                  \* the 7-bit key codes in use
          LSHIFT, RSHIFT, EXT,    \* codes 0x2A, 0x36, 0x60
          Chars,                  \* characters the tables produce
          NUL,                    \* table entry of keys without a character
          kb_normal, kb_shift     \* the two look-up tables

(* The static assertions demand a power of two, which makes the code's      *)
(* "& (KB_BUF_SIZE - 1)" the remainder used here; the ring itself only      *)
(* needs two slots.                                                         *)
ASSUME BufSizeAssumption == KB_BUF_SIZE \in Nat \ {0, 1}
ASSUME TableAssumption ==
  /\ {LSHIFT, RSHIFT, EXT} \subseteq Codes
  /\ NUL \notin Chars
  /\ kb_normal \in [Codes -> Chars \cup {NUL}]
  /\ kb_shift \in [Codes -> Chars \cup {NUL}]

(* A scancode byte: bit 7 and the low seven bits. *)
Scancodes == [code : Codes, release : BOOLEAN]
E0 == [code |-> EXT, release |-> TRUE]

Slots == 0 .. KB_BUF_SIZE - 1

VARIABLES kb,     \* the statics of keyboard.c
          get,    \* where kb_get is: [pc, c]
          got,    \* the last character kb_get returned, <<>> before the first
          lost    \* the handler has dropped a character

kbVars == <<kb, get, got, lost>>

-----------------------------------------------------------------------------
(* (i) & (KB_BUF_SIZE - 1) *)
Wrap(i) == i % KB_BUF_SIZE

(* Mutant: no test for a full ring. *)
Enqueue_NoFullTest(k, c) ==
  [k EXCEPT !.buf[k.head] = c, !.head = Wrap(k.head + 1)]

(* Mutant: the test for a full ring looks two slots ahead. *)
Enqueue_TwoAhead(k, c) ==
  IF Wrap(k.head + 2) = k.tail \/ Wrap(k.head + 1) = k.tail THEN k
  ELSE [k EXCEPT !.buf[k.head] = c, !.head = Wrap(k.head + 1)]

(* One slot stays empty: a full ring drops the new character. *)
Enqueue(k, c) ==
  LET next == Wrap(k.head + 1)
  IN  IF next = k.tail THEN k
      ELSE [k EXCEPT !.buf[k.head] = c, !.head = next]

CharOf(k, code) ==
  IF k.shift_left \/ k.shift_right THEN kb_shift[code] ELSE kb_normal[code]

(* The byte produces a character (the handler reaches the ring buffer). *)
Produces(k, sc) ==
  /\ ~k.e0_prefix /\ sc # E0
  /\ sc.code \notin {LSHIFT, RSHIFT}
  /\ ~sc.release
  /\ CharOf(k, sc.code) # NUL

(* Mutant: the second byte of an extended key is looked up. *)
keyboard_handler_NoSwallow(k, sc) ==
  IF sc = E0 THEN [k EXCEPT !.e0_prefix = TRUE]
  ELSE IF sc.code = LSHIFT THEN [k EXCEPT !.shift_left = ~sc.release]
  ELSE IF sc.code = RSHIFT THEN [k EXCEPT !.shift_right = ~sc.release]
  ELSE IF sc.release \/ CharOf(k, sc.code) = NUL THEN k
  ELSE Enqueue(k, CharOf(k, sc.code))

(* Mutant: releasing either Shift key clears both. *)
keyboard_handler_OneShift(k, sc) ==
  IF k.e0_prefix THEN [k EXCEPT !.e0_prefix = FALSE]
  ELSE IF sc = E0 THEN [k EXCEPT !.e0_prefix = TRUE]
  ELSE IF sc.code \in {LSHIFT, RSHIFT}
       THEN [k EXCEPT !.shift_left = ~sc.release, !.shift_right = ~sc.release]
  ELSE IF sc.release \/ CharOf(k, sc.code) = NUL THEN k
  ELSE Enqueue(k, CharOf(k, sc.code))

(* What the handler does with the byte read from port 0x60. *)
keyboard_handler(k, sc) ==
  IF k.e0_prefix THEN [k EXCEPT !.e0_prefix = FALSE]
  ELSE IF sc = E0 THEN [k EXCEPT !.e0_prefix = TRUE]
  ELSE IF sc.code = LSHIFT THEN [k EXCEPT !.shift_left = ~sc.release]
  ELSE IF sc.code = RSHIFT THEN [k EXCEPT !.shift_right = ~sc.release]
  ELSE IF sc.release \/ CharOf(k, sc.code) = NUL THEN k
  ELSE Enqueue(k, CharOf(k, sc.code))

-----------------------------------------------------------------------------
(* .bss is zero. *)
KbInit ==
  /\ kb = [buf |-> [i \in Slots |-> NUL], head |-> 0, tail |-> 0,
           shift_left |-> FALSE, shift_right |-> FALSE, e0_prefix |-> FALSE]
  /\ get = [pc |-> "idle", c |-> NUL]
  /\ got = <<>>
  /\ lost = FALSE

Handler(sc) ==
  /\ kb' = keyboard_handler(kb, sc)
  /\ lost' = (lost \/ (Produces(kb, sc) /\ kb'.head = kb.head))
  /\ UNCHANGED <<get, got>>

Empty == kb.head = kb.tail

(* kb_get: return -1 when empty ... *)
KbCheck ==
  /\ get.pc = "idle"
  /\ get' = [get EXCEPT !.pc = IF Empty THEN "idle" ELSE "read"]
  /\ UNCHANGED <<kb, got, lost>>

(* ... read the slot at the tail ... *)
KbRead ==
  /\ get.pc = "read"
  /\ get' = [pc |-> "advance", c |-> kb.buf[kb.tail]]
  /\ UNCHANGED <<kb, got, lost>>

(* Mutant: the new tail is computed but not stored. *)
KbAdvance_NoStore ==
  /\ get.pc = "advance"
  /\ get' = [get EXCEPT !.pc = "idle"]
  /\ got' = <<get.c>>
  /\ UNCHANGED <<kb, lost>>

(* ... then advance the tail and return the character. *)
KbAdvance ==
  /\ get.pc = "advance"
  /\ kb' = [kb EXCEPT !.tail = Wrap(kb.tail + 1)]
  /\ get' = [get EXCEPT !.pc = "idle"]
  /\ got' = <<get.c>>
  /\ UNCHANGED lost

KbNext ==
  \/ \E sc \in Scancodes : Handler(sc)
  \/ KbCheck
  \/ KbRead
  \/ KbAdvance

KbSpec == KbInit /\ [][KbNext]_kbVars

-----------------------------------------------------------------------------
(* Types: indices stay inside the buffer, the buffer holds characters. *)
KbTypeOK ==
  /\ kb \in [buf : [Slots -> Chars \cup {NUL}], head : Slots, tail : Slots,
             shift_left : BOOLEAN, shift_right : BOOLEAN, e0_prefix : BOOLEAN]
  /\ get \in [pc : {"idle", "read", "advance"}, c : Chars \cup {NUL}]
  /\ got \in {<<>>} \cup {<<c>> : c \in Chars}
  /\ lost \in BOOLEAN

(* The number of characters in the ring and the i-th of them, i from 0. *)
Count(k) == IF k.head >= k.tail THEN k.head - k.tail
            ELSE k.head - k.tail + KB_BUF_SIZE
SlotAt(k, i) == IF k.tail + i < KB_BUF_SIZE THEN k.tail + i
                ELSE k.tail + i - KB_BUF_SIZE
Ring(k) == [i \in 1 .. Count(k) |-> k.buf[SlotAt(k, i - 1)]]

(* kb_get relies on a check it made earlier: between the check and the      *)
(* advance of the tail the ring stays non-empty, and the character already  *)
(* read stays the oldest one, whatever the interrupt handler does.          *)
GetSafe ==
  /\ get.pc # "idle" => ~Empty
  /\ get.pc = "advance" => get.c = kb.buf[kb.tail]

(* The slots between tail and head hold characters, never the table's NUL:  *)
(* kb_get never returns the "no character" value.                           *)
RingHoldsChars == \A i \in 1 .. Count(kb) : Ring(kb)[i] \in Chars

(* Handler and kb_get together behave as a queue of KB_BUF_SIZE - 1         *)
(* characters: in order, nothing lost, duplicated or invented, and a        *)
(* character is dropped only when the queue is full.                        *)
Fifo == INSTANCE CharFifo WITH
          Capacity <- KB_BUF_SIZE - 1, FifoChars <- Chars, q <- Ring(kb)
ImplementsFifo == Fifo!Spec
=============================================================================
