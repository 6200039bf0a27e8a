-------------------------------- MODULE Keys --------------------------------
(* The keyboard driver under a keyboard: keys go down and up, each sends    *)
(* the bytes of scancode set 1, and the driver sees the bytes later, one    *)
(* per interrupt.  Shift and extended keys make the meaning of a byte       *)
(* depend on the bytes before it.                                           *)
EXTENDS Keyboard, SequencesExt

CONSTANTS KeyCaps,                \* the keys
          LeftShift, RightShift,  \* two of them
          MakeBytes, BreakBytes,  \* what a key sends going down and up
          Plain, Shifted,         \* the characters on its cap, NUL for none
          MAX_WIRE                \* bound: bytes sent and not yet handled

Make(c) == [code |-> c, release |-> FALSE]
Break(c) == [code |-> c, release |-> TRUE]

SendsCode(key, c) == MakeBytes[key] = <<Make(c)>> /\ BreakBytes[key] = <<Break(c)>>
SendsExtended(key) == \E b, d \in Scancodes : /\ MakeBytes[key] = <<E0, b>>
                                              /\ BreakBytes[key] = <<E0, d>>
HasCaps(key, plain, shifted) == Plain[key] = plain /\ Shifted[key] = shifted

(* Scancode set 1: a key sends its code, or the prefix and a byte that may  *)
(* be any other key's code; the caps of the former are the tables'.         *)
ASSUME KeysAssumption ==
  /\ {LeftShift, RightShift} \subseteq KeyCaps /\ LeftShift # RightShift
  /\ LSHIFT # RSHIFT /\ EXT \notin {LSHIFT, RSHIFT}
  /\ SendsCode(LeftShift, LSHIFT) /\ HasCaps(LeftShift, NUL, NUL)
  /\ SendsCode(RightShift, RSHIFT) /\ HasCaps(RightShift, NUL, NUL)
  /\ \A key \in KeyCaps \ {LeftShift, RightShift} :
       \/ \E c \in Codes \ {LSHIFT, RSHIFT, EXT} :
            SendsCode(key, c) /\ HasCaps(key, kb_normal[c], kb_shift[c])
       \/ SendsExtended(key) /\ HasCaps(key, NUL, NUL)

VARIABLES down,    \* the Shift keys that are physically held down
          wire,    \* bytes sent and not yet handled, oldest first
          expect   \* characters typed and not yet returned or dropped

keysVars == <<kb, get, got, lost, down, wire, expect>>

KeysInit ==
  /\ KbInit
  /\ down = {}
  /\ wire = <<>>
  /\ expect = <<>>

CapOf(key) == IF down = {} THEN Plain[key] ELSE Shifted[key]

(* A key goes down, or repeats while it is held. *)
Press(key) ==
  /\ Len(wire) + Len(MakeBytes[key]) <= MAX_WIRE
  /\ wire' = wire \o MakeBytes[key]
  /\ down' = down \cup ({key} \cap {LeftShift, RightShift})
  /\ expect' = IF CapOf(key) = NUL THEN expect ELSE Append(expect, CapOf(key))
  /\ UNCHANGED kbVars

Release(key) ==
  /\ Len(wire) + Len(BreakBytes[key]) <= MAX_WIRE
  /\ wire' = wire \o BreakBytes[key]
  /\ down' = down \ {key}
  /\ UNCHANGED <<expect, kbVars>>

(* IRQ1 for the oldest byte.  A character dropped by a full ring is the one *)
(* right behind those in the ring.                                          *)
Irq1 ==
  /\ wire # <<>>
  /\ Handler(Head(wire))
  /\ wire' = Tail(wire)
  /\ expect' = IF Produces(kb, Head(wire)) /\ kb'.head = kb.head
               THEN RemoveAt(expect, Count(kb) + 1) ELSE expect
  /\ UNCHANGED down

Consume ==
  /\ \/ KbCheck /\ UNCHANGED expect
     \/ KbRead /\ UNCHANGED expect
     \/ KbAdvance /\ expect' = Tail(expect)
  /\ UNCHANGED <<down, wire>>

KeysNext ==
  \/ \E key \in KeyCaps : Press(key) \/ Release(key)
  \/ Irq1
  \/ Consume

KeysSpec == KeysInit /\ [][KeysNext]_keysVars

-----------------------------------------------------------------------------
(* Once every byte has been handled, the driver's two Shift flags are the   *)
(* state of the two Shift keys, whatever was pressed, released, repeated or *)
(* sent as part of an extended key in between; no prefix is left over.      *)
ShiftTracks ==
  wire = <<>> =>
    /\ kb.shift_left = (LeftShift \in down)
    /\ kb.shift_right = (RightShift \in down)
    /\ ~kb.e0_prefix

(* The ring holds the oldest characters typed, with the Shift state of the  *)
(* moment they were typed, and all of them once every byte is handled: the  *)
(* bytes of extended keys never show up as characters.                      *)
TypedInOrder ==
  /\ IsPrefix(Ring(kb), expect)
  /\ wire = <<>> => expect = Ring(kb)
=============================================================================
