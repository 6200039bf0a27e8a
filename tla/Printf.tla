------------------------------- MODULE Printf -------------------------------
(* vga_printf and vga_put_uint, src/vga.c: the scan over the format string, *)
(* one step per group of characters it consumes, and the conversion of      *)
(* integers of two widths to digits.  All its state is local, so a call     *)
(* from interrupt context does not disturb it; where the characters go is   *)
(* module Vga's subject.                                                    *)
EXTENDS Integers, Sequences, SequencesExt

CONSTANTS INT_BITS, LONG_BITS,   \* 32 and 64
          DIGITS,                \* 24: size of the array digits
          Calls                  \* [fmt, args, shows]: calls and what a
                                 \* reader of the header expects of them

POINTER_DIGITS == LONG_BITS \div 4

(* A decimal digit holds three bits, so the array is large enough. *)
ASSUME PrintfAssumption ==
  /\ INT_BITS \in Nat \ {0} /\ LONG_BITS \in Nat /\ INT_BITS < LONG_BITS
  /\ DIGITS \in Nat /\ LONG_BITS <= 3 * DIGITS

VARIABLES call,    \* the arguments of vga_printf
          loc,     \* its locals: [pc, p, zero_pad, width, is64, ap]
          out      \* characters passed to vga_putchar

printfVars == <<call, loc, out>>

-----------------------------------------------------------------------------
NUL == "NUL"
Numerals == <<"0", "1", "2", "3", "4", "5", "6", "7", "8", "9">>
IsDigit(c) == c \in Range(Numerals)
ValueOf(c) == (CHOOSE i \in DOMAIN Numerals : Numerals[i] = c) - 1

DigitChar(d, upper) ==
  IF d < 10 THEN Numerals[d + 1]
  ELSE (IF upper THEN <<"A", "B", "C", "D", "E", "F">>
        ELSE <<"a", "b", "c", "d", "e", "f">>)[d - 9]

(* The array digits: least significant digit first. *)
DigitsOf(value, base, upper) ==
  LET rest[v \in 0 .. 2 ^ LONG_BITS - 1] ==
        IF v = 0 THEN <<>>
        ELSE <<DigitChar(v % base, upper)>> \o rest[v \div base]
  IN  IF value = 0 THEN <<"0">> ELSE rest[value]

Padding(n, pad) == [i \in 1 .. n |-> pad]

(* The characters vga_put_uint prints. *)
vga_put_uint(value, base, width, pad, upper) ==
  LET digits == DigitsOf(value, base, upper)
  IN  Padding(width - Len(digits), pad) \o Reverse(digits)

-----------------------------------------------------------------------------
(* va_arg: an int is the low half of its slot, whatever is above it. *)
Slot == call.args[loc.ap]
Signed(x, bits) == LET u == x % 2 ^ bits
                   IN  IF u >= 2 ^ (bits - 1) THEN u - 2 ^ bits ELSE u
Int64 == Signed(Slot, IF loc.is64 THEN LONG_BITS ELSE INT_BITS)

(* Mutant: an unsigned int is sign-extended. *)
Uint64_SignExtends ==
  Signed(Slot, IF loc.is64 THEN LONG_BITS ELSE INT_BITS) % 2 ^ LONG_BITS

Uint64 == Slot % 2 ^ (IF loc.is64 THEN LONG_BITS ELSE INT_BITS)

(* (uint64_t)(~sv) + 1 *)
Negated(sv) == (((-sv - 1) % 2 ^ LONG_BITS) + 1) % 2 ^ LONG_BITS

pad == IF loc.zero_pad THEN "0" ELSE " "

Magnitude(sv) == IF sv < 0 THEN Negated(sv) ELSE sv

Decimal(sv) ==
  (IF sv < 0 THEN <<"-">> ELSE <<>>)
    \o vga_put_uint(Magnitude(sv), 10, loc.width, pad, FALSE)

(* Conversions that take an argument, and what they print. *)
Integral == {"d", "u", "x", "X", "p"}
Taking == Integral \cup {"c", "s"}
Converted(c) ==
  CASE c = "c" -> <<Slot>>
    [] c = "s" -> Slot
    [] c = "d" -> Decimal(Int64)
    [] c = "u" -> vga_put_uint(Uint64, 10, loc.width, pad, FALSE)
    [] c \in {"x", "X"} -> vga_put_uint(Uint64, 16, loc.width, pad, c = "X")
    [] c = "p" -> <<"0", "x">> \o vga_put_uint(Slot, 16, POINTER_DIGITS, "0", FALSE)
    [] c = "%" -> <<"%">>
    [] OTHER -> <<>>

-----------------------------------------------------------------------------
(* What a caller owes: a terminated string, and an argument for each        *)
(* conversion that takes one, a word for a numeric one.                     *)

(* The character completes a conversion, after s = [in, ap]: the part of    *)
(* the format before it, and the next argument.                             *)
Completes(s, c) ==
  \/ s.in = "spec" /\ ~IsDigit(c) /\ c \notin {"l", "z"}
  \/ s.in = "long" /\ c # "l"
  \/ s.in = "longlong"

Reads(s, c) ==
  IF s.in = "text" THEN [s EXCEPT !.in = IF c = "%" THEN "spec" ELSE "text"]
  ELSE IF Completes(s, c)
  THEN [in |-> "text", ap |-> IF c \in Taking THEN s.ap + 1 ELSE s.ap]
  ELSE [s EXCEPT !.in = IF IsDigit(c) THEN "spec"
                        ELSE IF s.in = "spec" THEN "long" ELSE "longlong"]

Before(fmt) ==
  LET s[p \in 1 .. Len(fmt) + 1] ==
        IF p = 1 THEN [in |-> "text", ap |-> 1] ELSE Reads(s[p - 1], fmt[p - 1])
  IN  s

PassesArguments(k) ==
  \A p \in 1 .. Len(k.fmt) :
    LET s == Before(k.fmt)[p]
    IN  Completes(s, k.fmt[p]) /\ k.fmt[p] \in Taking =>
          /\ s.ap <= Len(k.args)
          /\ k.fmt[p] \in Integral => k.args[s.ap] \in 0 .. 2 ^ LONG_BITS - 1

ASSUME CallsAssumption ==
  \A k \in Calls :
    /\ DOMAIN k = {"fmt", "args", "shows"}
    /\ k.fmt \in Seq(Range(k.fmt) \ {NUL}) /\ Len(k.args) \in Nat
    /\ PassesArguments(k)

-----------------------------------------------------------------------------
Start == [pc |-> "scan", p |-> 1, zero_pad |-> FALSE, width |-> 0,
          is64 |-> FALSE, ap |-> 1]

PrintfInit == call \in Calls /\ loc = Start /\ out = <<>>

(* Reading index Len(fmt) + 1 gives the terminator; nothing is known of     *)
(* what follows it.                                                         *)
CharAt(p) == IF p = Len(call.fmt) + 1 THEN NUL ELSE call.fmt[p]
To(p, pc) == [loc EXCEPT !.p = p, !.pc = pc]

Literal ==
  /\ loc.pc = "scan" /\ CharAt(loc.p) \notin {NUL, "%"}
  /\ out' = Append(out, CharAt(loc.p))
  /\ loc' = To(loc.p + 1, "scan")
  /\ UNCHANGED call

(* A '%': the three settings are reset. *)
Percent ==
  /\ loc.pc = "scan" /\ CharAt(loc.p) = "%"
  /\ loc' = [Start EXCEPT !.p = loc.p + 1, !.ap = loc.ap, !.pc = "flag"]
  /\ UNCHANGED <<call, out>>

Flag ==
  /\ loc.pc = "flag"
  /\ loc' = IF CharAt(loc.p) = "0"
            THEN [To(loc.p + 1, "width") EXCEPT !.zero_pad = TRUE]
            ELSE To(loc.p, "width")
  /\ UNCHANGED <<call, out>>

Width ==
  /\ loc.pc = "width"
  /\ LET c == CharAt(loc.p)
     IN  loc' = IF IsDigit(c)
                THEN [To(loc.p + 1, "width") EXCEPT !.width = @ * 10 + ValueOf(c)]
                ELSE To(loc.p, "length")
  /\ UNCHANGED <<call, out>>

(* l, z, ll or zl *)
Length ==
  /\ loc.pc = "length"
  /\ loc' = IF CharAt(loc.p) \in {"l", "z"}
            THEN [To(IF CharAt(loc.p + 1) = "l" THEN loc.p + 2 ELSE loc.p + 1,
                       "convert") EXCEPT !.is64 = TRUE]
            ELSE To(loc.p, "convert")
  /\ UNCHANGED <<call, out>>

(* Mutant: steps over the terminator of a format that ends in '%'. *)
AfterConversion_Runs(c) == To(loc.p + 1, "scan")

(* The test after the switch: the terminator is not stepped over. *)
AfterConversion(c) ==
  IF c = NUL THEN To(loc.p, "done") ELSE To(loc.p + 1, "scan")

Convert ==
  /\ loc.pc = "convert"
  /\ LET c == CharAt(loc.p)
     IN  /\ out' = out \o Converted(c)
         /\ loc' = [AfterConversion(c) EXCEPT
                      !.ap = IF c \in Taking THEN @ + 1 ELSE @]
  /\ UNCHANGED call

Finish ==
  /\ loc.pc = "scan" /\ CharAt(loc.p) = NUL
  /\ loc' = To(loc.p, "done")
  /\ UNCHANGED <<call, out>>

Returned == loc.pc = "done" /\ UNCHANGED printfVars

PrintfNext == Literal \/ Percent \/ Flag \/ Width \/ Length \/ Convert
                \/ Finish \/ Returned

PrintfSpec == PrintfInit /\ [][PrintfNext]_printfVars

-----------------------------------------------------------------------------
(* Reference: the numeral of v without leading zeros, by place value. *)
Numeral(v, base, upper) ==
  LET n == CHOOSE k \in 1 .. LONG_BITS :
             v < base ^ k /\ (k > 1 => base ^ (k - 1) <= v)
  IN  [i \in 1 .. n |-> DigitChar((v \div base ^ (n - i)) % base, upper)]

(* What the comment above vga_printf promises of an integer conversion:     *)
(* 64 bits with a length modifier, the sign in front of and not counted in  *)
(* the width, blanks or zeros before the digits.                            *)
Shown(zero, width, long, conv, slot) ==
  LET bits == IF long THEN LONG_BITS ELSE INT_BITS
      v == IF conv = "d" THEN Signed(slot, bits) ELSE slot % 2 ^ bits
      numeral == Numeral(IF v < 0 THEN -v ELSE v,
                         IF conv \in {"x", "X"} THEN 16 ELSE 10, conv = "X")
  IN  (IF v < 0 THEN <<"-">> ELSE <<>>)
        \o [i \in 1 .. width - Len(numeral) |-> IF zero THEN "0" ELSE " "]
        \o numeral

(* A finished call has printed, piece by piece, what its format asks for,   *)
(* and taken exactly the arguments of its conversions: neither "%%" nor an  *)
(* unknown conversion shifts the ones that follow.                          *)
PrintsReference ==
  loc.pc = "done" => out = call.shows /\ loc.ap = Len(call.args) + 1

(* The scan never passes the terminator, wherever the format breaks off,    *)
(* and takes no argument that was not passed; the digits of every integer   *)
(* fit the array of vga_put_uint, the most negative one's too.              *)
StaysInside ==
  /\ loc.p <= Len(call.fmt) + 1
  /\ loc.ap <= Len(call.args) + 1
  /\ (loc.pc = "convert" /\ CharAt(loc.p) \in Integral) =>
       LET c == CharAt(loc.p)
           value == IF c = "d" THEN Magnitude(Int64)
                    ELSE IF c = "p" THEN Slot ELSE Uint64
       IN  Len(DigitsOf(value, IF c \in {"d", "u"} THEN 10 ELSE 16, c = "X")) <= DIGITS
=============================================================================
