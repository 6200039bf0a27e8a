---------------------------- MODULE PrintfProofs ----------------------------
(* vga_printf stays inside its format, its arguments and its digit array,   *)
(* for every call that passes what its format asks for.                     *)
EXTENDS Printf, FiniteSetTheorems, NaturalsInduction, WellFoundedInduction, TLAPS

-----------------------------------------------------------------------------
(* Numbers. *)

(* A set of numbers has a least one. *)
LEMMA LeastNumber ==
  ASSUME NEW T, T \subseteq Nat, T # {}
  PROVE  \E m \in T : \A n \in T : ~(n < m)
<1> DEFINE R == OpToRel(<, Nat)
<1>1. PICK m \in T : \A n \in T : ~(<<n, m>> \in R)
  <2>1. IsWellFoundedOn(R, Nat)
    BY NatLessThanWellFounded
  <2> HIDE DEF R
  <2> QED BY <2>1, WFMin
<1>2. \A n \in T : n < m => <<n, m>> \in R
  BY DEF OpToRel
<1> QED BY <1>1, <1>2

(* A power of two counts the subsets of an interval. *)
LEMMA PowerCounts ==
  ASSUME NEW n \in Nat
  PROVE  /\ IsFiniteSet(SUBSET (1 .. n)) /\ Cardinality(SUBSET (1 .. n)) = 2 ^ n
         /\ 2 ^ n \in Nat
<1>1. IsFiniteSet(1 .. n) /\ Cardinality(1 .. n) = n
  BY FS_Interval
<1>2. IsFiniteSet(SUBSET (1 .. n)) /\ Cardinality(SUBSET (1 .. n)) = 2 ^ n
  BY <1>1, FS_SUBSET
<1> QED BY <1>2, FS_CardinalityType

(* So powers of two grow with the exponent. *)
LEMMA PowerGrows ==
  ASSUME NEW m \in Nat, NEW n \in Nat, m <= n
  PROVE  2 ^ m <= 2 ^ n
<1>1. SUBSET (1 .. m) \in SUBSET SUBSET (1 .. n)
  OBVIOUS
<1>2. IsFiniteSet(SUBSET (1 .. n)) /\ Cardinality(SUBSET (1 .. n)) = 2 ^ n
  BY PowerCounts
<1>3. Cardinality(SUBSET (1 .. m)) = 2 ^ m
  BY PowerCounts
<1>4. Cardinality(SUBSET (1 .. m)) <= Cardinality(SUBSET (1 .. n))
  BY <1>1, <1>2, FS_Subset
<1> QED BY <1>2, <1>3, <1>4

(* And double: a further number is in half of the subsets. *)
LEMMA PowerDoubles ==
  ASSUME NEW n \in Nat
  PROVE  2 ^ (n + 1) = 2 * 2 ^ n
<1> DEFINE A == SUBSET (1 .. n)
           B == {X \cup {n + 1} : X \in A}
           f == [X \in A |-> X \cup {n + 1}]
<1>1. IsFiniteSet(A) /\ Cardinality(A) = 2 ^ n
  BY PowerCounts
<1>2. \A X \in A : n + 1 \notin X
  OBVIOUS
<1>3. f \in Bijection(A, B)
  <2>1. \A X, Y \in A : X \cup {n + 1} = Y \cup {n + 1} => X = Y
    <3> SUFFICES ASSUME NEW X \in A, NEW Y \in A, X \cup {n + 1} = Y \cup {n + 1}
                 PROVE  X = Y
      OBVIOUS
    <3>1. \A i : i \in X <=> i \in Y
      BY <1>2
    <3> QED BY <3>1
  <2>2. f \in [A -> B] /\ \A Y \in B : \E X \in A : f[X] = Y
    OBVIOUS
  <2>3. \A X, Y \in A : f[X] = f[Y] => X = Y
    BY <2>1
  <2> HIDE DEF f, A, B
  <2> QED BY <2>2, <2>3 DEF Bijection, Injection, Surjection, IsInjective
<1>4. IsFiniteSet(B) /\ Cardinality(B) = 2 ^ n
  BY <1>1, <1>3, FS_Bijection DEF ExistsBijection
<1>5. SUBSET (1 .. n + 1) = A \cup B
  <2>1. ASSUME NEW X \in SUBSET (1 .. n + 1) PROVE X \in A \cup B
    <3>1. CASE n + 1 \notin X
      BY <3>1
    <3>2. CASE n + 1 \in X
      <4>1. X \ {n + 1} \in A /\ X = (X \ {n + 1}) \cup {n + 1}
        BY <3>2
      <4> QED BY <4>1
    <3> QED BY <3>1, <3>2
  <2>2. ASSUME NEW X \in A \cup B PROVE X \in SUBSET (1 .. n + 1)
    OBVIOUS
  <2> QED BY <2>1, <2>2
<1>6. A \cap B = {}
  BY <1>2
<1> HIDE DEF A, B
<1>7. Cardinality(A \cup B) = 2 ^ n + 2 ^ n
  <2>1. Cardinality(A \cup B) = Cardinality(A) + Cardinality(B) - Cardinality(A \cap B)
    BY <1>1, <1>4, FS_Union
  <2>2. Cardinality(A \cap B) = 0
    BY <1>6, FS_EmptySet
  <2> QED BY <1>1, <1>4, <2>1, <2>2, PowerCounts
<1>8. n + 1 \in Nat
  OBVIOUS
<1>9. Cardinality(SUBSET (1 .. n + 1)) = 2 ^ (n + 1)
  BY <1>8, PowerCounts
<1> QED BY <1>5, <1>7, <1>9, PowerCounts

(* Three bits are a factor of eight. *)
LEMMA PowerOctal ==
  ASSUME NEW k \in Nat
  PROVE  2 ^ (3 * (k + 1)) = 8 * 2 ^ (3 * k) /\ 2 ^ (3 * k) \in Nat
<1> DEFINE n == 3 * k
<1>1. n \in Nat /\ n + 1 \in Nat /\ (n + 1) + 1 \in Nat
  OBVIOUS
<1>2. 3 * (k + 1) = ((n + 1) + 1) + 1
  OBVIOUS
<1> HIDE DEF n
<1>3. 2 ^ (n + 1) = 2 * 2 ^ n /\ 2 ^ n \in Nat
  BY <1>1, PowerDoubles, PowerCounts
<1>4. 2 ^ ((n + 1) + 1) = 2 * 2 ^ (n + 1)
  BY <1>1, PowerDoubles
<1>5. 2 ^ (((n + 1) + 1) + 1) = 2 * 2 ^ ((n + 1) + 1)
  BY <1>1, PowerDoubles
<1> QED BY <1>2, <1>3, <1>4, <1>5 DEF n

-----------------------------------------------------------------------------
(* The digit array. *)

(* The array of every number up to m, in either base. *)
Arrays(g, m, base, upper) ==
  g = [v \in 0 .. m |-> IF v = 0 THEN <<>>
                        ELSE <<DigitChar(v % base, upper)>> \o g[v \div base]]

(* A digit takes at least three bits away. *)
LEMMA OneDigit ==
  ASSUME NEW base \in {10, 16}, NEW v \in Nat
  PROVE  /\ v \div base \in Nat /\ v % base \in Int /\ 8 * (v \div base) <= v
         /\ v # 0 => v \div base < v
<1>1. CASE base = 10
  BY <1>1
<1>2. CASE base = 16
  BY <1>2
<1> QED BY <1>1, <1>2

(* It exists: by least counterexample. *)
LEMMA ArraysExist ==
  ASSUME NEW base \in {10, 16}, NEW upper
  PROVE  \A m \in Nat : \E g : Arrays(g, m, base, upper)
<1> DEFINE T == {m \in Nat : ~ \E g : Arrays(g, m, base, upper)}
<1> SUFFICES ASSUME T # {} PROVE FALSE
  OBVIOUS
<1>1. PICK m \in T : \A n \in T : ~(n < m)
  <2>1. T \subseteq Nat
    OBVIOUS
  <2> HIDE DEF T
  <2> QED BY <2>1, LeastNumber
<1>2. m \in Nat /\ ~ \E g : Arrays(g, m, base, upper)
  OBVIOUS
<1>3. m # 0
  <2> DEFINE g0 == [v \in 0 .. 0 |-> <<>>]
  <2>1. g0 = [v \in 0 .. 0 |-> IF v = 0 THEN <<>>
                               ELSE <<DigitChar(v % base, upper)>> \o g0[v \div base]]
    OBVIOUS
  <2>2. Arrays(g0, 0, base, upper)
    BY <2>1 DEF Arrays
  <2> QED BY <1>2, <2>2
<1>4. m - 1 \in Nat /\ m - 1 < m
  BY <1>2, <1>3
<1>5. PICK g : Arrays(g, m - 1, base, upper)
  BY <1>1, <1>4
<1> DEFINE h == [v \in 0 .. m |-> IF v <= m - 1 THEN g[v]
                                  ELSE <<DigitChar(m % base, upper)>> \o g[m \div base]]
<1>6. ASSUME NEW v \in 0 .. m
      PROVE  h[v] = IF v = 0 THEN <<>> ELSE <<DigitChar(v % base, upper)>> \o h[v \div base]
  <2>1. CASE v = 0
    BY <1>2, <1>3, <1>5, <2>1 DEF Arrays
  <2>2. CASE v # 0
    <3>1. v \div base \in 0 .. m /\ v \div base <= m - 1
      <4>1. v \in Nat /\ v <= m
        BY <1>2
      <4>2. v \div base \in Nat /\ v \div base < v
        BY <2>2, <4>1, OneDigit
      <4> QED BY <1>2, <4>1, <4>2
    <3>2. h[v \div base] = g[v \div base]
      BY <3>1
    <3>3. CASE v <= m - 1
      <4>1. v \in 0 .. m - 1 /\ h[v] = g[v]
        BY <1>2, <3>3
      <4>2. g[v] = <<DigitChar(v % base, upper)>> \o g[v \div base]
        BY <1>5, <2>2, <4>1 DEF Arrays
      <4> QED BY <2>2, <3>2, <4>1, <4>2
    <3>4. CASE v = m
      BY <1>2, <2>2, <3>2, <3>4
    <3> QED BY <1>2, <3>3, <3>4
  <2> QED BY <2>1, <2>2
<1>7. Arrays(h, m, base, upper)
  <2>1. h = [v \in 0 .. m |-> h[v]]
    OBVIOUS
  <2> HIDE DEF h
  <2> QED BY <1>6, <2>1 DEF Arrays
<1> QED BY <1>2, <1>7

(* A number of three bits a digit fills no more than its digits. *)
LEMMA ArraysFit ==
  ASSUME NEW base \in {10, 16}, NEW upper, NEW m \in Nat, NEW g,
         Arrays(g, m, base, upper)
  PROVE  \A v \in 0 .. m : \A k \in Nat : v < 2 ^ (3 * k) => Len(g[v]) <= k
<1> DEFINE C == {DigitChar(d, upper) : d \in Int}
           Fits(v) == g[v] \in Seq(C) /\ \A k \in Nat : v < 2 ^ (3 * k) => Len(g[v]) <= k
           T == {v \in 0 .. m : ~Fits(v)}
<1>1. T = {}
  <2> SUFFICES ASSUME T # {} PROVE FALSE
    OBVIOUS
  <2>1. PICK v \in T : \A n \in T : ~(n < v)
    <3> HIDE DEF Fits
    <3>1. T \subseteq Nat
      OBVIOUS
    <3> HIDE DEF T
    <3> QED BY <3>1, LeastNumber
  <2>2. v \in 0 .. m /\ ~Fits(v)
    OBVIOUS
  <2>3. CASE v = 0
    <3>1. g[v] = <<>>
      BY <2>2, <2>3 DEF Arrays
    <3>2. g[v] \in Seq(C) /\ Len(g[v]) = 0
      BY <3>1
    <3> QED BY <2>2, <3>2
  <2>4. CASE v # 0
    <3> DEFINE w == v \div base
               c == DigitChar(v % base, upper)
    <3>1. w \in 0 .. m /\ w < v /\ 8 * w <= v
      <4>1. v \in Nat /\ v <= m
        BY <2>2
      <4>2. w \in Nat /\ w < v /\ 8 * w <= v
        BY <2>4, <4>1, OneDigit
      <4> HIDE DEF w
      <4> QED BY <4>1, <4>2
    <3>2. Fits(w)
      BY <2>1, <3>1
    <3>3. c \in C
      <4>1. v \in Nat
        BY <2>2
      <4>2. v % base \in Int
        BY <4>1, OneDigit
      <4> QED BY <4>2
    <3>4. g[v] = <<c>> \o g[w]
      BY <2>2, <2>4 DEF Arrays
    <3> HIDE DEF w, c
    <3>5. g[v] \in Seq(C) /\ Len(g[v]) = 1 + Len(g[w]) /\ Len(g[w]) \in Nat
      <4>1. g[w] \in Seq(C)
        BY <3>2
      <4> HIDE DEF C
      <4>2. <<c>> \in Seq(C) /\ Len(<<c>>) = 1
        BY <3>3
      <4> QED BY <3>4, <4>1, <4>2
    <3>6. ASSUME NEW k \in Nat, v < 2 ^ (3 * k) PROVE Len(g[v]) <= k
      <4>1. k # 0
        <5>1. k = 0 => 2 ^ (3 * k) = 1
          OBVIOUS
        <5> QED BY <2>2, <2>4, <3>6, <5>1
      <4>2. k - 1 \in Nat /\ (k - 1) + 1 = k
        BY <4>1
      <4>3. 2 ^ (3 * k) = 8 * 2 ^ (3 * (k - 1)) /\ 2 ^ (3 * (k - 1)) \in Nat
        BY <4>2, PowerOctal
      <4>4. w < 2 ^ (3 * (k - 1))
        BY <2>2, <3>1, <3>6, <4>3
      <4>5. Len(g[w]) <= k - 1
        BY <3>2, <4>2, <4>4
      <4> QED BY <3>5, <4>5
    <3> QED BY <2>2, <3>5, <3>6
  <2> QED BY <2>3, <2>4
<1> QED BY <1>1

(* Whatever vga_put_uint is given, its digits fit the array. *)
LEMMA DigitsFit ==
  ASSUME NEW base \in {10, 16}, NEW upper, NEW v \in 0 .. 2 ^ LONG_BITS - 1
  PROVE  Len(DigitsOf(v, base, upper)) <= DIGITS
<1> DEFINE m == 2 ^ LONG_BITS - 1
           g == CHOOSE f : Arrays(f, m, base, upper)
<1>1. LONG_BITS \in Nat /\ DIGITS \in Nat /\ LONG_BITS <= 3 * DIGITS /\ DIGITS >= 1
  BY PrintfAssumption
<1>2. m \in Nat /\ v \in 0 .. m
  BY <1>1, PowerCounts
<1>3. Arrays(g, m, base, upper)
  <2>1. \E f : Arrays(f, m, base, upper)
    BY <1>2, ArraysExist
  <2> HIDE DEF m
  <2> QED BY <2>1
<1>4. v < 2 ^ (3 * DIGITS)
  <2>1. 2 ^ LONG_BITS <= 2 ^ (3 * DIGITS) /\ 2 ^ LONG_BITS \in Nat /\ 2 ^ (3 * DIGITS) \in Nat
    BY <1>1, PowerGrows, PowerCounts
  <2> QED BY <2>1
<1>5. DigitsOf(v, base, upper) = IF v = 0 THEN <<"0">> ELSE g[v]
  BY DEF DigitsOf, Arrays
<1> HIDE DEF g, m
<1>6. Len(g[v]) <= DIGITS
  BY <1>1, <1>2, <1>3, <1>4, ArraysFit
<1>7. Len(<<"0">>) = 1
  OBVIOUS
<1> QED BY <1>1, <1>5, <1>6, <1>7

(* An argument as an unsigned number, and the magnitude of a signed one,    *)
(* are words.                                                               *)
LEMMA WordFacts ==
  ASSUME Slot \in 0 .. 2 ^ LONG_BITS - 1
  PROVE  /\ Uint64 \in 0 .. 2 ^ LONG_BITS - 1
         /\ Magnitude(Int64) \in 0 .. 2 ^ LONG_BITS - 1
<1> DEFINE bits == IF loc.is64 THEN LONG_BITS ELSE INT_BITS
           M == 2 ^ bits
           L == 2 ^ LONG_BITS
           H == 2 ^ (bits - 1)
           u == Slot % M
<1>1. bits \in Nat /\ LONG_BITS \in Nat /\ bits <= LONG_BITS
  BY PrintfAssumption
<1> HIDE DEF bits
<1>2. M \in Nat /\ L \in Nat /\ M <= L
  BY <1>1, PowerCounts, PowerGrows
<1>3. M >= 1
  <2>1. 2 ^ 0 = 1 /\ 0 \in Nat /\ 0 <= bits
    BY <1>1
  <2> QED BY <1>1, <2>1, PowerGrows
<1>4. Slot \in Nat
  BY <1>2
<1> HIDE DEF M, L, H
<1>5. u \in 0 .. M - 1
  BY <1>2, <1>3, <1>4
<1>6. Uint64 = u /\ Int64 = IF u >= H THEN u - M ELSE u
  BY DEF Uint64, Int64, Signed, bits, M, H
<1> HIDE DEF u
<1>7. u \in 0 .. L - 1
  BY <1>2, <1>5
<1>8. CASE Int64 < 0
  <2> DEFINE x == (((-Int64) - 1) % L) + 1
  <2>1. Int64 \in Int
    BY <1>2, <1>5, <1>6
  <2>2. x \in Int
    BY <1>2, <1>3, <2>1
  <2>3. Magnitude(Int64) = x % L
    BY <1>8 DEF Magnitude, Negated, L
  <2> HIDE DEF x
  <2>4. x % L \in 0 .. L - 1
    BY <1>2, <1>3, <2>2
  <2> QED BY <1>6, <1>7, <2>3, <2>4 DEF L
<1>9. CASE ~(Int64 < 0)
  <2>1. Int64 = u
    BY <1>2, <1>5, <1>6, <1>9
  <2> QED BY <1>6, <1>7, <1>9, <2>1 DEF Magnitude, L
<1> QED BY <1>8, <1>9

-----------------------------------------------------------------------------
(* The format, character by character. *)

Text == [in |-> "text", ap |-> 1]

(* What comes before each of the first n characters. *)
Scans(g, fmt, n) ==
  g = [p \in 1 .. n |-> IF p = 1 THEN Text ELSE Reads(g[p - 1], fmt[p - 1])]

(* It exists: by least counterexample. *)
LEMMA ScansExist == ASSUME NEW fmt PROVE \A n \in Nat : \E g : Scans(g, fmt, n)
<1> DEFINE T == {n \in Nat : ~ \E g : Scans(g, fmt, n)}
<1> SUFFICES ASSUME T # {} PROVE FALSE
  OBVIOUS
<1>1. PICK n \in T : \A i \in T : ~(i < n)
  <2>1. T \subseteq Nat
    OBVIOUS
  <2> HIDE DEF T
  <2> QED BY <2>1, LeastNumber
<1>2. n \in Nat /\ ~ \E g : Scans(g, fmt, n)
  OBVIOUS
<1>3. n # 0
  <2> DEFINE g0 == [p \in 1 .. 0 |-> Text]
  <2>1. g0 = [p \in 1 .. 0 |-> IF p = 1 THEN Text ELSE Reads(g0[p - 1], fmt[p - 1])]
    OBVIOUS
  <2>2. Scans(g0, fmt, 0)
    BY <2>1 DEF Scans
  <2> QED BY <1>2, <2>2
<1>4. n - 1 \in Nat /\ n - 1 < n
  BY <1>2, <1>3
<1>5. PICK g : Scans(g, fmt, n - 1)
  BY <1>1, <1>4
<1> DEFINE last == IF n = 1 THEN Text ELSE Reads(g[n - 1], fmt[n - 1])
           h == [p \in 1 .. n |-> IF p <= n - 1 THEN g[p] ELSE last]
<1>6. ASSUME NEW p \in 1 .. n
      PROVE  h[p] = IF p = 1 THEN Text ELSE Reads(h[p - 1], fmt[p - 1])
  <2>1. p # 1 => p - 1 \in 1 .. n /\ p - 1 <= n - 1 /\ h[p - 1] = g[p - 1]
    BY <1>2
  <2>2. CASE p <= n - 1
    <3>1. p \in 1 .. n - 1 /\ h[p] = g[p]
      BY <1>2, <2>2
    <3>2. g[p] = IF p = 1 THEN Text ELSE Reads(g[p - 1], fmt[p - 1])
      BY <1>5, <3>1 DEF Scans
    <3> QED BY <2>1, <3>1, <3>2
  <2>3. CASE p = n
    <3>1. h[p] = last
      BY <1>2, <2>3
    <3> HIDE DEF h
    <3> QED BY <2>1, <2>3, <3>1
  <2> QED BY <1>2, <2>2, <2>3
<1>7. Scans(h, fmt, n)
  <2>1. h = [p \in 1 .. n |-> h[p]]
    OBVIOUS
  <2> HIDE DEF h
  <2> QED BY <1>6, <2>1 DEF Scans
<1> QED BY <1>2, <1>7

LEMMA BeforeReads ==
  ASSUME NEW fmt, Len(fmt) \in Nat
  PROVE  /\ Before(fmt)[1] = Text
         /\ \A p \in 1 .. Len(fmt) : Before(fmt)[p + 1] = Reads(Before(fmt)[p], fmt[p])
<1> DEFINE n == Len(fmt) + 1
           g == CHOOSE f : Scans(f, fmt, n)
<1>1. Scans(g, fmt, n)
  <2>1. \E f : Scans(f, fmt, n)
    BY ScansExist
  <2> HIDE DEF n
  <2> QED BY <2>1
<1>2. Before(fmt) = g
  BY DEF Before, Scans, Text
<1> HIDE DEF g
<1>3. \A p \in 1 .. Len(fmt) : p + 1 \in 1 .. n /\ p + 1 # 1 /\ (p + 1) - 1 = p
  OBVIOUS
<1>4. 1 \in 1 .. n
  OBVIOUS
<1> HIDE DEF n
<1>5. g[1] = Text
  BY <1>1, <1>4 DEF Scans
<1>6. \A p \in 1 .. Len(fmt) : g[p + 1] = Reads(g[p], fmt[p])
  BY <1>1, <1>3 DEF Scans
<1> QED BY <1>2, <1>5, <1>6

(* What each kind of character does. *)
LEMMA ReadsCases ==
  ASSUME NEW ap \in Nat, NEW c
  PROVE  /\ c # "%" => Reads([in |-> "text", ap |-> ap], c) = [in |-> "text", ap |-> ap]
         /\ Reads([in |-> "text", ap |-> ap], "%") = [in |-> "spec", ap |-> ap]
         /\ IsDigit(c) => Reads([in |-> "spec", ap |-> ap], c) = [in |-> "spec", ap |-> ap]
         /\ c \in {"l", "z"} => Reads([in |-> "spec", ap |-> ap], c) = [in |-> "long", ap |-> ap]
         /\ Reads([in |-> "long", ap |-> ap], "l") = [in |-> "longlong", ap |-> ap]
         /\ \A part \in {"spec", "long", "longlong"} :
              Completes([in |-> part, ap |-> ap], c) =>
                Reads([in |-> part, ap |-> ap], c)
                  = [in |-> "text", ap |-> IF c \in Taking THEN ap + 1 ELSE ap]
<1>1. ~IsDigit("l") /\ ~IsDigit("z")
  BY DEF IsDigit, Numerals, Range
<1> QED BY <1>1 DEF Reads, Completes

-----------------------------------------------------------------------------
(* The inductive invariant: where the scan is in the format decides what    *)
(* comes before the next character, and so which argument is next.          *)

Locals == [pc : {"scan", "flag", "width", "length", "convert", "done"}, p : Nat,
           zero_pad : BOOLEAN, width : Int, is64 : BOOLEAN, ap : Nat]

InPart(part) == Before(call.fmt)[loc.p] = [in |-> part, ap |-> loc.ap]

PrintfInv ==
  /\ call \in Calls /\ loc \in Locals
  /\ loc.p \in 1 .. Len(call.fmt) + 1 /\ loc.ap <= Len(call.args) + 1
  /\ loc.pc = "scan" => InPart("text")
  /\ loc.pc \in {"flag", "width", "length"} => InPart("spec")
  /\ loc.pc = "length" => ~IsDigit(CharAt(loc.p))
  /\ loc.pc = "convert" =>
       \E part \in {"spec", "long", "longlong"} :
         InPart(part) /\ Completes([in |-> part, ap |-> loc.ap], CharAt(loc.p))

(* The terminator is the only NUL and no part of a conversion. *)
LEMMA CallFacts ==
  ASSUME NEW k \in Calls
  PROVE  /\ Len(k.fmt) \in Nat /\ Len(k.args) \in Nat
         /\ \A p \in 1 .. Len(k.fmt) : k.fmt[p] # NUL
         /\ PassesArguments(k)
<1>1. k.fmt \in Seq(Range(k.fmt) \ {NUL}) /\ Len(k.args) \in Nat /\ PassesArguments(k)
  BY CallsAssumption
<1> DEFINE C == Range(k.fmt) \ {NUL}
<1>2. NUL \notin C
  OBVIOUS
<1> HIDE DEF C
<1>3. k.fmt \in Seq(C)
  BY <1>1 DEF C
<1> QED BY <1>1, <1>2, <1>3

(* Past the terminator there is nothing to read. *)
LEMMA CharFacts ==
  ASSUME PrintfInv, NEW p \in 1 .. Len(call.fmt) + 1
  PROVE  /\ CharAt(p) = NUL <=> p = Len(call.fmt) + 1
         /\ CharAt(p) # NUL => p \in 1 .. Len(call.fmt) /\ CharAt(p) = call.fmt[p]
         /\ ~IsDigit(NUL) /\ NUL \notin {"l", "z", "%"} /\ NUL \notin Taking
<1>1. Len(call.fmt) \in Nat /\ \A q \in 1 .. Len(call.fmt) : call.fmt[q] # NUL
  BY CallFacts DEF PrintfInv
<1>2. ~IsDigit(NUL) /\ NUL \notin {"l", "z", "%"} /\ NUL \notin Taking
  BY DEF IsDigit, Numerals, Range, NUL, Taking, Integral
<1> QED BY <1>1, <1>2 DEF CharAt

(* The value of a numeral. *)
LEMMA ValueInt == ASSUME NEW c, IsDigit(c) PROVE ValueOf(c) \in Int
<1>1. DOMAIN Numerals = 1 .. 10
  BY DEF Numerals
<1>2. \E i \in DOMAIN Numerals : Numerals[i] = c
  BY DEF IsDigit, Range
<1> DEFINE i == CHOOSE i \in DOMAIN Numerals : Numerals[i] = c
<1>3. i \in DOMAIN Numerals
  BY <1>2
<1>4. ValueOf(c) = i - 1
  BY DEF ValueOf
<1> HIDE DEF i
<1>5. i \in 1 .. 10
  BY <1>1, <1>3
<1>6. i - 1 \in Int
  BY <1>5
<1> QED BY <1>4, <1>6

(* To changes the place and the state of the scan only. *)
LEMMA ToFacts ==
  ASSUME loc \in Locals, NEW q \in Nat,
         NEW pc \in {"scan", "flag", "width", "length", "convert", "done"}
  PROVE  /\ To(q, pc) \in Locals /\ To(q, pc).p = q /\ To(q, pc).pc = pc
         /\ To(q, pc).ap = loc.ap /\ To(q, pc).width = loc.width
  BY DEF To, Locals

(* The other locals. *)
LEMMA SettingFacts ==
  ASSUME NEW r \in Locals
  PROVE  /\ LET z == [r EXCEPT !.zero_pad = TRUE]
            IN  z \in Locals /\ z.p = r.p /\ z.pc = r.pc /\ z.ap = r.ap
         /\ LET l == [r EXCEPT !.is64 = TRUE]
            IN  l \in Locals /\ l.p = r.p /\ l.pc = r.pc /\ l.ap = r.ap
         /\ \A v \in Int :
              LET w == [r EXCEPT !.width = v]
              IN  w \in Locals /\ w.p = r.p /\ w.pc = r.pc /\ w.ap = r.ap
         /\ \A v \in Nat :
              LET a == [r EXCEPT !.ap = v]
              IN  a \in Locals /\ a.p = r.p /\ a.pc = r.pc /\ a.ap = v
  BY DEF Locals

(* The scan starts before the first character. *)
LEMMA PrintfInitInv == PrintfInit => PrintfInv
<1> SUFFICES ASSUME PrintfInit PROVE PrintfInv
  OBVIOUS
<1>1. call \in Calls /\ Len(call.fmt) \in Nat /\ Len(call.args) \in Nat
  BY CallFacts DEF PrintfInit
<1>2. loc \in Locals /\ loc.pc = "scan" /\ loc.p = 1 /\ loc.ap = 1
  BY DEF PrintfInit, Start, Locals
<1>3. Before(call.fmt)[1] = Text
  BY <1>1, BeforeReads
<1> QED BY <1>1, <1>2, <1>3 DEF PrintfInv, InPart, Text

(* Each step of the scan follows the format. *)
LEMMA PrintfNextInv == PrintfInv /\ [PrintfNext]_printfVars => PrintfInv'
<1> SUFFICES ASSUME PrintfInv, [PrintfNext]_printfVars PROVE PrintfInv'
  OBVIOUS
<1> DEFINE B == Before(call.fmt)
           c == CharAt(loc.p)
           N == Len(call.fmt)
<1>1. /\ call \in Calls /\ loc \in Locals /\ N \in Nat /\ Len(call.args) \in Nat
      /\ loc.p \in 1 .. N + 1 /\ loc.ap \in Nat /\ loc.ap <= Len(call.args) + 1
      /\ loc.p \in Nat /\ loc.p + 1 \in Nat /\ loc.p + 2 \in Nat /\ loc.ap + 1 \in Nat
  <2>1. call \in Calls /\ loc \in Locals /\ N \in Nat /\ Len(call.args) \in Nat
    BY CallFacts DEF PrintfInv
  <2>2. loc.p \in 1 .. N + 1 /\ loc.ap \in Nat /\ loc.ap <= Len(call.args) + 1
    BY <2>1 DEF PrintfInv, Locals
  <2> QED BY <2>1, <2>2
<1>2. \A p \in 1 .. N : B[p + 1] = Reads(B[p], call.fmt[p])
  BY <1>1, BeforeReads
<1>3. /\ c # NUL => loc.p \in 1 .. N /\ c = call.fmt[loc.p]
      /\ ~IsDigit(NUL) /\ NUL \notin {"l", "z", "%"} /\ NUL \notin Taking
  BY <1>1, CharFacts
<1>4. c # NUL => loc.p + 1 \in 1 .. N + 1 /\ B[loc.p + 1] = Reads(B[loc.p], c)
  BY <1>1, <1>2, <1>3
<1> HIDE DEF B, c, N
<1>5. CASE Literal
  <2>1. /\ loc.pc = "scan" /\ c # NUL /\ c # "%" /\ call' = call
        /\ loc' = To(loc.p + 1, "scan")
    BY <1>5 DEF Literal, c
  <2>2. /\ loc' \in Locals /\ loc'.pc = "scan" /\ loc'.p = loc.p + 1 /\ loc'.ap = loc.ap
    BY <1>1, <2>1, ToFacts
  <2>3. B[loc.p] = [in |-> "text", ap |-> loc.ap]
    BY <2>1 DEF PrintfInv, InPart, B
  <2>4. B[loc'.p] = [in |-> "text", ap |-> loc'.ap]
    <3>1. B[loc.p + 1] = [in |-> "text", ap |-> loc.ap]
      <4>1. Reads([in |-> "text", ap |-> loc.ap], c) = [in |-> "text", ap |-> loc.ap]
        BY <1>1, <2>1, ReadsCases
      <4> QED BY <1>4, <2>1, <2>3, <4>1
    <3> QED BY <2>2, <3>1
  <2> QED BY <1>1, <1>4, <2>1, <2>2, <2>4 DEF PrintfInv, InPart, B, N
<1>6. CASE Percent
  <2>1. /\ loc.pc = "scan" /\ c = "%" /\ call' = call
        /\ loc' = [Start EXCEPT !.p = loc.p + 1, !.ap = loc.ap, !.pc = "flag"]
    BY <1>6 DEF Percent, c
  <2>2. /\ loc' \in Locals /\ loc'.pc = "flag" /\ loc'.p = loc.p + 1 /\ loc'.ap = loc.ap
    <3> DEFINE q == loc.p + 1
               a == loc.ap
    <3>1. q \in Nat /\ a \in Nat
      BY <1>1
    <3>2. loc' = [Start EXCEPT !.p = q, !.ap = a, !.pc = "flag"]
      BY <2>1
    <3> HIDE DEF q, a
    <3>3. loc' = [pc |-> "flag", p |-> q, zero_pad |-> FALSE, width |-> 0,
                  is64 |-> FALSE, ap |-> a]
      BY <3>2 DEF Start
    <3>4. loc' \in Locals /\ loc'.pc = "flag" /\ loc'.p = q /\ loc'.ap = a
      BY <3>1, <3>3 DEF Locals
    <3> QED BY <3>4 DEF q, a
  <2>3. B[loc.p] = [in |-> "text", ap |-> loc.ap]
    BY <2>1 DEF PrintfInv, InPart, B
  <2>4. c # NUL
    BY <1>3, <2>1
  <2>5. B[loc'.p] = [in |-> "spec", ap |-> loc'.ap]
    <3>1. B[loc.p + 1] = [in |-> "spec", ap |-> loc.ap]
      BY <1>1, <1>4, <2>1, <2>3, <2>4, ReadsCases
    <3> QED BY <2>2, <3>1
  <2> QED BY <1>1, <1>4, <2>1, <2>2, <2>4, <2>5 DEF PrintfInv, InPart, B, N
<1>7. CASE Flag \/ Width
  <2>1. loc.pc \in {"flag", "width"} /\ call' = call
    BY <1>7 DEF Flag, Width
  <2>2. B[loc.p] = [in |-> "spec", ap |-> loc.ap]
    BY <2>1 DEF PrintfInv, InPart, B
  <2>3. \/ /\ IsDigit(c) /\ loc'.p = loc.p + 1 /\ loc'.ap = loc.ap /\ loc' \in Locals
           /\ loc'.pc = "width"
        \/ /\ loc'.p = loc.p /\ loc'.ap = loc.ap /\ loc' \in Locals
           /\ loc'.pc = "width" \/ (loc'.pc = "length" /\ ~IsDigit(c))
    <3>1. IsDigit("0")
      BY DEF IsDigit, Numerals, Range
    <3>2. CASE Flag
      <4>1. CASE c = "0"
        <5> DEFINE r == To(loc.p + 1, "width")
        <5>1. loc' = [r EXCEPT !.zero_pad = TRUE]
          BY <3>2, <4>1 DEF Flag, c
        <5>2. r \in Locals /\ r.p = loc.p + 1 /\ r.pc = "width" /\ r.ap = loc.ap
          BY <1>1, ToFacts
        <5> HIDE DEF r
        <5> QED BY <3>1, <4>1, <5>1, <5>2, SettingFacts
      <4>2. CASE c # "0"
        <5>1. loc' = To(loc.p, "width")
          BY <3>2, <4>2 DEF Flag, c
        <5> QED BY <1>1, <5>1, ToFacts
      <4> QED BY <4>1, <4>2
    <3>3. CASE Width /\ IsDigit(c)
      <4> DEFINE r == To(loc.p + 1, "width")
                 v == r.width * 10 + ValueOf(c)
      <4>1. loc' = [r EXCEPT !.width = v]
        BY <3>3 DEF Width, c
      <4>2. r \in Locals /\ r.p = loc.p + 1 /\ r.pc = "width" /\ r.ap = loc.ap
        BY <1>1, ToFacts
      <4>3. v \in Int
        <5>1. ValueOf(c) \in Int
          BY <3>3, ValueInt
        <5>2. r.width \in Int
          BY <4>2 DEF Locals
        <5> HIDE DEF r
        <5> QED BY <5>1, <5>2
      <4> HIDE DEF r, v
      <4> QED BY <3>3, <4>1, <4>2, <4>3, SettingFacts
    <3>4. CASE Width /\ ~IsDigit(c)
      <4>1. loc' = To(loc.p, "length")
        BY <3>4 DEF Width, c
      <4> QED BY <1>1, <3>4, <4>1, ToFacts
    <3> QED BY <1>7, <3>2, <3>3, <3>4
  <2>4. CASE /\ IsDigit(c) /\ loc'.p = loc.p + 1 /\ loc'.ap = loc.ap /\ loc' \in Locals
             /\ loc'.pc = "width"
    <3>1. c # NUL
      BY <1>3, <2>4
    <3>2. B[loc'.p] = [in |-> "spec", ap |-> loc'.ap]
      <4>1. B[loc.p + 1] = [in |-> "spec", ap |-> loc.ap]
        <5>1. Reads([in |-> "spec", ap |-> loc.ap], c) = [in |-> "spec", ap |-> loc.ap]
          BY <1>1, <2>4, ReadsCases
        <5> QED BY <1>4, <2>2, <3>1, <5>1
      <4> QED BY <2>4, <4>1
    <3> QED BY <1>1, <1>4, <2>1, <2>4, <3>1, <3>2 DEF PrintfInv, InPart, B, N
  <2>5. CASE /\ loc'.p = loc.p /\ loc'.ap = loc.ap /\ loc' \in Locals
             /\ loc'.pc = "width" \/ (loc'.pc = "length" /\ ~IsDigit(c))
    <3>1. B[loc'.p] = [in |-> "spec", ap |-> loc'.ap]
      BY <2>2, <2>5
    <3>2. (CharAt(loc.p))' = c
      BY <2>1, <2>5 DEF CharAt, c
    <3> QED BY <1>1, <2>1, <2>5, <3>1, <3>2 DEF PrintfInv, InPart, B, N
  <2> QED BY <2>3, <2>4, <2>5
<1>8. CASE Length
  <2>1. /\ loc.pc = "length" /\ call' = call /\ ~IsDigit(c)
        /\ B[loc.p] = [in |-> "spec", ap |-> loc.ap]
    BY <1>8 DEF Length, PrintfInv, InPart, B, c
  <2>2. CASE c \notin {"l", "z"}
    <3>1. /\ loc' \in Locals /\ loc'.p = loc.p /\ loc'.ap = loc.ap /\ loc'.pc = "convert"
      <4>1. loc' = To(loc.p, "convert")
        BY <1>8, <2>2 DEF Length, c
      <4> QED BY <1>1, <4>1, ToFacts
    <3>2. (CharAt(loc.p))' = c
      BY <2>1, <3>1 DEF CharAt, c
    <3>3. Completes([in |-> "spec", ap |-> loc'.ap], c)
      BY <2>1, <2>2 DEF Completes
    <3>4. B[loc'.p] = [in |-> "spec", ap |-> loc'.ap]
      BY <2>1, <3>1
    <3> QED BY <1>1, <2>1, <3>1, <3>2, <3>3, <3>4 DEF PrintfInv, InPart, B, N
  <2>3. CASE c \in {"l", "z"}
    <3>1. c # NUL
      BY <1>3, <2>3
    <3>2. loc.p + 1 \in 1 .. N + 1 /\ B[loc.p + 1] = [in |-> "long", ap |-> loc.ap]
      BY <1>1, <1>4, <2>1, <2>3, <3>1, ReadsCases
    <3>3. CASE CharAt(loc.p + 1) = "l"
      <4>1. /\ loc' \in Locals /\ loc'.p = loc.p + 2 /\ loc'.ap = loc.ap
            /\ loc'.pc = "convert"
        <5> DEFINE r == To(loc.p + 2, "convert")
        <5>1. loc' = [r EXCEPT !.is64 = TRUE]
          BY <1>8, <2>3, <3>3 DEF Length, c
        <5>2. r \in Locals /\ r.p = loc.p + 2 /\ r.pc = "convert" /\ r.ap = loc.ap
          BY <1>1, ToFacts
        <5> HIDE DEF r
        <5> QED BY <5>1, <5>2, SettingFacts
      <4>2. loc.p + 1 \in 1 .. N /\ call.fmt[loc.p + 1] = "l"
        BY <1>1, <1>3, <3>2, <3>3, CharFacts DEF N
      <4>3. loc.p + 2 \in 1 .. N + 1 /\ (loc.p + 1) + 1 = loc.p + 2
        BY <1>1, <4>2
      <4>4. B[loc'.p] = [in |-> "longlong", ap |-> loc'.ap]
        BY <1>1, <1>2, <3>2, <4>1, <4>2, <4>3, ReadsCases
      <4>5. \A d : Completes([in |-> "longlong", ap |-> loc'.ap], d)
        BY DEF Completes
      <4> QED BY <1>1, <2>1, <4>1, <4>3, <4>4, <4>5 DEF PrintfInv, InPart, B, N
    <3>4. CASE CharAt(loc.p + 1) # "l"
      <4>1. /\ loc' \in Locals /\ loc'.p = loc.p + 1 /\ loc'.ap = loc.ap
            /\ loc'.pc = "convert"
        <5> DEFINE r == To(loc.p + 1, "convert")
        <5>1. loc' = [r EXCEPT !.is64 = TRUE]
          BY <1>8, <2>3, <3>4 DEF Length, c
        <5>2. r \in Locals /\ r.p = loc.p + 1 /\ r.pc = "convert" /\ r.ap = loc.ap
          BY <1>1, ToFacts
        <5> HIDE DEF r
        <5> QED BY <5>1, <5>2, SettingFacts
      <4>2. (CharAt(loc.p))' = CharAt(loc.p + 1)
        BY <2>1, <4>1 DEF CharAt
      <4>3. Completes([in |-> "long", ap |-> loc'.ap], CharAt(loc.p + 1))
        BY <3>4 DEF Completes
      <4>4. B[loc'.p] = [in |-> "long", ap |-> loc'.ap]
        BY <3>2, <4>1
      <4> QED BY <1>1, <2>1, <3>2, <4>1, <4>2, <4>3, <4>4 DEF PrintfInv, InPart, B, N
    <3> QED BY <3>3, <3>4
  <2> QED BY <2>2, <2>3
<1>9. CASE Convert
  <2>1. loc.pc = "convert" /\ call' = call
    BY <1>9 DEF Convert
  <2>2. PICK part \in {"spec", "long", "longlong"} :
          /\ B[loc.p] = [in |-> part, ap |-> loc.ap]
          /\ Completes([in |-> part, ap |-> loc.ap], c)
    BY <2>1 DEF PrintfInv, InPart, B, c
  <2>3. CASE c = NUL
    <3>1. /\ loc' \in Locals /\ loc'.p = loc.p /\ loc'.ap = loc.ap /\ loc'.pc = "done"
      <4> DEFINE r == To(loc.p, "done")
      <4>1. loc' = [r EXCEPT !.ap = r.ap]
        BY <1>3, <1>9, <2>3 DEF Convert, AfterConversion, c
      <4>2. r \in Locals /\ r.p = loc.p /\ r.pc = "done" /\ r.ap = loc.ap
        BY <1>1, ToFacts
      <4> HIDE DEF r
      <4> QED BY <1>1, <4>1, <4>2, SettingFacts
    <3> QED BY <1>1, <2>1, <3>1 DEF PrintfInv, N
  <2>4. CASE c # NUL
    <3>1. /\ loc' \in Locals /\ loc'.p = loc.p + 1 /\ loc'.pc = "scan"
          /\ loc'.ap = IF c \in Taking THEN loc.ap + 1 ELSE loc.ap
      <4> DEFINE r == To(loc.p + 1, "scan")
                 a == IF c \in Taking THEN r.ap + 1 ELSE r.ap
      <4>1. loc' = [r EXCEPT !.ap = a]
        BY <1>9, <2>4 DEF Convert, AfterConversion, c
      <4>2. r \in Locals /\ r.p = loc.p + 1 /\ r.pc = "scan" /\ r.ap = loc.ap
        BY <1>1, ToFacts
      <4>3. a \in Nat /\ a = IF c \in Taking THEN loc.ap + 1 ELSE loc.ap
        BY <1>1, <4>2
      <4> HIDE DEF r, a
      <4> QED BY <4>1, <4>2, <4>3, SettingFacts
    <3>2. B[loc'.p] = [in |-> "text", ap |-> loc'.ap]
      <4>1. Reads([in |-> part, ap |-> loc.ap], c)
              = [in |-> "text", ap |-> IF c \in Taking THEN loc.ap + 1 ELSE loc.ap]
        BY <1>1, <2>2, ReadsCases
      <4>2. B[loc.p + 1] = [in |-> "text", ap |-> IF c \in Taking THEN loc.ap + 1 ELSE loc.ap]
        BY <1>4, <2>2, <2>4, <4>1
      <4> QED BY <3>1, <4>2
    <3>3. c \in Taking => loc.ap <= Len(call.args)
      <4>1. PassesArguments(call)
        BY <1>1, CallFacts
      <4>2. /\ loc.p \in 1 .. Len(call.fmt) /\ c = call.fmt[loc.p]
            /\ Completes(B[loc.p], call.fmt[loc.p]) /\ B[loc.p].ap = loc.ap
        BY <1>3, <2>2, <2>4 DEF N
      <4> QED BY <4>1, <4>2 DEF PassesArguments, B
    <3>4. loc'.ap <= Len(call'.args) + 1
      BY <1>1, <2>1, <3>1, <3>3
    <3> QED BY <1>1, <1>4, <2>1, <2>4, <3>1, <3>2, <3>4 DEF PrintfInv, InPart, B, N
  <2> QED BY <2>3, <2>4
<1>10. CASE Finish
  <2>1. /\ call' = call /\ loc' \in Locals /\ loc'.p = loc.p /\ loc'.ap = loc.ap
        /\ loc'.pc = "done"
    BY <1>1, <1>10, ToFacts DEF Finish
  <2> QED BY <1>1, <2>1 DEF PrintfInv, N
<1>11. CASE UNCHANGED printfVars
  BY <1>11 DEF printfVars, PrintfInv, InPart, CharAt
<1> QED BY <1>5, <1>6, <1>7, <1>8, <1>9, <1>10, <1>11 DEF PrintfNext, Returned

(* The scan's place in the format, its part of a conversion and the next    *)
(* argument always agree with the characters already read.                  *)
THEOREM PrintfInvariant == PrintfSpec => []PrintfInv
<1>1. PrintfInit => PrintfInv
  BY PrintfInitInv
<1>2. PrintfInv /\ [PrintfNext]_printfVars => PrintfInv'
  BY PrintfNextInv
<1> QED BY <1>1, <1>2, PTL DEF PrintfSpec

(* vga_printf never reads past the terminator nor takes an argument that    *)
(* was not passed, and the digits of every number fit the array of          *)
(* vga_put_uint: whatever the format, wherever it breaks off, at any width  *)
(* of the integers.                                                         *)
THEOREM PrintfInside == PrintfSpec => []StaysInside
<1>1. PrintfInv => StaysInside
  <2> SUFFICES ASSUME PrintfInv PROVE StaysInside
    OBVIOUS
  <2>1. /\ call \in Calls /\ loc \in Locals /\ loc.p \in 1 .. Len(call.fmt) + 1
        /\ loc.ap <= Len(call.args) + 1 /\ Len(call.fmt) \in Nat
    BY CallFacts DEF PrintfInv
  <2> DEFINE c == CharAt(loc.p)
             value == IF c = "d" THEN Magnitude(Int64)
                      ELSE IF c = "p" THEN Slot ELSE Uint64
             base == IF c \in {"d", "u"} THEN 10 ELSE 16
  <2>2. ASSUME loc.pc = "convert", c \in Integral
        PROVE  Len(DigitsOf(value, base, c = "X")) <= DIGITS
    <3>1. c # NUL
      BY <2>2, CharFacts, <2>1 DEF Taking
    <3>2. loc.p \in 1 .. Len(call.fmt) /\ c = call.fmt[loc.p]
      BY <2>1, <3>1, CharFacts
    <3>3. /\ Completes(Before(call.fmt)[loc.p], call.fmt[loc.p])
          /\ Before(call.fmt)[loc.p].ap = loc.ap
      BY <2>2, <3>2 DEF PrintfInv, InPart
    <3>4. Slot \in 0 .. 2 ^ LONG_BITS - 1
      <4>1. PassesArguments(call)
        BY <2>1, CallFacts
      <4>2. call.fmt[loc.p] \in Integral /\ call.fmt[loc.p] \in Taking
        BY <2>2, <3>2 DEF Taking
      <4> QED BY <3>2, <3>3, <4>1, <4>2 DEF PassesArguments, Slot
    <3>5. Uint64 \in 0 .. 2 ^ LONG_BITS - 1 /\ Magnitude(Int64) \in 0 .. 2 ^ LONG_BITS - 1
      BY <3>4, WordFacts
    <3>6. value \in 0 .. 2 ^ LONG_BITS - 1 /\ base \in {10, 16}
      BY <3>4, <3>5
    <3> HIDE DEF value, base
    <3> QED BY <3>6, DigitsFit
  <2>3. loc.p <= Len(call.fmt) + 1
    BY <2>1
  <2> QED BY <2>1, <2>2, <2>3 DEF StaysInside
<1> QED BY <1>1, PrintfInvariant, PTL
=============================================================================
