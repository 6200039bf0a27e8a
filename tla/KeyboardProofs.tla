--------------------------- MODULE KeyboardProofs ---------------------------
(* Proofs about the keyboard driver for every buffer size of at least two   *)
(* slots and every pair of look-up tables.                                  *)
EXTENDS Keys, SequenceTheorems, TLAPS

-----------------------------------------------------------------------------
(* The ring. *)

(* Advancing an index by one wraps at the end of the buffer. *)
LEMMA WrapMeaning ==
  ASSUME NEW i \in Slots
  PROVE  Wrap(i + 1) = IF i + 1 = KB_BUF_SIZE THEN 0 ELSE i + 1
  BY BufSizeAssumption DEF Slots, Wrap

KbType(k) ==
  k \in [buf : [Slots -> Chars \cup {NUL}], head : Slots, tail : Slots,
         shift_left : BOOLEAN, shift_right : BOOLEAN, e0_prefix : BOOLEAN]

(* The ring of a well-typed driver is a sequence of slot contents. *)
LEMMA RingType ==
  ASSUME NEW k, KbType(k)
  PROVE  /\ Count(k) \in 0 .. KB_BUF_SIZE - 1
         /\ \A i \in 0 .. KB_BUF_SIZE - 1 : SlotAt(k, i) \in Slots
         /\ Ring(k) \in Seq(Chars \cup {NUL})
         /\ Len(Ring(k)) = Count(k)
<1>1. k.head \in Slots /\ k.tail \in Slots /\ k.buf \in [Slots -> Chars \cup {NUL}]
  BY DEF KbType
<1>2. Count(k) \in 0 .. KB_BUF_SIZE - 1
  BY <1>1, BufSizeAssumption DEF Count, Slots
<1>3. \A i \in 0 .. KB_BUF_SIZE - 1 : SlotAt(k, i) \in Slots
  BY <1>1, BufSizeAssumption DEF SlotAt, Slots
<1>4. Count(k) \in Nat /\ \A i \in 1 .. Count(k) : i - 1 \in 0 .. KB_BUF_SIZE - 1
  BY <1>2, BufSizeAssumption
<1>5. Ring(k) \in [1 .. Count(k) -> Chars \cup {NUL}]
  BY <1>1, <1>3, <1>4 DEF Ring
<1>6. Ring(k) \in Seq(Chars \cup {NUL}) /\ Len(Ring(k)) = Count(k)
  BY <1>4, <1>5
<1> QED BY <1>2, <1>3, <1>6

(* Storing a character in a ring that is not full appends it; a full ring   *)
(* does not change.                                                         *)
LEMMA EnqueueMeaning ==
  ASSUME NEW k, KbType(k), NEW c \in Chars
  PROVE  /\ KbType(Enqueue(k, c))
         /\ Enqueue(k, c).tail = k.tail
         /\ \/ /\ Count(k) = KB_BUF_SIZE - 1
               /\ Enqueue(k, c) = k
            \/ /\ Count(k) < KB_BUF_SIZE - 1
               /\ Enqueue(k, c).head # k.head
               /\ Ring(Enqueue(k, c)) = Append(Ring(k), c)
               /\ k.head # k.tail => Enqueue(k, c).buf[k.tail] = k.buf[k.tail]
               /\ Enqueue(k, c).head # k.tail
<1> DEFINE next == Wrap(k.head + 1)
           e == [k EXCEPT !.buf[k.head] = c, !.head = next]
<1>1. k.head \in Slots /\ k.tail \in Slots /\ k.buf \in [Slots -> Chars \cup {NUL}]
  BY DEF KbType
<1>2. next = (IF k.head + 1 = KB_BUF_SIZE THEN 0 ELSE k.head + 1) /\ next \in Slots
  BY <1>1, WrapMeaning, BufSizeAssumption DEF Slots
<1>3. CASE next = k.tail
  <2>1. Enqueue(k, c) = k
    BY <1>3 DEF Enqueue
  <2>2. Count(k) = KB_BUF_SIZE - 1
    BY <1>1, <1>2, <1>3, BufSizeAssumption DEF Count, Slots
  <2> QED BY <2>1, <2>2
<1>4. CASE next # k.tail
  <2>1. Enqueue(k, c) = e
    BY <1>4 DEF Enqueue
  <2>2. /\ e.tail = k.tail /\ e.head = next
        /\ e.buf = [k.buf EXCEPT ![k.head] = c]
        /\ KbType(e)
    <3> HIDE DEF next
    <3> QED BY <1>1, <1>2 DEF KbType
  <2> HIDE DEF e
  <2>3. Count(e) = Count(k) + 1 /\ Count(k) < KB_BUF_SIZE - 1 /\ next # k.head
    <3> HIDE DEF next
    <3>1. /\ KB_BUF_SIZE \in Nat /\ KB_BUF_SIZE > 1
          /\ k.head \in Nat /\ k.head < KB_BUF_SIZE
          /\ k.tail \in Nat /\ k.tail < KB_BUF_SIZE
      BY <1>1, BufSizeAssumption DEF Slots
    <3>2. CASE k.head + 1 = KB_BUF_SIZE
      BY <1>2, <1>4, <2>2, <3>1, <3>2 DEF Count
    <3>3. CASE k.head + 1 # KB_BUF_SIZE
      BY <1>2, <1>4, <2>2, <3>1, <3>3 DEF Count
    <3> QED BY <3>2, <3>3
  <2>4. Ring(e) = Append(Ring(k), c)
    <3>1. Count(k) \in Nat /\ Len(Ring(k)) = Count(k) /\ Ring(k) \in Seq(Chars \cup {NUL})
      BY RingType
    <3>2. Ring(e) \in Seq(Chars \cup {NUL}) /\ Len(Ring(e)) = Count(k) + 1
      BY <2>2, <2>3, RingType
    <3>3. ASSUME NEW i \in 1 .. Count(k) + 1
          PROVE  Ring(e)[i] = Append(Ring(k), c)[i]
      <4>1. /\ i - 1 \in 0 .. KB_BUF_SIZE - 1
            /\ SlotAt(e, i - 1) = SlotAt(k, i - 1) /\ SlotAt(k, i - 1) \in Slots
        BY <1>1, <2>2, <2>3, <3>1, RingType, BufSizeAssumption DEF SlotAt
      <4>2. Ring(e)[i] = e.buf[SlotAt(k, i - 1)]
        BY <2>3, <4>1 DEF Ring
      <4>3. CASE i = Count(k) + 1
        <5>1. SlotAt(k, i - 1) = k.head
          BY <1>1, <4>3, BufSizeAssumption DEF SlotAt, Count, Slots
        <5> QED BY <1>1, <2>2, <3>1, <4>2, <4>3, <5>1
      <4>4. CASE i # Count(k) + 1
        <5>1. i \in 1 .. Count(k)
          BY <3>1, <4>4
        <5>2. SlotAt(k, i - 1) # k.head
          BY <1>1, <5>1, BufSizeAssumption DEF SlotAt, Count, Slots
        <5>3. Ring(k)[i] = k.buf[SlotAt(k, i - 1)]
          BY <5>1 DEF Ring
        <5> QED BY <1>1, <2>2, <3>1, <4>1, <4>2, <5>1, <5>2, <5>3
      <4> QED BY <4>3, <4>4
    <3> QED BY <3>1, <3>2, <3>3, SeqEqual
  <2>5. k.head # k.tail => e.buf[k.tail] = k.buf[k.tail]
    BY <1>1, <2>2
  <2> QED
    <3> HIDE DEF next
    <3> QED BY <1>4, <2>1, <2>2, <2>3, <2>4, <2>5
<1> QED BY <1>3, <1>4

(* Advancing the tail of a non-empty ring removes its first character. *)
LEMMA AdvanceMeaning ==
  ASSUME NEW k, KbType(k), k.head # k.tail
  PROVE  LET e == [k EXCEPT !.tail = Wrap(k.tail + 1)]
         IN  /\ KbType(e)
             /\ Ring(k) # <<>>
             /\ Head(Ring(k)) = k.buf[k.tail]
             /\ Ring(e) = Tail(Ring(k))
<1> DEFINE next == Wrap(k.tail + 1)
           e == [k EXCEPT !.tail = next]
<1>1. k.head \in Slots /\ k.tail \in Slots /\ k.buf \in [Slots -> Chars \cup {NUL}]
  BY DEF KbType
<1>2. next = (IF k.tail + 1 = KB_BUF_SIZE THEN 0 ELSE k.tail + 1) /\ next \in Slots
  BY <1>1, WrapMeaning, BufSizeAssumption DEF Slots
<1>3. e.tail = next /\ e.head = k.head /\ e.buf = k.buf /\ KbType(e)
  <2> HIDE DEF next
  <2> QED BY <1>1, <1>2 DEF KbType
<1> HIDE DEF e
<1>4. Count(k) > 0 /\ Count(e) = Count(k) - 1
  <2> HIDE DEF next
  <2>1. /\ KB_BUF_SIZE \in Nat /\ KB_BUF_SIZE > 1
        /\ k.head \in Nat /\ k.head < KB_BUF_SIZE
        /\ k.tail \in Nat /\ k.tail < KB_BUF_SIZE
    BY <1>1, BufSizeAssumption DEF Slots
  <2>2. Count(k) > 0
    BY <2>1 DEF Count
  <2>3. CASE k.tail + 1 = KB_BUF_SIZE
    BY <1>2, <1>3, <2>1, <2>3 DEF Count
  <2>4. CASE k.tail + 1 # KB_BUF_SIZE
    BY <1>2, <1>3, <2>1, <2>4 DEF Count
  <2> QED BY <2>2, <2>3, <2>4
<1>5. Count(k) \in Nat /\ Len(Ring(k)) = Count(k) /\ Ring(k) \in Seq(Chars \cup {NUL})
  BY RingType
<1>6. Ring(e) \in Seq(Chars \cup {NUL}) /\ Len(Ring(e)) = Count(k) - 1
  BY <1>3, <1>4, RingType
<1>7. Ring(k) # <<>> /\ Head(Ring(k)) = k.buf[k.tail]
  <2>1. SlotAt(k, 0) = k.tail
    BY <1>1, BufSizeAssumption DEF SlotAt, Slots
  <2>2. 1 \in 1 .. Count(k)
    BY <1>4, <1>5
  <2>3. Ring(k)[1] = k.buf[k.tail]
    BY <2>1, <2>2 DEF Ring
  <2> QED BY <1>4, <1>5, <2>3
<1>8. ASSUME NEW i \in 1 .. Count(k) - 1
      PROVE  Ring(e)[i] = Tail(Ring(k))[i]
  <2>1. SlotAt(e, i - 1) = SlotAt(k, i)
    <3> HIDE DEF next
    <3>1. i \in Nat /\ i >= 1 /\ i <= KB_BUF_SIZE - 2
      BY <1>5, RingType, BufSizeAssumption
    <3>2. k.tail \in Nat /\ k.tail < KB_BUF_SIZE /\ KB_BUF_SIZE \in Nat
      BY <1>1, BufSizeAssumption DEF Slots
    <3>3. CASE k.tail + 1 = KB_BUF_SIZE
      <4>1. e.tail = 0
        BY <1>2, <1>3, <3>3
      <4>2. SlotAt(e, i - 1) = i - 1
        BY <3>1, <3>2, <4>1 DEF SlotAt
      <4>3. SlotAt(k, i) = i - 1
        BY <3>1, <3>2, <3>3 DEF SlotAt
      <4> QED BY <4>2, <4>3
    <3>4. CASE k.tail + 1 # KB_BUF_SIZE
      <4>1. e.tail = k.tail + 1
        BY <1>2, <1>3, <3>4
      <4>2. e.tail + (i - 1) = k.tail + i
        BY <3>1, <3>2, <4>1
      <4> QED BY <3>1, <3>2, <4>1, <4>2 DEF SlotAt
    <3> QED BY <3>3, <3>4
  <2>2. Ring(e)[i] = k.buf[SlotAt(k, i)]
    BY <1>3, <1>4, <2>1 DEF Ring
  <2>3. i + 1 \in 1 .. Count(k) /\ (i + 1) - 1 = i
    BY <1>5
  <2>4. Ring(k)[i + 1] = k.buf[SlotAt(k, i)]
    BY <2>3 DEF Ring
  <2>5. Tail(Ring(k))[i] = Ring(k)[i + 1]
    BY <1>4, <1>5, <1>7
  <2> QED BY <2>2, <2>4, <2>5
<1>9. Ring(e) = Tail(Ring(k))
  <2>1. Tail(Ring(k)) \in Seq(Chars \cup {NUL}) /\ Len(Tail(Ring(k))) = Count(k) - 1
    BY <1>4, <1>5, <1>7
  <2> QED BY <1>6, <1>8, <2>1, SeqEqual
<1> QED BY <1>3, <1>7, <1>9 DEF e

-----------------------------------------------------------------------------
(* The driver. *)

(* What the handler makes of a byte: it stores the character, or it leaves  *)
(* the ring alone.                                                          *)
LEMMA HandlerMeaning ==
  ASSUME NEW k, KbType(k), NEW sc \in Scancodes
  PROVE  \/ /\ Produces(k, sc)
            /\ CharOf(k, sc.code) \in Chars
            /\ keyboard_handler(k, sc) = Enqueue(k, CharOf(k, sc.code))
         \/ /\ ~Produces(k, sc)
            /\ KbType(keyboard_handler(k, sc))
            /\ keyboard_handler(k, sc).buf = k.buf
            /\ keyboard_handler(k, sc).head = k.head
            /\ keyboard_handler(k, sc).tail = k.tail
<1>1. sc.code \in Codes /\ sc.release \in BOOLEAN
  BY DEF Scancodes
<1>2. CharOf(k, sc.code) \in Chars \cup {NUL}
  BY <1>1, TableAssumption DEF CharOf
<1>3. CASE Produces(k, sc)
  <2>1. CharOf(k, sc.code) \in Chars
    BY <1>2, <1>3 DEF Produces
  <2>2. keyboard_handler(k, sc) = Enqueue(k, CharOf(k, sc.code))
    BY <1>3 DEF Produces, keyboard_handler
  <2> QED BY <1>3, <2>1, <2>2
<1>4. CASE ~Produces(k, sc)
  <2> DEFINE h == keyboard_handler(k, sc)
  <2>1. \/ h = k
        \/ h = [k EXCEPT !.e0_prefix = FALSE]
        \/ h = [k EXCEPT !.e0_prefix = TRUE]
        \/ h = [k EXCEPT !.shift_left = ~sc.release]
        \/ h = [k EXCEPT !.shift_right = ~sc.release]
    BY <1>4 DEF Produces, keyboard_handler
  <2>2. KbType(h) /\ h.buf = k.buf /\ h.head = k.head /\ h.tail = k.tail
    <3> HIDE DEF h
    <3>1. (~sc.release) \in BOOLEAN
      BY <1>1
    <3> QED BY <2>1, <3>1 DEF KbType
  <2> QED BY <1>4, <2>2
<1> QED BY <1>3, <1>4

(* The inductive invariant. *)
KbInv == KbTypeOK /\ GetSafe /\ RingHoldsChars

(* The ring depends on the buffer and the two indices only. *)
LEMMA RingSame ==
  ASSUME NEW k, NEW h, h.buf = k.buf, h.head = k.head, h.tail = k.tail
  PROVE  Ring(h) = Ring(k) /\ Count(h) = Count(k)
<1>1. Count(h) = Count(k)
  BY DEF Count
<1>2. \A i : SlotAt(h, i) = SlotAt(k, i)
  BY DEF SlotAt
<1> QED BY <1>1, <1>2 DEF Ring

(* One step of the driver, seen from the queue. *)
QPut == /\ Count(kb) < KB_BUF_SIZE - 1
        /\ \E c \in Chars : Ring(kb') = Append(Ring(kb), c)
        /\ got' = got /\ lost' = lost
QDrop == Count(kb) = KB_BUF_SIZE - 1 /\ kb' = kb /\ got' = got /\ lost' = TRUE
QGet == /\ Ring(kb) # <<>>
        /\ Ring(kb') = Tail(Ring(kb))
        /\ got' = <<Head(Ring(kb))>>
        /\ lost' = lost
QSame == Ring(kb') = Ring(kb) /\ got' = got /\ lost' = lost

(* One interrupt leaves the tail and the slot at the tail alone, and puts *)
(* one character, drops one or touches neither queue nor flag.            *)
LEMMA HandlerStep ==
  ASSUME KbInv, NEW sc \in Scancodes, Handler(sc)
  PROVE  /\ KbType(kb')
         /\ kb'.tail = kb.tail
         /\ kb.head # kb.tail => /\ kb'.head # kb'.tail
                                 /\ kb'.buf[kb.tail] = kb.buf[kb.tail]
         /\ QPut \/ QDrop \/ QSame
<1>1. KbType(kb) /\ lost \in BOOLEAN
  BY DEF KbInv, KbTypeOK, KbType
<1>2. kb' = keyboard_handler(kb, sc) /\ got' = got
      /\ lost' = (lost \/ (Produces(kb, sc) /\ kb'.head = kb.head))
  BY DEF Handler
<1>3. CASE Produces(kb, sc)
  <2> DEFINE c == CharOf(kb, sc.code)
  <2>1. c \in Chars /\ kb' = Enqueue(kb, c)
    BY <1>1, <1>2, <1>3, HandlerMeaning
  <2> HIDE DEF c
  <2>2. KbType(kb') /\ kb'.tail = kb.tail
    BY <1>1, <2>1, EnqueueMeaning
  <2>3. CASE Count(kb) = KB_BUF_SIZE - 1 /\ kb' = kb
    <3>1. lost' = TRUE
      BY <1>2, <1>3, <2>3
    <3> QED BY <1>2, <2>2, <2>3, <3>1 DEF QDrop
  <2>4. CASE /\ Count(kb) < KB_BUF_SIZE - 1
             /\ kb'.head # kb.head
             /\ Ring(kb') = Append(Ring(kb), c)
             /\ kb.head # kb.tail => kb'.buf[kb.tail] = kb.buf[kb.tail]
             /\ kb'.head # kb.tail
    <3>1. lost' = lost
      BY <1>1, <1>2, <2>4
    <3>2. QPut
      BY <1>2, <2>1, <2>4, <3>1 DEF QPut
    <3> QED BY <2>2, <2>4, <3>2
  <2> QED BY <1>1, <2>1, <2>3, <2>4, EnqueueMeaning
<1>4. CASE ~Produces(kb, sc)
  <2>1. /\ KbType(kb') /\ kb'.buf = kb.buf
        /\ kb'.head = kb.head /\ kb'.tail = kb.tail
    BY <1>1, <1>2, <1>4, HandlerMeaning
  <2>2. lost' = lost
    BY <1>1, <1>2, <1>4
  <2>3. Ring(kb') = Ring(kb)
    BY <2>1, RingSame
  <2> QED BY <1>2, <2>1, <2>2, <2>3 DEF QSame
<1> QED BY <1>3, <1>4

(* The zeroed statics. *)
LEMMA KbInitInv == KbInit => KbInv
<1> SUFFICES ASSUME KbInit PROVE KbInv
  OBVIOUS
<1>1. 0 \in Slots
  BY BufSizeAssumption DEF Slots
<1>2. KbTypeOK
  BY <1>1 DEF KbInit, KbTypeOK
<1>3. Count(kb) = 0
  BY DEF KbInit, Count
<1> QED BY <1>2, <1>3 DEF KbInit, KbInv, GetSafe, RingHoldsChars

(* The ring is non-empty exactly when the indices differ, and then its      *)
(* first character is the one at the tail.                                  *)
LEMMA FirstIsChar ==
  ASSUME KbInv, kb.head # kb.tail
  PROVE  kb.buf[kb.tail] \in Chars
<1>1. KbType(kb)
  BY DEF KbInv, KbTypeOK, KbType
<1>2. Ring(kb) # <<>> /\ Head(Ring(kb)) = kb.buf[kb.tail]
  BY <1>1, AdvanceMeaning
<1>3. Ring(kb) \in Seq(Chars \cup {NUL}) /\ Len(Ring(kb)) = Count(kb)
  BY <1>1, RingType
<1>4. 1 \in 1 .. Count(kb) /\ Head(Ring(kb)) = Ring(kb)[1]
  BY <1>2, <1>3
<1> QED BY <1>2, <1>4 DEF KbInv, RingHoldsChars

(* A queue step on a ring of characters leaves a ring of characters. *)
LEMMA QueueKeepsChars ==
  ASSUME KbInv, KbType(kb'), QPut \/ QDrop \/ QGet \/ QSame
  PROVE  RingHoldsChars'
<1>1. KbType(kb)
  BY DEF KbInv, KbTypeOK, KbType
<1>2. Ring(kb) \in Seq(Chars \cup {NUL}) /\ Len(Ring(kb)) = Count(kb) /\ Count(kb) \in Nat
  BY <1>1, RingType
<1>3. Len(Ring(kb')) = Count(kb') /\ Count(kb') \in Nat
  BY RingType
<1>4. \A i \in 1 .. Count(kb) : Ring(kb)[i] \in Chars
  BY DEF KbInv, RingHoldsChars
<1>5. \A i \in 1 .. Count(kb') : Ring(kb')[i] \in Chars
  <2>1. CASE QPut
    BY <1>2, <1>3, <1>4, <2>1 DEF QPut
  <2>2. CASE QDrop
    BY <1>4, <2>2 DEF QDrop
  <2>3. CASE QGet
    <3>1. Ring(kb') = Tail(Ring(kb)) /\ Ring(kb) # <<>>
      BY <2>3 DEF QGet
    <3> QED BY <1>2, <1>3, <1>4, <3>1
  <2>4. CASE QSame
    BY <1>2, <1>3, <1>4, <2>4 DEF QSame
  <2> QED BY <2>1, <2>2, <2>3, <2>4
<1> QED BY <1>5 DEF RingHoldsChars

(* The last access of kb_get takes the first character of the queue. *)
LEMMA AdvanceStep ==
  ASSUME KbInv, KbAdvance
  PROVE  KbType(kb') /\ QGet
<1>1. KbType(kb)
  BY DEF KbInv, KbTypeOK, KbType
<1>2. kb.head # kb.tail /\ get.c = kb.buf[kb.tail]
  BY DEF KbInv, GetSafe, Empty, KbAdvance
<1>3. kb' = [kb EXCEPT !.tail = Wrap(kb.tail + 1)] /\ got' = <<get.c>> /\ lost' = lost
  BY DEF KbAdvance
<1> QED BY <1>1, <1>2, <1>3, AdvanceMeaning DEF QGet

(* Handler and consumer, in any interleaving. *)
LEMMA KbNextInv == KbInv /\ [KbNext]_kbVars => KbInv'
<1> SUFFICES ASSUME KbInv, [KbNext]_kbVars PROVE KbInv'
  OBVIOUS
<1>1. /\ KbType(kb)
      /\ get \in [pc : {"idle", "read", "advance"}, c : Chars \cup {NUL}]
      /\ got \in {<<>>} \cup {<<c>> : c \in Chars}
      /\ lost \in BOOLEAN
  BY DEF KbInv, KbTypeOK, KbType
<1>2. ASSUME NEW sc \in Scancodes, Handler(sc) PROVE KbInv'
  <2>1. /\ KbType(kb') /\ kb'.tail = kb.tail
        /\ kb.head # kb.tail => /\ kb'.head # kb'.tail
                                /\ kb'.buf[kb.tail] = kb.buf[kb.tail]
        /\ QPut \/ QDrop \/ QSame
    BY <1>2, HandlerStep
  <2>2. get' = get /\ got' = got
    BY <1>2 DEF Handler
  <2>3. lost' \in BOOLEAN
    BY <1>2 DEF Handler
  <2>4. KbTypeOK'
    BY <1>1, <2>1, <2>2, <2>3 DEF KbTypeOK, KbType
  <2>5. GetSafe'
    BY <2>1, <2>2 DEF KbInv, GetSafe, Empty
  <2>6. RingHoldsChars'
    BY <2>1, QueueKeepsChars
  <2> QED BY <2>4, <2>5, <2>6 DEF KbInv
<1>3. CASE KbCheck
  <2>1. kb' = kb /\ got' = got /\ lost' = lost
        /\ get' = [get EXCEPT !.pc = IF Empty THEN "idle" ELSE "read"]
    BY <1>3 DEF KbCheck
  <2>2. KbTypeOK'
    BY <1>1, <2>1 DEF KbTypeOK, KbType
  <2>3. GetSafe'
    BY <1>1, <2>1 DEF GetSafe, Empty
  <2> QED BY <2>1, <2>2, <2>3 DEF KbInv, RingHoldsChars
<1>4. CASE KbRead
  <2>1. kb' = kb /\ got' = got /\ lost' = lost /\ get.pc = "read"
        /\ get' = [pc |-> "advance", c |-> kb.buf[kb.tail]]
    BY <1>4 DEF KbRead
  <2>2. kb.buf[kb.tail] \in Chars \cup {NUL}
    BY <1>1 DEF KbType
  <2>3. KbTypeOK'
    BY <1>1, <2>1, <2>2 DEF KbTypeOK, KbType
  <2>4. GetSafe'
    BY <2>1 DEF KbInv, GetSafe, Empty
  <2> QED BY <2>1, <2>3, <2>4 DEF KbInv, RingHoldsChars
<1>5. CASE KbAdvance
  <2>1. KbType(kb') /\ QGet
    BY <1>5, AdvanceStep
  <2>2. got' = <<get.c>> /\ lost' = lost /\ get' = [get EXCEPT !.pc = "idle"]
    BY <1>5 DEF KbAdvance
  <2>3. get.c \in Chars
    BY <1>5, FirstIsChar DEF KbAdvance, KbInv, GetSafe, Empty
  <2>4. KbTypeOK'
    BY <1>1, <2>1, <2>2, <2>3 DEF KbTypeOK, KbType
  <2>5. GetSafe'
    BY <1>1, <2>2 DEF GetSafe
  <2>6. RingHoldsChars'
    BY <2>1, QueueKeepsChars
  <2> QED BY <2>4, <2>5, <2>6 DEF KbInv
<1>6. CASE UNCHANGED kbVars
  BY <1>6 DEF kbVars, KbInv, KbTypeOK, GetSafe, Empty, RingHoldsChars
<1> QED BY <1>2, <1>3, <1>4, <1>5, <1>6 DEF KbNext

-----------------------------------------------------------------------------
(* The inductive invariant holds in every reachable state. *)
THEOREM KeyboardInvariant == KbSpec => []KbInv
<1>1. KbInit => KbInv
  BY KbInitInv
<1>2. KbInv /\ [KbNext]_kbVars => KbInv'
  BY KbNextInv
<1> QED BY <1>1, <1>2, PTL DEF KbSpec

(* Indices, buffer and state machine keep their types. *)
THEOREM KeyboardTypes == KbSpec => []KbTypeOK
  BY KeyboardInvariant, PTL DEF KbInv

(* Interrupts between the check, the read and the store of kb_get never     *)
(* empty the ring or change the character being returned.                   *)
THEOREM KeyboardGetSafe == KbSpec => []GetSafe
  BY KeyboardInvariant, PTL DEF KbInv

(* Handler and kb_get implement a bounded queue that drops the newest       *)
(* character when full, for every size of the buffer.                       *)
THEOREM KeyboardRefinesFifo == KbSpec => ImplementsFifo
<1>1. KbInit => Fifo!Init
  <2> SUFFICES ASSUME KbInit PROVE Ring(kb) = <<>> /\ got = <<>> /\ lost = FALSE
    BY DEF Fifo!Init
  <2>1. KbType(kb)
    BY KbInitInv DEF KbInv, KbTypeOK, KbType
  <2>2. Count(kb) = 0
    BY DEF KbInit, Count
  <2>3. Ring(kb) = <<>>
    BY <2>1, <2>2, RingType
  <2> QED BY <2>3 DEF KbInit
<1>2. KbInv /\ [KbNext]_kbVars => [Fifo!Next]_(Fifo!fifoVars)
  <2> SUFFICES ASSUME KbInv, [KbNext]_kbVars
               PROVE  [Fifo!Next]_(Fifo!fifoVars)
    OBVIOUS
  <2>0. KbType(kb)
    BY DEF KbInv, KbTypeOK, KbType
  <2>1. QPut \/ QDrop \/ QGet \/ QSame
    <3>1. CASE \E sc \in Scancodes : Handler(sc)
      BY <3>1, HandlerStep
    <3>2. CASE KbCheck \/ KbRead \/ UNCHANGED kbVars
      BY <3>2 DEF KbCheck, KbRead, kbVars, QSame
    <3>3. CASE KbAdvance
      BY <3>3, AdvanceStep
    <3> QED BY <3>1, <3>2, <3>3 DEF KbNext
  <2>2. Len(Ring(kb)) = Count(kb)
    BY <2>0, RingType
  <2>3. CASE QPut
    <3>1. Fifo!Put
      BY <2>2, <2>3 DEF QPut, Fifo!Put
    <3> QED BY <3>1 DEF Fifo!Next
  <2>4. CASE QDrop
    <3>1. Fifo!DropNewest
      BY <2>2, <2>4 DEF QDrop, Fifo!DropNewest
    <3> QED BY <3>1 DEF Fifo!Next
  <2>5. CASE QGet
    <3>1. Fifo!Get
      BY <2>5 DEF QGet, Fifo!Get
    <3> QED BY <3>1 DEF Fifo!Next
  <2>6. CASE QSame
    BY <2>6 DEF QSame, Fifo!fifoVars
  <2> QED BY <2>1, <2>3, <2>4, <2>5, <2>6
<1> QED BY <1>1, <1>2, KeyboardInvariant, PTL DEF KbSpec, ImplementsFifo, Fifo!Spec

-----------------------------------------------------------------------------
(* The driver under a keyboard: module Keys. *)

(* The part of the driver's state that bytes act on, the ring as a queue.   *)
View(k) == [shift_left |-> k.shift_left, shift_right |-> k.shift_right,
            e0_prefix |-> k.e0_prefix, q |-> Ring(k)]
Views == [shift_left : BOOLEAN, shift_right : BOOLEAN, e0_prefix : BOOLEAN,
          q : Seq(Chars)]

(* What a byte does to it as long as the ring has room. *)
Decode(d, sc) ==
  [shift_left |-> IF ~d.e0_prefix /\ sc # E0 /\ sc.code = LSHIFT
                  THEN ~sc.release ELSE d.shift_left,
   shift_right |-> IF ~d.e0_prefix /\ sc # E0 /\ sc.code = RSHIFT
                   THEN ~sc.release ELSE d.shift_right,
   e0_prefix |-> ~d.e0_prefix /\ sc = E0,
   q |-> IF Produces(d, sc) THEN Append(d.q, CharOf(d, sc.code)) ELSE d.q]

(* t begins with s. *)
Begins(s, t) == Len(s) <= Len(t) /\ \A i \in 1 .. Len(s) : t[i] = s[i]

(* tr is the sequence of views that the bytes w lead through. *)
Traces(tr, w) ==
  /\ tr \in [0 .. Len(w) -> Views]
  /\ \A i \in 1 .. Len(w) : tr[i] = Decode(tr[i - 1], w[i])
  /\ \A i, j \in 0 .. Len(w) : i <= j => Begins(tr[i].q, tr[j].q)

(* The bytes w lead from view v to view d. *)
Leads(v, w, d) == \E tr : Traces(tr, w) /\ tr[0] = v /\ tr[Len(w)] = d

(* Where the keyboard is: the Shift keys that are down, all that was typed. *)
Typed == [shift_left |-> LeftShift \in down, shift_right |-> RightShift \in down,
          e0_prefix |-> FALSE, q |-> expect]

(* The inductive invariant: the bytes in flight lead the driver to where    *)
(* the keyboard is.                                                         *)
KeysInv ==
  /\ KbInv
  /\ down \subseteq {LeftShift, RightShift}
  /\ wire \in Seq(Scancodes)
  /\ expect \in Seq(Chars)
  /\ Leads(View(kb), wire, Typed)

(* The driver's view has a type. *)
LEMMA ViewType ==
  ASSUME NEW k, KbType(k), \A i \in 1 .. Count(k) : Ring(k)[i] \in Chars
  PROVE  View(k) \in Views
<1>1. Ring(k) \in Seq(Chars \cup {NUL}) /\ Len(Ring(k)) = Count(k) /\ Count(k) \in Nat
  BY RingType
<1>2. Ring(k) \in [1 .. Count(k) -> Chars]
  BY <1>1
<1>3. Ring(k) \in Seq(Chars)
  BY <1>1, <1>2
<1>4. k.shift_left \in BOOLEAN /\ k.shift_right \in BOOLEAN /\ k.e0_prefix \in BOOLEAN
  BY DEF KbType
<1> QED BY <1>3, <1>4 DEF View, Views

(* A byte keeps the type and only adds to the queue. *)
LEMMA DecodeType ==
  ASSUME NEW d \in Views, NEW sc \in Scancodes
  PROVE  /\ Decode(d, sc) \in Views
         /\ Len(d.q) \in Nat
         /\ Len(d.q) <= Len(Decode(d, sc).q)
         /\ \A i \in 1 .. Len(d.q) : Decode(d, sc).q[i] = d.q[i]
<1>1. /\ sc.code \in Codes /\ sc.release \in BOOLEAN /\ (~sc.release) \in BOOLEAN
      /\ d.shift_left \in BOOLEAN /\ d.shift_right \in BOOLEAN
      /\ d.e0_prefix \in BOOLEAN /\ d.q \in Seq(Chars)
  BY DEF Scancodes, Views
<1>2. CharOf(d, sc.code) \in Chars \cup {NUL}
  BY <1>1, TableAssumption DEF CharOf
<1> DEFINE ch == CharOf(d, sc.code)
           nq == IF Produces(d, sc) THEN Append(d.q, ch) ELSE d.q
           nl == IF ~d.e0_prefix /\ sc # E0 /\ sc.code = LSHIFT
                 THEN ~sc.release ELSE d.shift_left
           nr == IF ~d.e0_prefix /\ sc # E0 /\ sc.code = RSHIFT
                 THEN ~sc.release ELSE d.shift_right
           ne == ~d.e0_prefix /\ sc = E0
<1>3. Produces(d, sc) => ch \in Chars
  BY <1>2 DEF Produces
<1>4. /\ nq \in Seq(Chars) /\ Len(d.q) \in Nat /\ Len(d.q) <= Len(nq)
      /\ \A i \in 1 .. Len(d.q) : nq[i] = d.q[i]
  <2> HIDE DEF ch
  <2>1. CASE Produces(d, sc) BY <1>1, <1>3, <2>1
  <2>2. CASE ~Produces(d, sc) BY <1>1, <2>2
  <2> QED BY <2>1, <2>2
<1>5. nl \in BOOLEAN /\ nr \in BOOLEAN /\ ne \in BOOLEAN
  BY <1>1
<1>6. Decode(d, sc) = [shift_left |-> nl, shift_right |-> nr, e0_prefix |-> ne, q |-> nq]
  BY DEF Decode
<1> HIDE DEF nl, nr, ne, nq
<1> QED BY <1>4, <1>5, <1>6 DEF Views

(* No bytes lead nowhere. *)
LEMMA LeadsNowhere ==
  ASSUME NEW v \in Views
  PROVE  Leads(v, <<>>, v)
<1> DEFINE tr == [i \in 0 .. 0 |-> v]
<1>1. v.q \in Seq(Chars) BY DEF Views
<1>2. Begins(v.q, v.q) BY <1>1 DEF Begins
<1>3. Traces(tr, <<>>) BY <1>2 DEF Traces
<1>4. tr[0] = v OBVIOUS
<1> QED BY <1>3, <1>4 DEF Leads

(* One more byte at the end. *)
LEMMA LeadsOn ==
  ASSUME NEW v, NEW w \in Seq(Scancodes), NEW d, Leads(v, w, d),
         NEW b \in Scancodes
  PROVE  Leads(v, Append(w, b), Decode(d, b))
<1> DEFINE n == Len(w)
<1>1. PICK tr : Traces(tr, w) /\ tr[0] = v /\ tr[n] = d
  BY DEF Leads
<1>2. n \in Nat /\ Len(Append(w, b)) = n + 1 /\ Append(w, b)[n + 1] = b
      /\ \A i \in 1 .. n : Append(w, b)[i] = w[i]
  OBVIOUS
<1>3. tr \in [0 .. n -> Views] /\ d \in Views
  BY <1>1, <1>2 DEF Traces
<1>4. /\ Decode(d, b) \in Views /\ Len(d.q) \in Nat
      /\ Len(d.q) <= Len(Decode(d, b).q)
      /\ \A i \in 1 .. Len(d.q) : Decode(d, b).q[i] = d.q[i]
  BY <1>3, DecodeType
<1> HIDE DEF n
<1> DEFINE t2 == [i \in 0 .. n + 1 |-> IF i <= n THEN tr[i] ELSE Decode(d, b)]
<1>5. t2 \in [0 .. n + 1 -> Views]
  BY <1>2, <1>3, <1>4
<1>6. ASSUME NEW i \in 1 .. n + 1 PROVE t2[i] = Decode(t2[i - 1], Append(w, b)[i])
  <2>1. CASE i <= n
    BY <1>1, <1>2, <2>1 DEF Traces, n
  <2>2. CASE i = n + 1
    BY <1>1, <1>2, <2>2
  <2> QED BY <1>2, <2>1, <2>2
<1>7. ASSUME NEW i \in 0 .. n + 1, NEW j \in 0 .. n + 1, i <= j
      PROVE  Begins(t2[i].q, t2[j].q)
  <2>1. CASE j <= n
    <3>1. Begins(tr[i].q, tr[j].q) BY <1>1, <1>2, <1>7, <2>1 DEF Traces, n
    <3> QED BY <1>2, <1>7, <2>1, <3>1
  <2>2. CASE i <= n /\ j = n + 1
    <3>1. Begins(tr[i].q, tr[n].q) BY <1>1, <1>2, <2>2 DEF Traces, n
    <3>2. t2[i] = tr[i] /\ t2[j] = Decode(d, b) BY <1>2, <2>2
    <3>3. Len(tr[i].q) \in Nat BY <1>2, <1>3, <2>2 DEF Views
    <3>4. Len(Decode(d, b).q) \in Nat BY <1>4 DEF Views
    <3> QED BY <1>1, <1>4, <3>1, <3>2, <3>3, <3>4 DEF Begins
  <2>3. CASE i = n + 1 /\ j = n + 1
    <3>1. t2[i] = t2[j] /\ t2[i].q \in Seq(Chars) BY <1>2, <1>5, <2>3 DEF Views
    <3> QED BY <3>1 DEF Begins
  <2> QED BY <1>2, <1>7, <2>1, <2>2, <2>3
<1>8. Traces(t2, Append(w, b))
  BY <1>2, <1>5, <1>6, <1>7 DEF Traces
<1>9. t2[0] = v /\ t2[n + 1] = Decode(d, b)
  BY <1>1, <1>2
<1> QED BY <1>2, <1>8, <1>9 DEF Leads

(* The first byte taken off. *)
LEMMA LeadsFrom ==
  ASSUME NEW v, NEW w \in Seq(Scancodes), NEW d, Leads(v, w, d), w # <<>>
  PROVE  Leads(Decode(v, Head(w)), Tail(w), d)
<1> DEFINE n == Len(w)
<1>1. PICK tr : Traces(tr, w) /\ tr[0] = v /\ tr[n] = d
  BY DEF Leads
<1>2. /\ n \in Nat /\ n > 0 /\ Len(Tail(w)) = n - 1 /\ Head(w) = w[1]
      /\ \A i \in 1 .. n - 1 : Tail(w)[i] = w[i + 1]
  OBVIOUS
<1>3. tr \in [0 .. n -> Views]
  BY <1>1 DEF Traces
<1>4. /\ \A i \in 1 .. n : tr[i] = Decode(tr[i - 1], w[i])
      /\ \A i, j \in 0 .. n : i <= j => Begins(tr[i].q, tr[j].q)
  BY <1>1 DEF Traces
<1> HIDE DEF n
<1> DEFINE t2 == [i \in 0 .. n - 1 |-> tr[i + 1]]
<1>5. t2 \in [0 .. n - 1 -> Views]
  BY <1>2, <1>3
<1>6. ASSUME NEW i \in 1 .. n - 1 PROVE t2[i] = Decode(t2[i - 1], Tail(w)[i])
  <2>1. i + 1 \in 1 .. n /\ i \in 0 .. n - 1 /\ i - 1 \in 0 .. n - 1 BY <1>2
  <2>2. t2[i] = tr[i + 1] /\ t2[i - 1] = tr[i] BY <1>2, <2>1
  <2>3. tr[i + 1] = Decode(tr[i], w[i + 1]) BY <1>2, <1>4, <2>1
  <2> QED BY <1>2, <2>2, <2>3
<1>7. ASSUME NEW i \in 0 .. n - 1, NEW j \in 0 .. n - 1, i <= j
      PROVE  Begins(t2[i].q, t2[j].q)
  <2>1. i + 1 \in 0 .. n /\ j + 1 \in 0 .. n /\ i + 1 <= j + 1 BY <1>2, <1>7
  <2>2. Begins(tr[i + 1].q, tr[j + 1].q) BY <1>4, <2>1
  <2> QED BY <2>2
<1>8. Traces(t2, Tail(w))
  BY <1>2, <1>5, <1>6, <1>7 DEF Traces
<1>9. t2[0] = Decode(v, Head(w)) /\ t2[n - 1] = d
  <2>1. t2[0] = tr[1] /\ t2[n - 1] = tr[n] BY <1>2
  <2>2. 1 \in 1 .. n BY <1>2
  <2>3. tr[1] = Decode(tr[0], w[1]) BY <1>4, <2>2
  <2> QED BY <1>1, <1>2, <2>1, <2>3 DEF n
<1> QED BY <1>2, <1>8, <1>9 DEF Leads

-----------------------------------------------------------------------------
(* The queue without its m-th character. *)
Cut(q, m) == [i \in 1 .. Len(q) - 1 |-> IF i < m THEN q[i] ELSE q[i + 1]]
Without(d, m) == [d EXCEPT !.q = Cut(@, m)]

(* Cutting shortens by one. *)
LEMMA CutType ==
  ASSUME NEW q \in Seq(Chars), NEW m \in 1 .. Len(q)
  PROVE  /\ Cut(q, m) \in Seq(Chars) /\ Len(Cut(q, m)) = Len(q) - 1
         /\ \A i \in 1 .. Len(q) - 1 : Cut(q, m)[i] = IF i < m THEN q[i] ELSE q[i + 1]
<1> DEFINE L == Len(q)
<1>1. L \in Nat /\ L - 1 \in Nat /\ \A i \in 1 .. L : q[i] \in Chars
  OBVIOUS
<1>2. Cut(q, m) = [i \in 1 .. L - 1 |-> IF i < m THEN q[i] ELSE q[i + 1]]
  BY DEF Cut
<1> HIDE DEF L
<1>3. Cut(q, m) \in [1 .. L - 1 -> Chars]
  BY <1>1, <1>2
<1>4. Cut(q, m) \in Seq(Chars) /\ Len(Cut(q, m)) = L - 1
  BY <1>1, <1>3
<1> QED BY <1>2, <1>4 DEF L

(* The first character is cut by Tail. *)
LEMMA CutIsTail ==
  ASSUME NEW q \in Seq(Chars), q # <<>>
  PROVE  Cut(q, 1) = Tail(q)
<1>1. Len(q) \in Nat /\ Len(q) > 0 OBVIOUS
<1>2. 1 \in 1 .. Len(q) BY <1>1
<1>3. /\ Cut(q, 1) \in Seq(Chars) /\ Len(Cut(q, 1)) = Len(q) - 1
      /\ \A i \in 1 .. Len(q) - 1 : Cut(q, 1)[i] = IF i < 1 THEN q[i] ELSE q[i + 1]
  BY <1>2, CutType
<1>4. /\ Tail(q) \in Seq(Chars) /\ Len(Tail(q)) = Len(q) - 1
      /\ \A i \in 1 .. Len(q) - 1 : Tail(q)[i] = q[i + 1]
  BY <1>1
<1>5. \A i \in 1 .. Len(q) - 1 : Cut(q, 1)[i] = Tail(q)[i]
  BY <1>1, <1>3, <1>4
<1> QED BY <1>3, <1>4, <1>5, SeqEqual

(* RemoveAt cuts. *)
LEMMA CutIsRemoveAt ==
  ASSUME NEW q \in Seq(Chars), NEW m \in 1 .. Len(q)
  PROVE  Cut(q, m) = RemoveAt(q, m)
<1> DEFINE a == SubSeq(q, 1, m - 1)
           b == SubSeq(q, m + 1, Len(q))
<1>1. Len(q) \in Nat /\ m \in Nat /\ 1 <= m /\ m <= Len(q) OBVIOUS
<1>2. /\ a \in Seq(Chars) /\ Len(a) = m - 1
      /\ \A i \in 1 .. m - 1 : a[i] = q[i]
  BY <1>1
<1>3. /\ b \in Seq(Chars) /\ Len(b) = Len(q) - m
      /\ \A i \in 1 .. Len(q) - m : b[i] = q[m + i]
  BY <1>1
<1> DEFINE r == a \o b
<1>4. RemoveAt(q, m) = r BY DEF RemoveAt
<1> HIDE DEF a, b
<1>5. /\ r \in Seq(Chars) /\ Len(r) = Len(a) + Len(b)
      /\ \A i \in 1 .. Len(a) + Len(b) : r[i] = IF i <= Len(a) THEN a[i] ELSE b[i - Len(a)]
  BY <1>2, <1>3, ConcatProperties
<1> HIDE DEF r
<1>6. /\ Cut(q, m) \in Seq(Chars) /\ Len(Cut(q, m)) = Len(q) - 1
      /\ \A i \in 1 .. Len(q) - 1 : Cut(q, m)[i] = IF i < m THEN q[i] ELSE q[i + 1]
  BY CutType
<1>7. Len(r) = Len(q) - 1 BY <1>1, <1>2, <1>3, <1>5
<1>8. ASSUME NEW i \in 1 .. Len(q) - 1 PROVE Cut(q, m)[i] = r[i]
  <2>0. i \in 1 .. Len(a) + Len(b) BY <1>1, <1>2, <1>3
  <2>1. CASE i <= m - 1 BY <1>1, <1>2, <1>5, <1>6, <2>0, <2>1
  <2>2. CASE i > m - 1
    <3>1. i - (m - 1) \in 1 .. Len(q) - m /\ m + (i - (m - 1)) = i + 1
      BY <1>1, <2>2
    <3>2. b[i - (m - 1)] = q[i + 1] BY <1>3, <3>1
    <3>3. ~(i <= Len(a)) /\ Len(a) = m - 1 BY <1>1, <1>2, <2>2
    <3>4. r[i] = b[i - Len(a)] BY <1>5, <2>0, <3>3
    <3>5. r[i] = b[i - (m - 1)] BY <3>3, <3>4
    <3> QED BY <1>1, <1>6, <2>2, <3>2, <3>5
  <2> QED BY <1>1, <2>1, <2>2
<1> QED BY <1>4, <1>5, <1>6, <1>7, <1>8, SeqEqual

(* Appending after cutting is cutting after appending. *)
LEMMA CutAppend ==
  ASSUME NEW q \in Seq(Chars), NEW m \in 1 .. Len(q), NEW c \in Chars
  PROVE  Cut(Append(q, c), m) = Append(Cut(q, m), c)
<1> DEFINE p == Append(q, c)
<1>1. Len(q) \in Nat /\ m \in Nat /\ 1 <= m /\ m <= Len(q) OBVIOUS
<1>2. /\ p \in Seq(Chars) /\ Len(p) = Len(q) + 1 /\ p[Len(q) + 1] = c
      /\ \A i \in 1 .. Len(q) : p[i] = q[i]
  OBVIOUS
<1> HIDE DEF p
<1>3. m \in 1 .. Len(p) BY <1>1, <1>2
<1>4. /\ Cut(p, m) \in Seq(Chars) /\ Len(Cut(p, m)) = Len(q)
      /\ \A i \in 1 .. Len(q) : Cut(p, m)[i] = IF i < m THEN p[i] ELSE p[i + 1]
  <2>1. /\ Cut(p, m) \in Seq(Chars) /\ Len(Cut(p, m)) = Len(p) - 1
        /\ \A i \in 1 .. Len(p) - 1 : Cut(p, m)[i] = IF i < m THEN p[i] ELSE p[i + 1]
    BY <1>2, <1>3, CutType
  <2>2. Len(p) - 1 = Len(q) BY <1>1, <1>2
  <2> QED BY <2>1, <2>2
<1>5. /\ Cut(q, m) \in Seq(Chars) /\ Len(Cut(q, m)) = Len(q) - 1
      /\ \A i \in 1 .. Len(q) - 1 : Cut(q, m)[i] = IF i < m THEN q[i] ELSE q[i + 1]
  BY CutType
<1> DEFINE r == Append(Cut(q, m), c)
<1>6. /\ r \in Seq(Chars) /\ Len(r) = Len(q) /\ r[Len(q)] = c
      /\ \A i \in 1 .. Len(q) - 1 : r[i] = Cut(q, m)[i]
  BY <1>1, <1>5
<1> HIDE DEF r
<1>7. ASSUME NEW i \in 1 .. Len(q) PROVE Cut(p, m)[i] = r[i]
  <2>1. CASE i = Len(q) BY <1>1, <1>2, <1>4, <1>6, <2>1
  <2>2. CASE i # Len(q)
    <3>1. i \in 1 .. Len(q) - 1 /\ i + 1 \in 1 .. Len(q) BY <1>1, <2>2
    <3> QED BY <1>2, <1>4, <1>5, <1>6, <3>1
  <2> QED BY <2>1, <2>2
<1> QED BY <1>4, <1>6, <1>7, SeqEqual DEF p, r

(* Cutting keeps prefixes. *)
LEMMA CutBegins ==
  ASSUME NEW s \in Seq(Chars), NEW t \in Seq(Chars), Begins(s, t), NEW m \in 1 .. Len(s)
  PROVE  Begins(Cut(s, m), Cut(t, m))
<1>1. Len(s) \in Nat /\ Len(t) \in Nat /\ Len(s) <= Len(t) /\ m \in 1 .. Len(t)
      /\ \A i \in 1 .. Len(s) : t[i] = s[i]
  BY DEF Begins
<1>2. /\ Len(Cut(s, m)) = Len(s) - 1
      /\ \A i \in 1 .. Len(s) - 1 : Cut(s, m)[i] = IF i < m THEN s[i] ELSE s[i + 1]
  BY CutType
<1>3. /\ Len(Cut(t, m)) = Len(t) - 1
      /\ \A i \in 1 .. Len(t) - 1 : Cut(t, m)[i] = IF i < m THEN t[i] ELSE t[i + 1]
  BY <1>1, CutType
<1>4. ASSUME NEW i \in 1 .. Len(s) - 1 PROVE Cut(t, m)[i] = Cut(s, m)[i]
  <2>1. i \in 1 .. Len(t) - 1 /\ i \in 1 .. Len(s) /\ i + 1 \in 1 .. Len(s) BY <1>1
  <2> QED BY <1>1, <1>2, <1>3, <2>1
<1> QED BY <1>1, <1>2, <1>3, <1>4 DEF Begins

(* A byte does the same to a queue without its m-th character. *)
LEMMA DecodeWithout ==
  ASSUME NEW d \in Views, NEW sc \in Scancodes, NEW m \in 1 .. Len(d.q)
  PROVE  /\ Without(d, m) \in Views
         /\ Decode(Without(d, m), sc) = Without(Decode(d, sc), m)
<1> DEFINE e == Without(d, m)
<1>1. d.q \in Seq(Chars) BY DEF Views
<1>2. Cut(d.q, m) \in Seq(Chars) BY <1>1, CutType
<1>3. /\ e \in Views /\ e.q = Cut(d.q, m) /\ e.shift_left = d.shift_left
      /\ e.shift_right = d.shift_right /\ e.e0_prefix = d.e0_prefix
  BY <1>2 DEF Views, Without
<1> HIDE DEF e
<1>4. CharOf(e, sc.code) = CharOf(d, sc.code) BY <1>3 DEF CharOf
<1>5. Produces(e, sc) = Produces(d, sc) BY <1>3, <1>4 DEF Produces
<1>6. Produces(d, sc) => CharOf(d, sc.code) \in Chars
  <2>1. sc.code \in Codes BY DEF Scancodes
  <2> QED BY <2>1, TableAssumption DEF Produces, CharOf
<1>7. Decode(e, sc).q = Cut(Decode(d, sc).q, m)
  <2>1. CASE Produces(d, sc)
    <3>1. Decode(e, sc).q = Append(Cut(d.q, m), CharOf(d, sc.code))
      BY <1>3, <1>4, <1>5, <2>1 DEF Decode
    <3>2. Decode(d, sc).q = Append(d.q, CharOf(d, sc.code))
      BY <2>1 DEF Decode
    <3> QED BY <1>1, <1>6, <2>1, <3>1, <3>2, CutAppend
  <2>2. CASE ~Produces(d, sc)
    BY <1>3, <1>5, <2>2 DEF Decode
  <2> QED BY <2>1, <2>2
<1>8. Without(Decode(d, sc), m) = [Decode(d, sc) EXCEPT !.q = Cut(Decode(d, sc).q, m)]
  BY DEF Without
<1>9. /\ Decode(e, sc).shift_left = Decode(d, sc).shift_left
      /\ Decode(e, sc).shift_right = Decode(d, sc).shift_right
      /\ Decode(e, sc).e0_prefix = Decode(d, sc).e0_prefix
  BY <1>3 DEF Decode
<1> DEFINE x == Cut(Decode(d, sc).q, m)
<1>10. Decode(e, sc) = [Decode(d, sc) EXCEPT !.q = x]
  <2>1. Decode(e, sc).q = x BY <1>7
  <2> HIDE DEF x
  <2>2. Decode(e, sc) \in Views /\ Decode(d, sc) \in Views BY <1>3, DecodeType
  <2> QED BY <1>9, <2>1, <2>2 DEF Views
<1> QED BY <1>3, <1>8, <1>10 DEF e

(* The whole trace without one of the characters that are in the ring. *)
LEMMA LeadsWithout ==
  ASSUME NEW v \in Views, NEW w \in Seq(Scancodes), NEW d, Leads(v, w, d),
         NEW m \in 1 .. Len(v.q)
  PROVE  /\ d \in Views /\ m \in 1 .. Len(d.q)
         /\ Leads(Without(v, m), w, Without(d, m))
<1> DEFINE n == Len(w)
<1>1. PICK tr : Traces(tr, w) /\ tr[0] = v /\ tr[n] = d
  BY DEF Leads
<1>2. n \in Nat /\ \A i \in 1 .. n : w[i] \in Scancodes
  OBVIOUS
<1>3. tr \in [0 .. n -> Views]
  BY <1>1 DEF Traces
<1>4. /\ \A i \in 1 .. n : tr[i] = Decode(tr[i - 1], w[i])
      /\ \A i, j \in 0 .. n : i <= j => Begins(tr[i].q, tr[j].q)
  BY <1>1 DEF Traces
<1> HIDE DEF n
<1>5. ASSUME NEW i \in 0 .. n
      PROVE  tr[i] \in Views /\ tr[i].q \in Seq(Chars) /\ m \in 1 .. Len(tr[i].q)
  <2>1. tr[i] \in Views /\ tr[i].q \in Seq(Chars) BY <1>3 DEF Views
  <2>2. 0 \in 0 .. n /\ 0 <= i BY <1>2
  <2>3. Begins(v.q, tr[i].q) BY <1>1, <1>4, <2>2
  <2>4. v.q \in Seq(Chars) BY DEF Views
  <2> QED BY <2>1, <2>3, <2>4 DEF Begins
<1> DEFINE t2 == [i \in 0 .. n |-> Without(tr[i], m)]
<1>6. ASSUME NEW i \in 0 .. n PROVE t2[i] \in Views /\ t2[i].q = Cut(tr[i].q, m)
  <2>2. tr[i] \in Views /\ Cut(tr[i].q, m) \in Seq(Chars) BY <1>5, CutType
  <2> QED BY <2>2 DEF Views, Without
<1>7. t2 \in [0 .. n -> Views]
  BY <1>6
<1>8. ASSUME NEW i \in 1 .. n PROVE t2[i] = Decode(t2[i - 1], w[i])
  <2>1. i - 1 \in 0 .. n /\ i \in 0 .. n BY <1>2
  <2>2. Decode(Without(tr[i - 1], m), w[i]) = Without(Decode(tr[i - 1], w[i]), m)
    BY <1>2, <1>5, <2>1, DecodeWithout
  <2> QED BY <1>4, <2>1, <2>2
<1>9. ASSUME NEW i \in 0 .. n, NEW j \in 0 .. n, i <= j
      PROVE  Begins(t2[i].q, t2[j].q)
  <2>1. Begins(tr[i].q, tr[j].q) BY <1>4, <1>9
  <2>2. Begins(Cut(tr[i].q, m), Cut(tr[j].q, m)) BY <1>5, <2>1, CutBegins
  <2> QED BY <1>6, <2>2
<1>10. Traces(t2, w)
  BY <1>7, <1>8, <1>9 DEF Traces, n
<1>11. t2[0] = Without(v, m) /\ t2[n] = Without(d, m)
  <2>1. 0 \in 0 .. n /\ n \in 0 .. n BY <1>2
  <2> QED BY <1>1, <2>1 DEF n
<1>12. d \in Views /\ m \in 1 .. Len(d.q)
  <2>1. n \in 0 .. n BY <1>2
  <2> QED BY <1>1, <1>5, <2>1 DEF n
<1> QED BY <1>10, <1>11, <1>12 DEF Leads, n

-----------------------------------------------------------------------------
(* The driver decodes: as long as a character fits, its view after a byte   *)
(* is the decoded view; a character that does not fit changes nothing.      *)
LEMMA HandlerDecodes ==
  ASSUME NEW k, KbType(k), NEW sc \in Scancodes
  PROVE  \/ /\ Produces(View(k), sc) /\ Produces(k, sc)
            /\ keyboard_handler(k, sc) = k /\ Count(k) = KB_BUF_SIZE - 1
         \/ /\ View(keyboard_handler(k, sc)) = Decode(View(k), sc)
            /\ ~(Produces(k, sc) /\ keyboard_handler(k, sc).head = k.head)
<1> DEFINE v == View(k)
           h == keyboard_handler(k, sc)
<1>1. /\ v.shift_left = k.shift_left /\ v.shift_right = k.shift_right
      /\ v.e0_prefix = k.e0_prefix /\ v.q = Ring(k)
  BY DEF View
<1>2. /\ k.shift_left \in BOOLEAN /\ k.shift_right \in BOOLEAN
      /\ k.e0_prefix \in BOOLEAN /\ sc.release \in BOOLEAN
  BY DEF KbType, Scancodes
<1> HIDE DEF v
<1>3. CharOf(v, sc.code) = CharOf(k, sc.code) BY <1>1 DEF CharOf
<1>4. Produces(v, sc) = Produces(k, sc) BY <1>1, <1>3 DEF Produces
<1>5. CASE Produces(k, sc)
  <2> DEFINE c == CharOf(k, sc.code)
  <2>1. c \in Chars /\ h = Enqueue(k, c) BY <1>5, HandlerMeaning
  <2>2. Decode(v, sc) = [shift_left |-> v.shift_left, shift_right |-> v.shift_right,
                         e0_prefix |-> FALSE, q |-> Append(v.q, c)]
    <3>1. sc # E0 /\ sc.code # LSHIFT /\ sc.code # RSHIFT /\ ~v.e0_prefix
      BY <1>1, <1>5 DEF Produces
    <3> QED BY <1>3, <1>4, <1>5, <3>1 DEF Decode
  <2>3. v.e0_prefix = FALSE BY <1>1, <1>2, <1>5 DEF Produces
  <2>4. CASE h = k /\ Count(k) = KB_BUF_SIZE - 1
    BY <1>4, <1>5, <2>4 DEF v
  <2>5. CASE /\ Count(k) < KB_BUF_SIZE - 1 /\ h.head # k.head
             /\ Ring(h) = Append(Ring(k), c)
    <3>1. h = [k EXCEPT !.buf[k.head] = c, !.head = Wrap(k.head + 1)]
      <4>1. h # k BY <2>5
      <4> HIDE DEF h, c
      <4> QED BY <2>1, <4>1 DEF Enqueue
    <3>2. /\ h.shift_left = k.shift_left /\ h.shift_right = k.shift_right
          /\ h.e0_prefix = k.e0_prefix
      <4> HIDE DEF h, c
      <4> QED BY <3>1 DEF KbType
    <3>3. View(h) = [shift_left |-> k.shift_left, shift_right |-> k.shift_right,
                     e0_prefix |-> k.e0_prefix, q |-> Append(Ring(k), c)]
      <4> HIDE DEF h, c
      <4> QED BY <2>5, <3>2 DEF View
    <3> QED BY <1>1, <2>2, <2>3, <2>5, <3>3 DEF v
  <2> HIDE DEF h, c
  <2> QED BY <2>1, <2>4, <2>5, EnqueueMeaning
<1>6. CASE ~Produces(k, sc)
  <2>1. h.buf = k.buf /\ h.head = k.head /\ h.tail = k.tail
    BY <1>6, HandlerMeaning
  <2>2. Ring(h) = Ring(k) BY <2>1, RingSame
  <2> DEFINE l == IF ~k.e0_prefix /\ sc # E0 /\ sc.code = LSHIFT
                  THEN ~sc.release ELSE k.shift_left
             r == IF ~k.e0_prefix /\ sc # E0 /\ sc.code = RSHIFT
                  THEN ~sc.release ELSE k.shift_right
             e == ~k.e0_prefix /\ sc = E0
  <2>3. h.shift_left = l /\ h.shift_right = r /\ h.e0_prefix = e
    <3>1. CASE k.e0_prefix
      <4>1. h = [k EXCEPT !.e0_prefix = FALSE] BY <3>1 DEF keyboard_handler
      <4> HIDE DEF h
      <4> QED BY <3>1, <4>1 DEF KbType
    <3>2. CASE ~k.e0_prefix /\ sc = E0
      <4>1. h = [k EXCEPT !.e0_prefix = TRUE] BY <3>2 DEF keyboard_handler
      <4> HIDE DEF h
      <4> QED BY <3>2, <4>1 DEF KbType
    <3>3. CASE ~k.e0_prefix /\ sc # E0 /\ sc.code = LSHIFT
      <4>1. h = [k EXCEPT !.shift_left = ~sc.release] BY <3>3 DEF keyboard_handler
      <4>2. LSHIFT # RSHIFT BY KeysAssumption
      <4> HIDE DEF h
      <4> QED BY <1>2, <3>3, <4>1, <4>2 DEF KbType
    <3>4. CASE ~k.e0_prefix /\ sc # E0 /\ sc.code = RSHIFT
      <4>1. LSHIFT # RSHIFT BY KeysAssumption
      <4>2. h = [k EXCEPT !.shift_right = ~sc.release]
        BY <3>4, <4>1 DEF keyboard_handler
      <4> HIDE DEF h
      <4> QED BY <1>2, <3>4, <4>1, <4>2 DEF KbType
    <3>5. CASE ~k.e0_prefix /\ sc # E0 /\ sc.code # LSHIFT /\ sc.code # RSHIFT
      <4>1. h = k BY <1>6, <3>5 DEF keyboard_handler, Produces
      <4> HIDE DEF h
      <4> QED BY <1>2, <3>5, <4>1
    <3> QED BY <3>1, <3>2, <3>3, <3>4, <3>5
  <2>4. Decode(v, sc) = [shift_left |-> l, shift_right |-> r, e0_prefix |-> e,
                         q |-> Ring(k)]
    BY <1>1, <1>4, <1>6 DEF Decode
  <2>5. View(h) = [shift_left |-> l, shift_right |-> r, e0_prefix |-> e,
                   q |-> Ring(k)]
    <3> HIDE DEF h, l, r, e
    <3> QED BY <2>2, <2>3 DEF View
  <2>6. View(h) = Decode(v, sc) BY <2>4, <2>5
  <2> QED BY <1>6, <2>6 DEF v
<1> QED BY <1>5, <1>6

(* A view with one field replaced. *)
LEMMA ViewExcept ==
  ASSUME NEW d \in Views, NEW x
  PROVE  /\ [d EXCEPT !.shift_left = x]
              = [shift_left |-> x, shift_right |-> d.shift_right,
                 e0_prefix |-> d.e0_prefix, q |-> d.q]
         /\ [d EXCEPT !.shift_right = x]
              = [shift_left |-> d.shift_left, shift_right |-> x,
                 e0_prefix |-> d.e0_prefix, q |-> d.q]
         /\ [d EXCEPT !.e0_prefix = x]
              = [shift_left |-> d.shift_left, shift_right |-> d.shift_right,
                 e0_prefix |-> x, q |-> d.q]
         /\ [d EXCEPT !.q = x]
              = [shift_left |-> d.shift_left, shift_right |-> d.shift_right,
                 e0_prefix |-> d.e0_prefix, q |-> x]
  BY DEF Views

(* What the bytes of one key do to a view without a pending prefix. *)
LEMMA DecodeKey ==
  ASSUME NEW d \in Views, d.e0_prefix = FALSE
  PROVE  /\ \A b \in Scancodes : Decode(Decode(d, E0), b) = d
         /\ \A rel \in BOOLEAN :
              /\ Decode(d, [code |-> LSHIFT, release |-> rel])
                   = [d EXCEPT !.shift_left = ~rel]
              /\ Decode(d, [code |-> RSHIFT, release |-> rel])
                   = [d EXCEPT !.shift_right = ~rel]
         /\ \A c \in Codes \ {LSHIFT, RSHIFT, EXT} :
              /\ Decode(d, Break(c)) = d
              /\ Decode(d, Make(c))
                   = IF CharOf(d, c) = NUL THEN d
                     ELSE [d EXCEPT !.q = Append(@, CharOf(d, c))]
<1>0. /\ LSHIFT # RSHIFT /\ EXT # LSHIFT /\ EXT # RSHIFT
      /\ LSHIFT \in Codes /\ RSHIFT \in Codes /\ EXT \in Codes
  BY KeysAssumption, TableAssumption
<1>1. d = [shift_left |-> d.shift_left, shift_right |-> d.shift_right,
           e0_prefix |-> FALSE, q |-> d.q]
  BY DEF Views
<1>2. /\ Decode(d, E0) = [d EXCEPT !.e0_prefix = TRUE] /\ E0 \in Scancodes
  <2>1. ~Produces(d, E0) BY DEF Produces
  <2>2. E0.code = EXT /\ E0 \in Scancodes BY <1>0 DEF E0, Scancodes
  <2>3. Decode(d, E0) = [shift_left |-> d.shift_left, shift_right |-> d.shift_right,
                         e0_prefix |-> TRUE, q |-> d.q]
    BY <2>1 DEF Decode
  <2> QED BY <2>2, <2>3, ViewExcept
<1>3. ASSUME NEW b \in Scancodes PROVE Decode(Decode(d, E0), b) = d
  <2> DEFINE x == [d EXCEPT !.e0_prefix = TRUE]
  <2>1. /\ x.e0_prefix = TRUE /\ x.shift_left = d.shift_left
        /\ x.shift_right = d.shift_right /\ x.q = d.q
    BY DEF Views
  <2>2. Decode(d, E0) = x BY <1>2
  <2> HIDE DEF x
  <2>3. ~Produces(x, b) BY <2>1 DEF Produces
  <2>4. Decode(x, b) = [shift_left |-> d.shift_left, shift_right |-> d.shift_right,
                        e0_prefix |-> FALSE, q |-> d.q]
    BY <2>1, <2>3 DEF Decode
  <2> QED BY <1>1, <2>2, <2>4
<1>4. ASSUME NEW rel \in BOOLEAN
      PROVE  /\ Decode(d, [code |-> LSHIFT, release |-> rel]) = [d EXCEPT !.shift_left = ~rel]
             /\ Decode(d, [code |-> RSHIFT, release |-> rel]) = [d EXCEPT !.shift_right = ~rel]
  <2>1. [code |-> LSHIFT, release |-> rel] # E0 /\ [code |-> RSHIFT, release |-> rel] # E0
    BY <1>0 DEF E0
  <2>2. /\ ~Produces(d, [code |-> LSHIFT, release |-> rel])
        /\ ~Produces(d, [code |-> RSHIFT, release |-> rel])
    BY DEF Produces
  <2>3. Decode(d, [code |-> LSHIFT, release |-> rel])
          = [shift_left |-> ~rel, shift_right |-> d.shift_right,
             e0_prefix |-> FALSE, q |-> d.q]
    BY <1>0, <2>1, <2>2 DEF Decode
  <2>4. Decode(d, [code |-> RSHIFT, release |-> rel])
          = [shift_left |-> d.shift_left, shift_right |-> ~rel,
             e0_prefix |-> FALSE, q |-> d.q]
    BY <1>0, <2>1, <2>2 DEF Decode
  <2>5. /\ [d EXCEPT !.shift_left = ~rel]
             = [shift_left |-> ~rel, shift_right |-> d.shift_right,
                e0_prefix |-> FALSE, q |-> d.q]
        /\ [d EXCEPT !.shift_right = ~rel]
             = [shift_left |-> d.shift_left, shift_right |-> ~rel,
                e0_prefix |-> FALSE, q |-> d.q]
    <3> DEFINE x == ~rel
    <3> HIDE DEF x
    <3>1. /\ [d EXCEPT !.shift_left = x]
               = [shift_left |-> x, shift_right |-> d.shift_right,
                  e0_prefix |-> d.e0_prefix, q |-> d.q]
          /\ [d EXCEPT !.shift_right = x]
               = [shift_left |-> d.shift_left, shift_right |-> x,
                  e0_prefix |-> d.e0_prefix, q |-> d.q]
      BY ViewExcept, Zenon
    <3> QED BY <3>1, Zenon DEF x
  <2> QED BY <2>3, <2>4, <2>5
<1>5. ASSUME NEW c \in Codes \ {LSHIFT, RSHIFT, EXT}
      PROVE  /\ Decode(d, Break(c)) = d
             /\ Decode(d, Make(c)) = IF CharOf(d, c) = NUL THEN d
                                     ELSE [d EXCEPT !.q = Append(@, CharOf(d, c))]
  <2>1. /\ Break(c).code = c /\ Break(c).release = TRUE /\ Break(c) # E0
        /\ Make(c).code = c /\ Make(c).release = FALSE /\ Make(c) # E0
    BY DEF Break, Make, E0
  <2>2. ~Produces(d, Break(c)) BY <2>1 DEF Produces
  <2>3. Produces(d, Make(c)) = (CharOf(d, c) # NUL) BY <2>1 DEF Produces
  <2>4. Decode(d, Break(c)) = d
    <3>1. Decode(d, Break(c)) = [shift_left |-> d.shift_left, shift_right |-> d.shift_right,
                                 e0_prefix |-> FALSE, q |-> d.q]
      BY <2>1, <2>2 DEF Decode
    <3> QED BY <1>1, <3>1
  <2> DEFINE nq == IF CharOf(d, c) = NUL THEN d.q ELSE Append(d.q, CharOf(d, c))
  <2>5. Decode(d, Make(c)) = [shift_left |-> d.shift_left, shift_right |-> d.shift_right,
                              e0_prefix |-> FALSE, q |-> nq]
    BY <2>1, <2>3 DEF Decode
  <2>6. CASE CharOf(d, c) = NUL BY <1>1, <2>4, <2>5, <2>6
  <2>7. CASE CharOf(d, c) # NUL
    <3> DEFINE y == Append(d.q, CharOf(d, c))
    <3>1. Decode(d, Make(c)) = [shift_left |-> d.shift_left, shift_right |-> d.shift_right,
                                e0_prefix |-> FALSE, q |-> y]
      BY <2>5, <2>7
    <3>2. [d EXCEPT !.q = Append(@, CharOf(d, c))] = [d EXCEPT !.q = y] OBVIOUS
    <3> HIDE DEF y
    <3>3. [d EXCEPT !.q = y] = [shift_left |-> d.shift_left, shift_right |-> d.shift_right,
                                e0_prefix |-> d.e0_prefix, q |-> y]
      BY ViewExcept, Zenon
    <3>4. Decode(d, Make(c)) = [d EXCEPT !.q = y] BY <3>1, <3>3, Zenon
    <3> QED BY <2>4, <2>7, <3>2, <3>4
  <2> QED BY <2>4, <2>6, <2>7
<1> QED BY <1>3, <1>4, <1>5

-----------------------------------------------------------------------------
(* The keyboard side: the bytes of one key. *)

(* Typed is a view, and its characters are those on the caps. *)
LEMMA TypedView ==
  ASSUME KeysInv
  PROVE  /\ Typed \in Views /\ Typed.e0_prefix = FALSE /\ Typed.q = expect
         /\ \A c : CharOf(Typed, c) = IF down = {} THEN kb_normal[c] ELSE kb_shift[c]
<1>1. /\ Typed.shift_left = (LeftShift \in down) /\ Typed.e0_prefix = FALSE
      /\ Typed.shift_right = (RightShift \in down) /\ Typed.q = expect
  BY DEF Typed
<1>2. expect \in Seq(Chars) /\ down \subseteq {LeftShift, RightShift}
  BY DEF KeysInv
<1>3. Typed \in Views
  BY <1>2 DEF Typed, Views
<1>4. (Typed.shift_left \/ Typed.shift_right) <=> down # {}
  BY <1>1, <1>2
<1> QED BY <1>1, <1>3, <1>4 DEF CharOf

(* One or two bytes more on the wire. *)
LEMMA Sent ==
  ASSUME KeysInv, NEW b \in Scancodes, NEW d \in Scancodes
  PROVE  /\ wire \o <<b>> \in Seq(Scancodes)
         /\ Leads(View(kb), wire \o <<b>>, Decode(Typed, b))
         /\ wire \o <<b, d>> \in Seq(Scancodes)
         /\ Leads(View(kb), wire \o <<b, d>>, Decode(Decode(Typed, b), d))
<1>1. wire \in Seq(Scancodes) /\ Leads(View(kb), wire, Typed)
  BY DEF KeysInv
<1>2. wire \o <<b>> = Append(wire, b)
  BY <1>1, AppendIsConcat
<1>3. wire \o <<b, d>> = Append(Append(wire, b), d)
  <2>1. /\ Append(wire, b) \in Seq(Scancodes)
        /\ Append(Append(wire, b), d) \in Seq(Scancodes)
        /\ wire \o <<b, d>> \in Seq(Scancodes)
        /\ Len(Append(Append(wire, b), d)) = Len(wire \o <<b, d>>)
    BY <1>1
  <2>2. ASSUME NEW i \in 1 .. Len(wire) + 2
        PROVE  (wire \o <<b, d>>)[i] = Append(Append(wire, b), d)[i]
    BY <1>1
  <2>3. Len(wire \o <<b, d>>) = Len(wire) + 2 BY <1>1
  <2> QED BY <2>1, <2>2, <2>3, SeqEqual
<1>4. Append(wire, b) \in Seq(Scancodes) /\ Append(Append(wire, b), d) \in Seq(Scancodes)
  BY <1>1
<1>5. Leads(View(kb), Append(wire, b), Decode(Typed, b))
  BY <1>1, LeadsOn
<1>6. Leads(View(kb), Append(Append(wire, b), d), Decode(Decode(Typed, b), d))
  BY <1>4, <1>5, LeadsOn
<1> QED BY <1>2, <1>3, <1>4, <1>5, <1>6

(* A key goes down. *)
LEMMA PressKeeps ==
  ASSUME KeysInv, NEW key \in KeyCaps, Press(key)
  PROVE  KeysInv'
<1>1. /\ wire' = wire \o MakeBytes[key]
      /\ down' = down \cup ({key} \cap {LeftShift, RightShift})
      /\ expect' = IF CapOf(key) = NUL THEN expect ELSE Append(expect, CapOf(key))
      /\ kb' = kb /\ get' = get /\ got' = got /\ lost' = lost
  BY DEF Press, kbVars
<1>2. KbInv'
  BY <1>1 DEF KeysInv, KbInv, KbTypeOK, GetSafe, Empty, RingHoldsChars
<1>3. /\ Typed \in Views /\ Typed.e0_prefix = FALSE /\ Typed.q = expect
      /\ \A c : CharOf(Typed, c) = IF down = {} THEN kb_normal[c] ELSE kb_shift[c]
  BY TypedView
<1>4. expect \in Seq(Chars) /\ down \subseteq {LeftShift, RightShift}
  BY DEF KeysInv
<1>5. down' \subseteq {LeftShift, RightShift} BY <1>1, <1>4
<1>6. /\ LSHIFT \in Codes /\ RSHIFT \in Codes /\ EXT \in Codes
      /\ LeftShift # RightShift
  BY KeysAssumption, TableAssumption
<1>7. SUFFICES /\ expect' \in Seq(Chars) /\ wire' \in Seq(Scancodes)
               /\ Leads(View(kb), wire', Typed')
  BY <1>1, <1>2, <1>5, <1>7 DEF KeysInv
<1>8. CASE key = LeftShift
  <2>1. MakeBytes[key] = <<Make(LSHIFT)>> /\ CapOf(key) = NUL
    BY <1>8, KeysAssumption DEF SendsCode, HasCaps, CapOf
  <2>2. Make(LSHIFT) = [code |-> LSHIFT, release |-> FALSE] /\ Make(LSHIFT) \in Scancodes
    BY <1>6 DEF Make, Scancodes
  <2>3. Decode(Typed, Make(LSHIFT)) = [Typed EXCEPT !.shift_left = ~FALSE]
    BY <1>3, <2>2, DecodeKey
  <2>4. /\ expect' = expect /\ (LeftShift \in down') = TRUE
        /\ (RightShift \in down') = (RightShift \in down)
    BY <1>1, <1>6, <1>8, <2>1
  <2>5. Typed' = [Typed EXCEPT !.shift_left = ~FALSE]
    <3>1. Typed' = [shift_left |-> ~FALSE, shift_right |-> Typed.shift_right,
              e0_prefix |-> Typed.e0_prefix, q |-> Typed.q]
      BY <2>4 DEF Typed
    <3>2. [Typed EXCEPT !.shift_left = ~FALSE] = [shift_left |-> ~FALSE, shift_right |-> Typed.shift_right,
              e0_prefix |-> Typed.e0_prefix, q |-> Typed.q]
      BY <1>3, ViewExcept, Zenon
    <3> QED BY <3>1, <3>2, Zenon
  <2> QED BY <1>1, <1>4, <2>1, <2>2, <2>3, <2>4, <2>5, Sent
<1>9. CASE key = RightShift
  <2>1. MakeBytes[key] = <<Make(RSHIFT)>> /\ CapOf(key) = NUL
    BY <1>9, KeysAssumption DEF SendsCode, HasCaps, CapOf
  <2>2. Make(RSHIFT) = [code |-> RSHIFT, release |-> FALSE] /\ Make(RSHIFT) \in Scancodes
    BY <1>6 DEF Make, Scancodes
  <2>3. Decode(Typed, Make(RSHIFT)) = [Typed EXCEPT !.shift_right = ~FALSE]
    BY <1>3, <2>2, DecodeKey
  <2>4. /\ expect' = expect /\ (RightShift \in down') = TRUE
        /\ (LeftShift \in down') = (LeftShift \in down)
    BY <1>1, <1>6, <1>9, <2>1
  <2>5. Typed' = [Typed EXCEPT !.shift_right = ~FALSE]
    <3>1. Typed' = [shift_left |-> Typed.shift_left, shift_right |-> ~FALSE,
              e0_prefix |-> Typed.e0_prefix, q |-> Typed.q]
      BY <2>4 DEF Typed
    <3>2. [Typed EXCEPT !.shift_right = ~FALSE] = [shift_left |-> Typed.shift_left, shift_right |-> ~FALSE,
              e0_prefix |-> Typed.e0_prefix, q |-> Typed.q]
      BY <1>3, ViewExcept, Zenon
    <3> QED BY <3>1, <3>2, Zenon
  <2> QED BY <1>1, <1>4, <2>1, <2>2, <2>3, <2>4, <2>5, Sent
<1>10. ASSUME key \notin {LeftShift, RightShift},
              NEW c \in Codes \ {LSHIFT, RSHIFT, EXT},
              SendsCode(key, c), HasCaps(key, kb_normal[c], kb_shift[c])
       PROVE  /\ expect' \in Seq(Chars) /\ wire' \in Seq(Scancodes)
              /\ Leads(View(kb), wire', Typed')
  <2>1. MakeBytes[key] = <<Make(c)>> /\ Make(c) \in Scancodes /\ CapOf(key) = CharOf(Typed, c)
    BY <1>3, <1>10 DEF SendsCode, HasCaps, CapOf, Make, Scancodes
  <2>2. down' = down BY <1>1, <1>10
  <2>3. CapOf(key) \in Chars \cup {NUL}
    BY <1>3, <2>1, TableAssumption
  <2>4. Typed' = IF CharOf(Typed, c) = NUL THEN Typed
                 ELSE [Typed EXCEPT !.q = Append(@, CharOf(Typed, c))]
    <3>1. CASE CharOf(Typed, c) = NUL
      BY <1>1, <2>1, <2>2, <3>1 DEF Typed
    <3>2. CASE CharOf(Typed, c) # NUL
      <4> DEFINE ch == CharOf(Typed, c)
      <4>1. expect' = Append(expect, ch) BY <1>1, <2>1, <3>2
      <4>2. [Typed EXCEPT !.q = Append(@, ch)] = [Typed EXCEPT !.q = Append(expect, ch)]
        BY <1>3
      <4> HIDE DEF ch
      <4> DEFINE nq == Append(expect, ch)
      <4>3. Typed' = [Typed EXCEPT !.q = nq]
        <5>1. expect' = nq BY <4>1
        <5> HIDE DEF nq
        <5>2. Typed' = [shift_left |-> Typed.shift_left, shift_right |-> Typed.shift_right,
                  e0_prefix |-> Typed.e0_prefix, q |-> nq]
          BY <2>2, <5>1 DEF Typed
        <5>3. [Typed EXCEPT !.q = nq] = [shift_left |-> Typed.shift_left, shift_right |-> Typed.shift_right,
                  e0_prefix |-> Typed.e0_prefix, q |-> nq]
          BY <1>3, ViewExcept, Zenon
        <5> QED BY <5>2, <5>3, Zenon
      <4> QED BY <3>2, <4>2, <4>3 DEF ch
    <3> QED BY <3>1, <3>2
  <2>5. Decode(Typed, Make(c)) = Typed'
    BY <1>3, <2>4, DecodeKey
  <2>6. expect' \in Seq(Chars) BY <1>1, <1>4, <2>3
  <2> QED BY <1>1, <2>1, <2>5, <2>6, Sent
<1>11. ASSUME key \notin {LeftShift, RightShift},
              SendsExtended(key), HasCaps(key, NUL, NUL)
       PROVE  /\ expect' \in Seq(Chars) /\ wire' \in Seq(Scancodes)
              /\ Leads(View(kb), wire', Typed')
  <2>1. PICK b \in Scancodes : MakeBytes[key] = <<E0, b>>
    BY <1>11 DEF SendsExtended
  <2>2. E0 \in Scancodes BY <1>6 DEF E0, Scancodes
  <2>3. CapOf(key) = NUL BY <1>11 DEF HasCaps, CapOf
  <2>4. expect' = expect /\ down' = down BY <1>1, <1>11, <2>3
  <2>5. Typed' = Typed BY <2>4 DEF Typed
  <2>6. Decode(Decode(Typed, E0), b) = Typed BY <1>3, DecodeKey
  <2> QED BY <1>1, <1>4, <2>1, <2>2, <2>4, <2>5, <2>6, Sent
<1> QED BY <1>8, <1>9, <1>10, <1>11, KeysAssumption

(* A key comes up. *)
LEMMA ReleaseKeeps ==
  ASSUME KeysInv, NEW key \in KeyCaps, Release(key)
  PROVE  KeysInv'
<1>1. /\ wire' = wire \o BreakBytes[key] /\ down' = down \ {key} /\ expect' = expect
      /\ kb' = kb /\ get' = get /\ got' = got /\ lost' = lost
  BY DEF Release, kbVars
<1>2. KbInv'
  BY <1>1 DEF KeysInv, KbInv, KbTypeOK, GetSafe, Empty, RingHoldsChars
<1>3. Typed \in Views /\ Typed.e0_prefix = FALSE
  BY TypedView
<1>4. expect \in Seq(Chars) /\ down \subseteq {LeftShift, RightShift}
  BY DEF KeysInv
<1>5. down' \subseteq {LeftShift, RightShift} BY <1>1, <1>4
<1>6. /\ LSHIFT \in Codes /\ RSHIFT \in Codes /\ EXT \in Codes
      /\ LeftShift # RightShift
  BY KeysAssumption, TableAssumption
<1>7. SUFFICES wire' \in Seq(Scancodes) /\ Leads(View(kb), wire', Typed')
  BY <1>1, <1>2, <1>4, <1>5, <1>7 DEF KeysInv
<1>8. CASE key = LeftShift
  <2>1. BreakBytes[key] = <<Break(LSHIFT)>>
    BY <1>8, KeysAssumption DEF SendsCode
  <2>2. Break(LSHIFT) = [code |-> LSHIFT, release |-> TRUE] /\ Break(LSHIFT) \in Scancodes
    BY <1>6 DEF Break, Scancodes
  <2>3. Decode(Typed, Break(LSHIFT)) = [Typed EXCEPT !.shift_left = ~TRUE]
    BY <1>3, <2>2, DecodeKey
  <2>4. (LeftShift \in down') = FALSE /\ (RightShift \in down') = (RightShift \in down)
    BY <1>1, <1>6, <1>8
  <2>5. Typed' = [Typed EXCEPT !.shift_left = ~TRUE]
    <3>1. Typed' = [shift_left |-> ~TRUE, shift_right |-> Typed.shift_right,
              e0_prefix |-> Typed.e0_prefix, q |-> Typed.q]
      BY <1>1, <2>4 DEF Typed
    <3>2. [Typed EXCEPT !.shift_left = ~TRUE] = [shift_left |-> ~TRUE, shift_right |-> Typed.shift_right,
              e0_prefix |-> Typed.e0_prefix, q |-> Typed.q]
      BY <1>3, ViewExcept, Zenon
    <3> QED BY <3>1, <3>2, Zenon
  <2> QED BY <1>1, <2>1, <2>2, <2>3, <2>5, Sent
<1>9. CASE key = RightShift
  <2>1. BreakBytes[key] = <<Break(RSHIFT)>>
    BY <1>9, KeysAssumption DEF SendsCode
  <2>2. Break(RSHIFT) = [code |-> RSHIFT, release |-> TRUE] /\ Break(RSHIFT) \in Scancodes
    BY <1>6 DEF Break, Scancodes
  <2>3. Decode(Typed, Break(RSHIFT)) = [Typed EXCEPT !.shift_right = ~TRUE]
    BY <1>3, <2>2, DecodeKey
  <2>4. (RightShift \in down') = FALSE /\ (LeftShift \in down') = (LeftShift \in down)
    BY <1>1, <1>6, <1>9
  <2>5. Typed' = [Typed EXCEPT !.shift_right = ~TRUE]
    <3>1. Typed' = [shift_left |-> Typed.shift_left, shift_right |-> ~TRUE,
              e0_prefix |-> Typed.e0_prefix, q |-> Typed.q]
      BY <1>1, <2>4 DEF Typed
    <3>2. [Typed EXCEPT !.shift_right = ~TRUE] = [shift_left |-> Typed.shift_left, shift_right |-> ~TRUE,
              e0_prefix |-> Typed.e0_prefix, q |-> Typed.q]
      BY <1>3, ViewExcept, Zenon
    <3> QED BY <3>1, <3>2, Zenon
  <2> QED BY <1>1, <2>1, <2>2, <2>3, <2>5, Sent
<1>10. ASSUME key \notin {LeftShift, RightShift},
              NEW c \in Codes \ {LSHIFT, RSHIFT, EXT}, SendsCode(key, c)
       PROVE  wire' \in Seq(Scancodes) /\ Leads(View(kb), wire', Typed')
  <2>1. BreakBytes[key] = <<Break(c)>> /\ Break(c) \in Scancodes
    BY <1>10 DEF SendsCode, Break, Scancodes
  <2>2. down' = down BY <1>1, <1>4, <1>10
  <2>3. Typed' = Typed BY <1>1, <2>2 DEF Typed
  <2>4. Decode(Typed, Break(c)) = Typed BY <1>3, DecodeKey
  <2> QED BY <1>1, <2>1, <2>3, <2>4, Sent
<1>11. ASSUME key \notin {LeftShift, RightShift}, SendsExtended(key)
       PROVE  wire' \in Seq(Scancodes) /\ Leads(View(kb), wire', Typed')
  <2>1. PICK b \in Scancodes : BreakBytes[key] = <<E0, b>>
    BY <1>11 DEF SendsExtended
  <2>2. E0 \in Scancodes BY <1>6 DEF E0, Scancodes
  <2>3. down' = down BY <1>1, <1>4, <1>11
  <2>4. Typed' = Typed BY <1>1, <2>3 DEF Typed
  <2>5. Decode(Decode(Typed, E0), b) = Typed BY <1>3, DecodeKey
  <2> QED BY <1>1, <2>1, <2>2, <2>4, <2>5, Sent
<1> QED BY <1>8, <1>9, <1>10, <1>11, KeysAssumption

-----------------------------------------------------------------------------
(* The driver's side: a byte is handled, a character is taken. *)

(* IRQ1 takes the first byte off the wire; a dropped character goes from    *)
(* the ring's end of what was typed.                                        *)
LEMMA Irq1Keeps ==
  ASSUME KeysInv, Irq1
  PROVE  KeysInv'
<1> DEFINE sc == Head(wire)
<1>1. /\ wire # <<>> /\ Handler(sc) /\ wire' = Tail(wire) /\ down' = down
      /\ expect' = IF Produces(kb, sc) /\ kb'.head = kb.head
                   THEN RemoveAt(expect, Count(kb) + 1) ELSE expect
  BY DEF Irq1
<1>2. /\ KbInv /\ wire \in Seq(Scancodes) /\ expect \in Seq(Chars)
      /\ down \subseteq {LeftShift, RightShift} /\ Leads(View(kb), wire, Typed)
  BY DEF KeysInv
<1>3. sc \in Scancodes /\ Tail(wire) \in Seq(Scancodes)
  BY <1>1, <1>2
<1> HIDE DEF sc
<1>4. KbInv'
  <2>1. KbNext BY <1>1, <1>3 DEF KbNext
  <2> QED BY <1>2, <2>1, KbNextInv
<1>5. /\ KbType(kb) /\ View(kb) \in Views
      /\ Ring(kb) \in Seq(Chars) /\ Len(Ring(kb)) = Count(kb) /\ Count(kb) \in Nat
  <2>1. KbType(kb) BY <1>2 DEF KbInv, KbTypeOK, KbType
  <2>2. View(kb) \in Views BY <1>2, <2>1, ViewType DEF KbInv, RingHoldsChars
  <2>3. View(kb).q = Ring(kb) BY DEF View
  <2> QED BY <2>1, <2>2, <2>3, RingType DEF Views
<1>6. kb' = keyboard_handler(kb, sc) BY <1>1 DEF Handler
<1>7. Leads(Decode(View(kb), sc), wire', Typed)
  BY <1>1, <1>2, LeadsFrom DEF sc
<1>8. CASE /\ View(kb') = Decode(View(kb), sc)
           /\ ~(Produces(kb, sc) /\ kb'.head = kb.head)
  <2>1. expect' = expect BY <1>1, <1>8
  <2>2. Typed' = Typed BY <1>1, <2>1 DEF Typed
  <2>3. View(kb)' = View(kb') BY DEF View, Ring, Count, SlotAt
  <2> QED BY <1>1, <1>2, <1>3, <1>4, <1>7, <1>8, <2>1, <2>2, <2>3 DEF KeysInv
<1>9. CASE /\ Produces(View(kb), sc) /\ Produces(kb, sc)
           /\ kb' = kb /\ Count(kb) = KB_BUF_SIZE - 1
  <2> DEFINE m == Count(kb) + 1
             v2 == Decode(View(kb), sc)
             ch == CharOf(View(kb), sc.code)
  <2>1. expect' = RemoveAt(expect, m) BY <1>1, <1>9
  <2>2. ch \in Chars
    <3>1. sc.code \in Codes BY <1>3 DEF Scancodes
    <3> QED BY <1>9, <3>1, TableAssumption DEF Produces, CharOf
  <2>3. v2 \in Views BY <1>3, <1>5, DecodeType
  <2>4. v2.q = Append(Ring(kb), ch) BY <1>9 DEF Decode, View
  <2>5. m \in 1 .. Len(v2.q) BY <1>5, <2>2, <2>4
  <2>6. /\ m \in 1 .. Len(Typed.q)
        /\ Leads(Without(v2, m), wire', Without(Typed, m))
    <3> HIDE DEF m, v2
    <3> QED BY <1>1, <1>3, <1>7, <2>3, <2>5, LeadsWithout DEF v2
  <2>7. Cut(v2.q, m) = Ring(kb)
    <3> DEFINE p == v2.q
    <3>1. /\ p \in Seq(Chars) /\ Len(p) = Count(kb) + 1
          /\ \A i \in 1 .. Count(kb) : p[i] = Ring(kb)[i]
      BY <1>5, <2>2, <2>4
    <3> HIDE DEF p
    <3>2. /\ Cut(p, m) \in Seq(Chars) /\ Len(Cut(p, m)) = Count(kb)
          /\ \A i \in 1 .. Count(kb) : Cut(p, m)[i] = IF i < m THEN p[i] ELSE p[i + 1]
      <4>1. m \in 1 .. Len(p) BY <2>5 DEF p
      <4> HIDE DEF m
      <4>2. /\ Cut(p, m) \in Seq(Chars) /\ Len(Cut(p, m)) = Len(p) - 1
            /\ \A i \in 1 .. Len(p) - 1 : Cut(p, m)[i] = IF i < m THEN p[i] ELSE p[i + 1]
        BY <3>1, <4>1, CutType
      <4>3. Len(p) - 1 = Count(kb) BY <1>5, <3>1
      <4> QED BY <4>2, <4>3
    <3>3. \A i \in 1 .. Count(kb) : Cut(p, m)[i] = Ring(kb)[i]
      BY <1>5, <3>1, <3>2
    <3>4. Cut(p, m) = Ring(kb)
      <4> HIDE DEF m
      <4> QED BY <1>5, <3>2, <3>3, SeqEqual
    <3> QED BY <3>4 DEF p
  <2>8. Without(v2, m) = View(kb)
    <3>1. /\ v2.shift_left = View(kb).shift_left /\ v2.shift_right = View(kb).shift_right
          /\ v2.e0_prefix = View(kb).e0_prefix
      <4>1. /\ ~View(kb).e0_prefix /\ sc # E0 /\ sc.code # LSHIFT /\ sc.code # RSHIFT
        BY <1>9 DEF Produces
      <4>2. View(kb).e0_prefix = FALSE BY <1>5, <4>1 DEF Views
      <4>3. v2.e0_prefix = FALSE BY <4>1 DEF Decode
      <4>4. v2.shift_left = View(kb).shift_left /\ v2.shift_right = View(kb).shift_right
        BY <4>1 DEF Decode
      <4> QED BY <4>2, <4>3, <4>4
    <3> HIDE DEF v2, m
    <3>2. Without(v2, m) = [v2 EXCEPT !.q = Ring(kb)] BY <2>7 DEF Without
    <3>3. View(kb).q = Ring(kb) BY DEF View
    <3>4. [v2 EXCEPT !.q = Ring(kb)]
            = [shift_left |-> v2.shift_left, shift_right |-> v2.shift_right,
               e0_prefix |-> v2.e0_prefix, q |-> Ring(kb)]
      BY <2>3, ViewExcept, Zenon
    <3>5. View(kb) = [shift_left |-> View(kb).shift_left,
                      shift_right |-> View(kb).shift_right,
                      e0_prefix |-> View(kb).e0_prefix, q |-> View(kb).q]
      BY DEF View
    <3> QED BY <3>1, <3>2, <3>3, <3>4, <3>5, Zenon
  <2>9. Typed' = Without(Typed, m) /\ expect' \in Seq(Chars)
    <3>1. Typed \in Views /\ Typed.q = expect BY TypedView
    <3>2. m \in 1 .. Len(expect) BY <2>6, <3>1
    <3> HIDE DEF m
    <3>3. expect' = Cut(expect, m) /\ expect' \in Seq(Chars)
      BY <1>2, <2>1, <3>2, CutIsRemoveAt, CutType
    <3>4. Typed' = [shift_left |-> Typed.shift_left, shift_right |-> Typed.shift_right,
                    e0_prefix |-> Typed.e0_prefix, q |-> expect']
      BY <1>1 DEF Typed
    <3>5. Without(Typed, m) = [Typed EXCEPT !.q = expect']
      BY <3>1, <3>3 DEF Without
    <3>6. [Typed EXCEPT !.q = expect']
            = [shift_left |-> Typed.shift_left, shift_right |-> Typed.shift_right,
               e0_prefix |-> Typed.e0_prefix, q |-> expect']
      BY <3>1, ViewExcept, Zenon
    <3> QED BY <3>3, <3>4, <3>5, <3>6, Zenon
  <2>10. View(kb)' = View(kb) BY <1>9 DEF View, Ring, Count, SlotAt
  <2> HIDE DEF m, v2
  <2> QED BY <1>1, <1>2, <1>3, <1>4, <2>6, <2>8, <2>9, <2>10 DEF KeysInv
<1> QED BY <1>3, <1>5, <1>6, <1>8, <1>9, HandlerDecodes

(* kb_get takes the first of the characters that were typed. *)
LEMMA ConsumeKeeps ==
  ASSUME KeysInv, Consume
  PROVE  KeysInv'
<1>1. /\ KbInv /\ wire \in Seq(Scancodes) /\ expect \in Seq(Chars)
      /\ down \subseteq {LeftShift, RightShift} /\ Leads(View(kb), wire, Typed)
  BY DEF KeysInv
<1>2. wire' = wire /\ down' = down BY DEF Consume
<1>3. KbInv'
  <2>1. KbNext BY DEF Consume, KbNext
  <2> QED BY <1>1, <2>1, KbNextInv
<1>4. CASE (KbCheck \/ KbRead) /\ expect' = expect
  <2>1. kb' = kb BY <1>4 DEF KbCheck, KbRead
  <2>2. View(kb)' = View(kb) BY <2>1 DEF View, Ring, Count, SlotAt
  <2>3. Typed' = Typed BY <1>2, <1>4 DEF Typed
  <2> QED BY <1>1, <1>2, <1>3, <1>4, <2>2, <2>3 DEF KeysInv
<1>5. CASE KbAdvance /\ expect' = Tail(expect)
  <2>1. Ring(kb) # <<>> /\ Ring(kb') = Tail(Ring(kb))
    BY <1>1, <1>5, AdvanceStep DEF QGet
  <2>2. kb' = [kb EXCEPT !.tail = Wrap(kb.tail + 1)] BY <1>5 DEF KbAdvance
  <2>3. KbType(kb) BY <1>1 DEF KbInv, KbTypeOK, KbType
  <2>4. /\ kb'.shift_left = kb.shift_left /\ kb'.shift_right = kb.shift_right
        /\ kb'.e0_prefix = kb.e0_prefix
    <3> DEFINE t == Wrap(kb.tail + 1)
    <3>1. kb' = [kb EXCEPT !.tail = t] BY <2>2
    <3> HIDE DEF t
    <3> QED BY <2>3, <3>1 DEF KbType
  <2>5. View(kb) \in Views BY <1>1, <2>3, ViewType DEF KbInv, RingHoldsChars
  <2>6. View(kb).q = Ring(kb) /\ Ring(kb) \in Seq(Chars) BY <2>5 DEF View, Views
  <2>7. 1 \in 1 .. Len(View(kb).q) BY <2>1, <2>6
  <2>8. /\ Typed \in Views /\ 1 \in 1 .. Len(Typed.q)
        /\ Leads(Without(View(kb), 1), wire, Without(Typed, 1))
    BY <1>1, <2>5, <2>7, LeadsWithout
  <2>9. Without(View(kb), 1) = View(kb)'
    <3> DEFINE r == Tail(Ring(kb))
    <3>1. Without(View(kb), 1) = [View(kb) EXCEPT !.q = r]
      <4>1. Cut(Ring(kb), 1) = r BY <2>1, <2>6, CutIsTail
      <4> HIDE DEF r
      <4> QED BY <2>6, <4>1 DEF Without
    <3>2. [View(kb) EXCEPT !.q = r]
            = [shift_left |-> View(kb).shift_left, shift_right |-> View(kb).shift_right,
               e0_prefix |-> View(kb).e0_prefix, q |-> r]
      BY <2>5, ViewExcept, Zenon
    <3>3. View(kb') = [shift_left |-> kb'.shift_left, shift_right |-> kb'.shift_right,
                       e0_prefix |-> kb'.e0_prefix, q |-> r]
      BY <2>1 DEF View
    <3>4. /\ View(kb).shift_left = kb.shift_left /\ View(kb).shift_right = kb.shift_right
          /\ View(kb).e0_prefix = kb.e0_prefix
      BY DEF View
    <3>5. View(kb)' = View(kb') BY DEF View, Ring, Count, SlotAt
    <3> HIDE DEF r
    <3> QED BY <2>4, <3>1, <3>2, <3>3, <3>4, <3>5, Zenon
  <2>10. Typed' = Without(Typed, 1) /\ expect' \in Seq(Chars)
    <3>1. Typed \in Views /\ Typed.q = expect BY TypedView
    <3>2. expect # <<>> BY <1>1, <2>8, <3>1
    <3>3. expect' = Cut(expect, 1) /\ expect' \in Seq(Chars)
      BY <1>1, <1>5, <3>2, CutIsTail
    <3>4. Typed' = [shift_left |-> Typed.shift_left, shift_right |-> Typed.shift_right,
                    e0_prefix |-> Typed.e0_prefix, q |-> expect']
      BY <1>2 DEF Typed
    <3>5. Without(Typed, 1) = [Typed EXCEPT !.q = expect']
      BY <3>1, <3>3 DEF Without
    <3>6. [Typed EXCEPT !.q = expect']
            = [shift_left |-> Typed.shift_left, shift_right |-> Typed.shift_right,
               e0_prefix |-> Typed.e0_prefix, q |-> expect']
      BY <3>1, ViewExcept, Zenon
    <3> QED BY <3>3, <3>4, <3>5, <3>6, Zenon
  <2> QED BY <1>1, <1>2, <1>3, <2>8, <2>9, <2>10 DEF KeysInv
<1> QED BY <1>4, <1>5 DEF Consume

(* Nothing typed, nothing on the wire. *)
LEMMA KeysInitInv == KeysInit => KeysInv
<1> SUFFICES ASSUME KeysInit PROVE KeysInv
  OBVIOUS
<1>1. KbInv BY KbInitInv DEF KeysInit
<1>2. down = {} /\ wire = <<>> /\ expect = <<>> BY DEF KeysInit
<1>3. KbType(kb) BY <1>1 DEF KbInv, KbTypeOK, KbType
<1>4. Ring(kb) = <<>>
  <2>1. Count(kb) = 0 BY DEF KeysInit, KbInit, Count
  <2> QED BY <1>3, <2>1, RingType
<1>5. View(kb) \in Views BY <1>1, <1>3, ViewType DEF KbInv, RingHoldsChars
<1>6. View(kb) = Typed
  <2>1. (LeftShift \in down) = FALSE /\ (RightShift \in down) = FALSE BY <1>2
  <2>2. /\ kb.shift_left = FALSE /\ kb.shift_right = FALSE /\ kb.e0_prefix = FALSE
    BY DEF KeysInit, KbInit
  <2>3. View(kb) = [shift_left |-> FALSE, shift_right |-> FALSE,
                    e0_prefix |-> FALSE, q |-> <<>>]
    BY <1>4, <2>2, Zenon DEF View
  <2>4. Typed = [shift_left |-> FALSE, shift_right |-> FALSE,
                 e0_prefix |-> FALSE, q |-> <<>>]
    BY <1>2, <2>1, Zenon DEF Typed
  <2> QED BY <2>3, <2>4
<1>7. Leads(View(kb), <<>>, Typed) BY <1>5, <1>6, LeadsNowhere
<1> QED BY <1>1, <1>2, <1>7 DEF KeysInv

(* Every step keeps the invariant and is a step of the driver or none. *)
LEMMA KeysNextInv ==
  ASSUME KeysInv, [KeysNext]_keysVars
  PROVE  KeysInv' /\ [KbNext]_kbVars
<1>1. ASSUME NEW key \in KeyCaps, Press(key) \/ Release(key)
      PROVE  KeysInv' /\ UNCHANGED kbVars
  BY <1>1, PressKeeps, ReleaseKeeps DEF Press, Release
<1>2. CASE Irq1
  <2>1. Head(wire) \in Scancodes BY <1>2 DEF Irq1, KeysInv
  <2> QED BY <1>2, <2>1, Irq1Keeps DEF Irq1, KbNext
<1>3. CASE Consume
  BY <1>3, ConsumeKeeps DEF Consume, KbNext
<1>4. CASE UNCHANGED keysVars
  <2>1. /\ UNCHANGED kbVars /\ kb' = kb /\ get' = get /\ got' = got /\ lost' = lost
        /\ down' = down /\ wire' = wire /\ expect' = expect
    BY <1>4 DEF keysVars, kbVars
  <2>2. KbInv' BY <2>1 DEF KeysInv, KbInv, KbTypeOK, GetSafe, Empty, RingHoldsChars
  <2>3. View(kb)' = View(kb) BY <2>1 DEF View, Ring, Count, SlotAt
  <2>4. Typed' = Typed BY <2>1 DEF Typed
  <2> QED BY <2>1, <2>2, <2>3, <2>4 DEF KeysInv
<1> QED BY <1>1, <1>2, <1>3, <1>4 DEF KeysNext

(* At every moment the bytes in flight lead the driver to the state of the  *)
(* keyboard, for every keyboard that speaks scancode set 1.                 *)
THEOREM KeysInvariant == KeysSpec => []KeysInv
<1>1. KeysInv /\ [KeysNext]_keysVars => KeysInv'
  BY KeysNextInv
<1> QED BY <1>1, KeysInitInv, PTL DEF KeysSpec

(* Under a keyboard the driver is still the driver: what is proved of it    *)
(* for arbitrary bytes holds for those of keys.                             *)
THEOREM KeysImplementDriver == KeysSpec => KbSpec
<1>1. KeysInit => KbInit BY DEF KeysInit
<1>2. KeysInv /\ [KeysNext]_keysVars => [KbNext]_kbVars
  BY KeysNextInv
<1> QED BY <1>1, <1>2, KeysInvariant, PTL DEF KeysSpec, KbSpec

(* The queue that the driver implements, with characters that keys typed. *)
THEOREM KeysFifo == KeysSpec => ImplementsFifo
  BY KeysImplementDriver, KeyboardRefinesFifo

(* When every byte is handled, the Shift flags are the Shift keys, and no   *)
(* E0 is pending, whatever keys were pressed, held or released.             *)
THEOREM KeysShiftTracks == KeysSpec => []ShiftTracks
<1>1. KeysInv => ShiftTracks
  <2> SUFFICES ASSUME KeysInv, wire = <<>>
               PROVE  /\ kb.shift_left = (LeftShift \in down)
                      /\ kb.shift_right = (RightShift \in down) /\ ~kb.e0_prefix
    BY DEF ShiftTracks
  <2>1. View(kb) = Typed BY DEF KeysInv, Leads
  <2>2. /\ View(kb).shift_left = kb.shift_left /\ View(kb).shift_right = kb.shift_right
        /\ View(kb).e0_prefix = kb.e0_prefix
    BY DEF View
  <2>3. /\ Typed.shift_left = (LeftShift \in down) /\ Typed.e0_prefix = FALSE
        /\ Typed.shift_right = (RightShift \in down)
    BY DEF Typed
  <2> QED BY <2>1, <2>2, <2>3
<1> QED BY <1>1, KeysInvariant, PTL

(* The ring holds what was typed, in order and in the case it was typed in, *)
(* up to what is still on the wire.                                         *)
THEOREM KeysTypedInOrder == KeysSpec => []TypedInOrder
<1>1. KeysInv => TypedInOrder
  <2> SUFFICES ASSUME KeysInv PROVE TypedInOrder
    OBVIOUS
  <2>1. wire \in Seq(Scancodes) /\ expect \in Seq(Chars) BY DEF KeysInv
  <2>2. PICK tr : Traces(tr, wire) /\ tr[0] = View(kb) /\ tr[Len(wire)] = Typed
    BY DEF KeysInv, Leads
  <2>3. View(kb).q = Ring(kb) /\ Typed.q = expect BY DEF View, Typed
  <2>4. 0 \in 0 .. Len(wire) /\ Len(wire) \in 0 .. Len(wire) /\ 0 <= Len(wire)
    BY <2>1
  <2>5. Begins(Ring(kb), expect) /\ View(kb) \in Views
    BY <2>2, <2>3, <2>4 DEF Traces
  <2>6. Ring(kb) \in Seq(Chars) BY <2>3, <2>5 DEF Views
  <2>7. IsPrefix(Ring(kb), expect)
    <3> DEFINE r == Ring(kb)
               a == SubSeq(r, 1, Len(r))
               b == SubSeq(expect, 1, Len(r))
    <3>1. /\ r \in Seq(Chars) /\ Len(r) \in Nat /\ Len(r) <= Len(expect)
          /\ \A i \in 1 .. Len(r) : expect[i] = r[i]
      BY <2>5, <2>6 DEF Begins
    <3> HIDE DEF r
    <3>2. /\ a \in Seq(Chars) /\ Len(a) = Len(r) /\ \A i \in 1 .. Len(r) : a[i] = r[i]
      BY <3>1
    <3>3. /\ b \in Seq(Chars) /\ Len(b) = Len(r) /\ \A i \in 1 .. Len(r) : b[i] = expect[i]
      BY <2>1, <3>1
    <3>4. a = b
      <4> HIDE DEF a, b
      <4> QED BY <3>1, <3>2, <3>3, SeqEqual
    <3> QED BY <3>1, <3>4 DEF IsPrefix, r
  <2>8. wire = <<>> => expect = Ring(kb)
    BY <2>2, <2>3
  <2> QED BY <2>7, <2>8 DEF TypedInOrder
<1> QED BY <1>1, KeysInvariant, PTL
=============================================================================
