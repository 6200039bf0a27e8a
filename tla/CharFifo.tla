------------------------------ MODULE CharFifo ------------------------------
(* What the keyboard driver promises its reader: a bounded queue of         *)
(* characters.  Characters come out in the order they went in; when the     *)
(* queue is full the newest character is lost and nothing else is.          *)
EXTENDS Naturals, Sequences

CONSTANTS Capacity, FifoChars

VARIABLES q,       \* characters waiting, oldest first
          got,     \* the character most recently taken, <<>> before the first
          lost     \* some character has been dropped

fifoVars == <<q, got, lost>>

Init == q = <<>> /\ got = <<>> /\ lost = FALSE

Put ==
  /\ Len(q) < Capacity
  /\ \E c \in FifoChars : q' = Append(q, c)
  /\ UNCHANGED <<got, lost>>

DropNewest ==
  /\ Len(q) = Capacity
  /\ lost' = TRUE
  /\ UNCHANGED <<q, got>>

Get ==
  /\ q # <<>>
  /\ q' = Tail(q)
  /\ got' = <<Head(q)>>
  /\ lost' = lost

Next == Put \/ DropNewest \/ Get

Spec == Init /\ [][Next]_fifoVars
=============================================================================
