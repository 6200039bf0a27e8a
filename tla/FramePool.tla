----------------------------- MODULE FramePool -----------------------------
(* What the physical memory manager promises its callers (pmm.h): a pool   *)
(* of frames that hands out the lowest free frame, answers 0 exactly when   *)
(* nothing is free, and takes back what it handed out.  There is no bitmap, *)
(* no counter and no search hint here.                                      *)
EXTENDS Naturals

CONSTANT PoolAddrs        \* the frame addresses the pool may consist of

VARIABLES free,           \* addresses nobody holds
          held,           \* addresses handed out and not yet given back
          ret             \* the answer of the latest request, 0 = none

poolVars == <<free, held, ret>>

Init ==
  /\ free \in SUBSET (PoolAddrs \ {0})
  /\ held = {}
  /\ ret = 0

Take ==
  \E pa \in free :
    /\ \A other \in free : pa <= other
    /\ free' = free \ {pa}
    /\ held' = held \cup {pa}
    /\ ret' = pa

Refuse ==
  /\ free = {}
  /\ ret' = 0
  /\ UNCHANGED <<free, held>>

Give ==
  \E pa \in held :
    /\ free' = free \cup {pa}
    /\ held' = held \ {pa}
    /\ ret' = ret

Next == Take \/ Refuse \/ Give

Spec == Init /\ [][Next]_poolVars
=============================================================================
