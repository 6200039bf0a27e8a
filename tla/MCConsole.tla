----------------------------- MODULE MCConsole -----------------------------
(* Two letters and a key release; the ring has one or three usable slots.   *)
EXTENDS Console, TLC

MCCodes == {"LSHIFT", "RSHIFT", "EXT", "a", "b"}
MCNormal == "a" :> "a" @@ "b" :> "b" @@ [c \in MCCodes |-> NUL]
MCShift == MCNormal

MCBytes == [code : {"a", "b"}, release : {FALSE}]
             \cup {[code |-> "a", release |-> TRUE]}

MCBiosPics == {[irr |-> {}, isr |-> {}, imr |-> IrqNumbers \ {0, 1}]}
=============================================================================
