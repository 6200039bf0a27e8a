------------------------------- MODULE MCKeys -------------------------------
(* A letter, both Shift keys, a key without a character, an extended key    *)
(* whose second byte is the letter's code (as keypad Enter is to Enter) and *)
(* the fake left Shift that cursor keys send around themselves.             *)
EXTENDS Keys, TLC

MCCodes == {"LSHIFT", "RSHIFT", "EXT", "a", "F1"}
MCNormal == "a" :> "a" @@ [c \in MCCodes |-> NUL]
MCShift == "a" :> "A" @@ [c \in MCCodes |-> NUL]

MCMake == "kA" :> <<Make("a")>> @@ "kL" :> <<Make("LSHIFT")>>
          @@ "kR" :> <<Make("RSHIFT")>> @@ "kN" :> <<Make("F1")>>
          @@ "kX" :> <<E0, Make("a")>> @@ "kF" :> <<E0, Make("LSHIFT")>>
MCBreak == "kA" :> <<Break("a")>> @@ "kL" :> <<Break("LSHIFT")>>
           @@ "kR" :> <<Break("RSHIFT")>> @@ "kN" :> <<Break("F1")>>
           @@ "kX" :> <<E0, Break("a")>> @@ "kF" :> <<E0, Break("LSHIFT")>>
MCKeyCaps == {"kA", "kL", "kR", "kN", "kX", "kF"}
MCPlain == "kA" :> "a" @@ [k \in MCKeyCaps |-> NUL]
MCShifted == "kA" :> "A" @@ [k \in MCKeyCaps |-> NUL]
=============================================================================
