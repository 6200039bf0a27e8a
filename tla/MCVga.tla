------------------------------- MODULE MCVga -------------------------------
(* Two lines of three columns; one glyph, which the diagnostic repeats.     *)
EXTENDS Vga

MCDiagnostic == <<"m", "m">>
=============================================================================
