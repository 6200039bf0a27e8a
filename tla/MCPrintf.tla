------------------------------ MODULE MCPrintf ------------------------------
(* Integers of five and eight bits.  A call is one piece of format out of   *)
(* all kinds, a second piece that shows a shifted argument or a stale       *)
(* setting, and a tail at which the format may break off.                   *)
EXTENDS Printf

Piece(fmt, args, shows) == [fmt |-> fmt, args |-> args, shows |-> shows]
Join(a, b) == [k \in DOMAIN a |-> a[k] \o b[k]]

MCWidths == {<<<<>>, 0>>, <<<<"2">>, 2>>, <<<<"1", "0">>, 10>>}
MCLengths == {<<>>, <<"l">>, <<"l", "l">>, <<"z">>}
MCSlots == {0, 9, 10, 15, 16, 31, 127, 128, 255}

Integer(zero, w, l, conv, slot) ==
  Piece(<<"%">> \o (IF zero THEN <<"0">> ELSE <<>>) \o w[1] \o l \o <<conv>>,
        <<slot>>, Shown(zero, w[2], l # <<>>, conv, slot))

Numbers == {Integer(z, w, l, c, s) : z \in BOOLEAN, w \in MCWidths,
                l \in MCLengths, c \in {"d", "u", "x", "X"}, s \in MCSlots}

Others ==
  {Piece(<<"a">>, <<>>, <<"a">>),
   Piece(<<"%", "%">>, <<>>, <<"%">>),
   Piece(<<"%", "5", "%">>, <<>>, <<"%">>),
   Piece(<<"%", "c">>, <<"b">>, <<"b">>),
   Piece(<<"%", "s">>, <<<<"h", "i">>>>, <<"h", "i">>),
   Piece(<<"%", "s">>, <<<<>>>>, <<>>),
   Piece(<<"%", "p">>, <<10>>, <<"0", "x", "0", "a">>),
   Piece(<<"%", "p">>, <<255>>, <<"0", "x", "f", "f">>),
   Piece(<<"%", "q">>, <<>>, <<>>),
   Piece(<<"%", "0", "7", "l", "q">>, <<>>, <<>>)}

Probes == {Integer(FALSE, <<<<>>, 0>>, <<>>, "d", 255),
           Integer(FALSE, <<<<"2">>, 2>>, <<"l">>, "x", 3)} \cup Others

MCTails == {<<>>, <<"%">>, <<"%", "0">>, <<"%", "3">>, <<"%", "l">>,
            <<"%", "0", "2", "l", "l">>}

MCCalls == {Join(Join(a, b), Piece(t, <<>>, <<>>)) :
              a \in Numbers \cup Others, b \in Probes, t \in MCTails}
=============================================================================
