------------------------------- MODULE MC_TTY -------------------------------
(***************************************************************************)
(* Small consoles.  Glyphs are DrawnWidth pixels wide and glyphHeight      *)
(* high; character 0 is the space, 1 and 2 have distinct glyphs, 3 is      *)
(* '\n'.                                                                   *)
(***************************************************************************)
EXTENDS TTYTerminal

CONSTANTS Red, Green     \* colours other than Black

MCChars == {0, 1, 3}
MCTwoGlyphs == {0, 1, 2, 3}
MCColors == {Black, Red}
MCThreeColors == {Black, Red, Green}

\* Two bytes a row: the first bit of each byte is the leftmost pixel.
\* Character 1 is the pixel on the left, 2 the pixel on the right.
MCFontOneRow == [i \in 0 .. 5 |-> IF i \in {2, 5} THEN {0} ELSE {}]

\* Two rows a glyph; 1 is the left column, 2 the diagonal.
MCFontTwoRows ==
  [i \in 0 .. 11 |-> IF i \in {4, 6, 8, 11} THEN {0} ELSE {}]

\* Two strings: one that crosses the right margin, one that ends in '\n'.
MCStrings == {<<1, 0, 1>>, <<1, 3>>}
MCLongStrings == {<<1, 2, 0>>, <<2, 1, 3>>}

\* The mode set left the screen black, or left what was on it.
MCBlank == {[a \in FbWords |-> Black]}
MCLeftover == MCBlank \cup {[a \in FbWords |-> IF a % 3 = 0 THEN Red ELSE Black]}

=============================================================================
