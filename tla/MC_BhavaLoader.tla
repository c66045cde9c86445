--------------------------- MODULE MC_BhavaLoader ---------------------------
(***************************************************************************)
(* Small boot volumes: pages of 4 bytes, an int of 64 values, images of a  *)
(* few bytes.                                                              *)
(***************************************************************************)
EXTENDS BhavaLoader

Note == [load |-> FALSE, offset |-> 0, vaddr |-> 0, filesz |-> 0, memsz |-> 0]

\* Linked at 8, with three bytes of .bss.
Text == [load |-> TRUE, offset |-> 0, vaddr |-> 8, filesz |-> 6, memsz |-> 9]
Init1 == [type |-> "init", offset |-> 2, table |-> <<9, 12>>]
Fini1 == [type |-> "fini", offset |-> 5, table |-> <<10>>]
Other == [type |-> "other", offset |-> 0, table |-> <<>>]

\* Another segment of the same file that is linked elsewhere and is larger.
Wider == [load |-> TRUE, offset |-> 0, vaddr |-> 7, filesz |-> 7, memsz |-> 10]

Kernel(phs, sections) ==
  [kind |-> "kernel", elf |-> TRUE, phs |-> phs,
   hasSections |-> sections # <<>>, sections |-> sections, entry |-> 11]

Font(size) ==
  [kind |-> "font", magic |-> TRUE, headerSize |-> 2, charSize |-> 2,
   length |-> 3, size |-> size]

Modes == <<[horz |-> 2, vert |-> 1], [horz |-> 3, vert |-> 2],
           [horz |-> 4, vert |-> 3]>>

Machine(kernel, font) ==
  [kernel |-> kernel, font |-> font, modes |-> Modes, pages |-> 5]

MCCustom == [horz |-> 4, vert |-> 3]
MCBases == {4, 20}

\* What the loader expects, and machines that lack a file, a mode or memory,
\* or have a kernel of two segments, a font that is no PSF2 font or has a table
\* of Unicode values behind its glyphs, or sizes that no int holds.
Usual == Machine(Kernel(<<Text>>, <<Other, Init1, Fini1>>), Font(8))
MCUsual == {Usual, Machine(Kernel(<<Note, Text, Note>>, <<Init1>>), Font(8))}
MCAll ==
  MCUsual \cup
  {[Usual EXCEPT !.kernel = NoFile],
   [Usual EXCEPT !.font = NoFile],
   [Usual EXCEPT !.kernel.elf = FALSE, !.kernel.phs = <<>>],
   [Usual EXCEPT !.kernel.hasSections = FALSE, !.kernel.sections = <<>>],
   [Usual EXCEPT !.kernel.phs[1].memsz = 63],
   [Usual EXCEPT !.font.magic = FALSE],
   [Usual EXCEPT !.font.length = 19],
   [Usual EXCEPT !.font.size = 10],
   [Usual EXCEPT !.font.size = 20],
   [Usual EXCEPT !.modes = <<Modes[1]>>],
   [Usual EXCEPT !.kernel.phs = <<Text, Text>>],
   [Usual EXCEPT !.kernel.phs = <<Text, Wider>>, !.pages = 9],
   [Usual EXCEPT !.pages = 2],
   [Usual EXCEPT !.pages = 4]}

\* Uninitialised pointers to unused places of their own, or to one place.
MCHarmless == {<<"a", "b">>}
MCAnywhere == MCHarmless \cup {<<"a", "a">>}

=============================================================================
