------------------------ MODULE MC_ToolchainInstall ------------------------
(***************************************************************************)
(* A config.gcc in which the lines of the two targets follow each other,   *)
(* and one target has a second line.                                       *)
(***************************************************************************)
EXTENDS ToolchainInstall

Other == [target |-> "none", id |-> 0]
MCOriginal ==
  << Other, [target |-> Elf, id |-> 1], [target |-> Mingw, id |-> 1], Other,
     [target |-> Mingw, id |-> 2], Other >>

MCPathKinds == {"absolute", "relative"}

=============================================================================
