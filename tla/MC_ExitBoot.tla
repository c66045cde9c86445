---------------------------- MODULE MC_ExitBoot ----------------------------
(***************************************************************************)
(* Small memory maps.  Descriptor sizes 2 and 3 differ from the one byte   *)
(* of the probe, as every real size does.                                  *)
(***************************************************************************)
EXTENDS ExitBoot

MCStartDescs == 1 .. 3
MCSizes == {2, 3}

=============================================================================
