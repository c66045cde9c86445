--------------------------- MODULE MC_LanternBoot ---------------------------
(***************************************************************************)
(* Machines that have all the loader needs and kernels with constructors,  *)
(* a small memory map, and every failure of the firmware.                  *)
(***************************************************************************)
EXTENDS LanternBoot, MC_BhavaLoader

\* Displays of two modes.
MCBoot == {[m EXCEPT !.modes = Tail(@)] : m \in MCUsual}

MCStartDescs == 1 .. 2
MCSizes == {2}

=============================================================================
