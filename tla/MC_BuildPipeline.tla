-------------------------- MODULE MC_BuildPipeline --------------------------
(***************************************************************************)
(* Three versions of the sources: one in the emulator's directory, one in  *)
(* the build directories and one that is being written.                    *)
(***************************************************************************)
EXTENDS BuildPipeline


=============================================================================
