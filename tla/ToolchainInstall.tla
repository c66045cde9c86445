-------------------------- MODULE ToolchainInstall --------------------------
(***************************************************************************)
(* scripts/install-toolchain.py: the sources of gcc and binutils are       *)
(* fetched, gcc's configuration is patched, and cross-compilers for two    *)
(* targets are built.  A run of the script may be interrupted or fail at   *)
(* any step and is then started again on what it left on the disk; of the  *)
(* commands it runs, configure and make, it checks no result.              *)
(*                                                                         *)
(* An archive or a source tree is absent, cut short ("part") or "whole".   *)
(* config.gcc is the sequence of its lines, of which only those that match *)
(* a target's pattern matter.                                              *)
(***************************************************************************)
EXTENDS Integers, Sequences, SequencesExt

CONSTANTS
  Mingw, Elf,            \* x86_64-w64-mingw32 and x86_64-elf
  Original,              \* the lines of config.gcc in the archive
  PathKinds,             \* "absolute", "relative": of --installpath
  MaxFailures            \* bound: the failures and interrupts of all runs

Targets == {Mingw, Elf}
Tools == {"gcc", "binutils"}

\* A line of config.gcc: the target whose pattern it matches, and which of
\* the lines with that property it is.
Lines == [target : Targets \cup {"none"}, id : Nat]

\* The line that is inserted, "tmake_file=..." with the newline at its end.
Tmake(target) == [target |-> "none", id |-> IF target = Mingw THEN 1 ELSE 2]

ASSUME ToolchainAssumption ==
  /\ Mingw # Elf /\ "none" \notin Targets
  /\ Original \in Seq(Lines) /\ Original # <<>>
  /\ Original[Len(Original)].target = "none"
  /\ \A m, n \in DOMAIN Original :
       Original[m] = Original[n] /\ Original[m].target # "none" => m = n
  /\ PathKinds \subseteq {"absolute", "relative"} /\ PathKinds # {}
  /\ MaxFailures \in Nat

\* The calls of main, in their order; prepare_modified_libgcc is four steps.
Step(op, tool, target) == [op |-> op, tool |-> tool, target |-> target]

\* Mutant: the second gcc is built before its assembler.
PlanGccFirst ==
  << Step("download", "gcc", "none"), Step("extract", "gcc", "none"),
     Step("download", "binutils", "none"), Step("extract", "binutils", "none"),
     Step("chdir", "none", "none"),
     Step("configure", "binutils", Mingw), Step("make", "binutils", Mingw),
     Step("nrz", "gcc", Mingw), Step("nrz", "gcc", Elf),
     Step("patch", "gcc", "none"), Step("write", "gcc", "none"),
     Step("configure", "gcc", Mingw), Step("make", "gcc", Mingw),
     Step("configure", "gcc", Elf), Step("make", "gcc", Elf),
     Step("configure", "binutils", Elf), Step("make", "binutils", Elf) >>

Plan ==
  << Step("download", "gcc", "none"), Step("extract", "gcc", "none"),
     Step("download", "binutils", "none"), Step("extract", "binutils", "none"),
     Step("chdir", "none", "none"),
     Step("configure", "binutils", Mingw), Step("make", "binutils", Mingw),
     Step("nrz", "gcc", Mingw), Step("nrz", "gcc", Elf),
     Step("patch", "gcc", "none"), Step("write", "gcc", "none"),
     Step("configure", "gcc", Mingw), Step("make", "gcc", Mingw),
     Step("configure", "binutils", Elf), Step("make", "binutils", Elf),
     Step("configure", "gcc", Elf), Step("make", "gcc", Elf) >>

VARIABLES
  \* On the disk
  archive, source,       \* of each tool
  config, nrz,           \* config.gcc; the file nrz-x86_64-... of each target
  buildDir,              \* of each tool and target
  installed,             \* parts of the toolchain, for which target
  redZone,               \* targets whose libgcc was built with a red zone
  \* The running script
  step,                  \* 0 if none runs, Len(Plan) + 1 when it has ended
  path,                  \* of --installpath
  file_lines, file_iter,
  troubled,              \* history: a command of this run failed by itself
  failures               \* history: what went wrong by itself, in all runs

disk == <<archive, source, config, nrz, buildDir, installed, redZone>>
patching == <<file_lines, file_iter>>
vars == <<disk, step, path, patching, troubled, failures>>

Parts(tool) == IF tool = "gcc" THEN {"gcc", "libgcc"} ELSE {"binutils"}
AllInstalled ==
  installed = {"gcc", "libgcc", "binutils"} \X Targets

\* config.gcc as it should be: each matching line has its tmake line once.
PatchedConfig ==
  FlattenSeq([n \in DOMAIN Original |->
    IF Original[n].target = "none" THEN <<Original[n]>>
    ELSE <<Original[n], Tmake(Original[n].target)>>])

-----------------------------------------------------------------------------
(* The user *)

Init ==
  /\ archive = [tool \in Tools |-> "none"]
  /\ source = [tool \in Tools |-> "none"]
  /\ config = <<>> /\ nrz = [t \in Targets |-> "none"]
  /\ buildDir = [tt \in Tools \X Targets |-> "none"]
  /\ installed = {} /\ redZone = {}
  /\ step = 0 /\ path \in PathKinds
  /\ file_lines = <<>> /\ file_iter = 0
  /\ troubled = FALSE /\ failures = 0

Start ==
  /\ step \in {0, Len(Plan) + 1}
  /\ step' = 1
  /\ troubled' = FALSE
  /\ UNCHANGED <<disk, path, patching>>

\* Mutant: a later run starts in the middle of the lines.
StopKeepsIterator ==
  /\ step' = 0 /\ file_lines' = <<>> /\ troubled' = FALSE
  /\ UNCHANGED <<path, file_iter>>

\* sys.exit, an exception, Ctrl-C or the end of the machine: what the step
\* wrote until then is on the disk.
Stop ==
  /\ step' = 0 /\ file_lines' = <<>> /\ file_iter' = 0 /\ troubled' = FALSE
  /\ UNCHANGED path

\* The loop over the lines of config.gcc leaves the disk alone: to be stopped
\* in it is to be stopped before it.
Interrupt ==
  /\ step \in 1 .. Len(Plan) /\ file_lines = <<>>
  /\ Stop
  /\ UNCHANGED disk

-----------------------------------------------------------------------------
(* fetch_source *)

Doing(op) == step \in 1 .. Len(Plan) /\ Plan[step].op = op
Advance == step' = step + 1 /\ UNCHANGED <<path, patching>>

Tool == Plan[step].tool
Target == Plan[step].target

\* A file of that name is taken for the archive.
Download ==
  /\ Doing("download")
  /\ \/ archive[Tool] # "none" /\ UNCHANGED archive
     \/ archive[Tool] = "none" /\ archive' = [archive EXCEPT ![Tool] = "whole"]
  /\ Advance
  /\ UNCHANGED <<source, config, nrz, buildDir, installed, redZone, troubled>>

\* The connection breaks, before or after the file is created.
DownloadFails ==
  /\ Doing("download")
  /\ archive[Tool] = "none"
  /\ archive' \in {archive, [archive EXCEPT ![Tool] = "part"]}
  /\ Stop
  /\ UNCHANGED <<source, config, nrz, buildDir, installed, redZone>>

\* Every run extracts again, over what is there.
Extract ==
  /\ Doing("extract")
  /\ archive[Tool] = "whole"
  /\ source' = [source EXCEPT ![Tool] = "whole"]
  /\ config' = IF Tool = "gcc" THEN Original ELSE config
  /\ Advance
  /\ UNCHANGED <<archive, nrz, buildDir, installed, redZone, troubled>>

\* Mutant: the script goes on after an archive that cannot be read.
ExtractFailsUnnoticed ==
  /\ Doing("extract")
  /\ \/ archive[Tool] = "part" /\ UNCHANGED <<source, config>>
     \/ /\ archive[Tool] = "whole"
        /\ source' = [source EXCEPT ![Tool] = "part"]
        /\ config' \in {config, IF Tool = "gcc" THEN Original ELSE config}
  /\ Advance
  /\ UNCHANGED <<archive, nrz, buildDir, installed, redZone, troubled>>

\* An archive that is cut short is noticed before anything is written; the
\* disk may fill up on the way.
ExtractFails ==
  /\ Doing("extract")
  /\ \/ archive[Tool] = "part" /\ UNCHANGED <<source, config>>
     \/ /\ archive[Tool] = "whole"
        /\ source' = [source EXCEPT ![Tool] = "part"]
        /\ config' \in {config, IF Tool = "gcc" THEN Original ELSE config}
  /\ Stop
  /\ UNCHANGED <<archive, nrz, buildDir, installed, redZone>>

\* "chdir back to root install dir to be safe": it is the current directory
\* already, in which a relative path names nothing.
ChdirToRoot ==
  /\ Doing("chdir")
  /\ IF path = "absolute" THEN Advance /\ UNCHANGED troubled ELSE Stop
  /\ UNCHANGED disk

-----------------------------------------------------------------------------
(* configure_source, build_binutils, build_gcc: "Success!" in any case *)

Dir == buildDir[<<Tool, Target>>]
SetDir(state) == buildDir' = [buildDir EXCEPT ![<<Tool, Target>>] = state]

\* Mutant: the directory of an earlier run is an error.
ConfigureFreshOnly ==
  /\ Doing("configure")
  /\ source[Tool] # "none"
  /\ IF Dir = "none" THEN SetDir("configured") /\ Advance /\ UNCHANGED troubled
                     ELSE UNCHANGED buildDir /\ Stop
  /\ UNCHANGED <<archive, source, config, nrz, installed, redZone>>

Configure ==
  /\ Doing("configure")
  /\ source[Tool] # "none"
  /\ SetDir("configured")
  /\ Advance
  /\ UNCHANGED <<archive, source, config, nrz, installed, redZone, troubled>>

\* In a directory of an earlier run, distclean may have worked or not.
ConfigureFails ==
  /\ Doing("configure")
  /\ SetDir("dir") \/ (Dir = "configured" /\ UNCHANGED buildDir)
  /\ troubled' = TRUE
  /\ Advance
  /\ UNCHANGED <<archive, source, config, nrz, installed, redZone>>

\* gcc needs the assembler and the linker of the target.
Makeable ==
  /\ Dir = "configured" /\ source[Tool] # "none"
  /\ Tool = "gcc" => <<"binutils", Target>> \in installed

\* make and make install, of which those in done succeed.
MakeParts(done) ==
  /\ Doing("make")
  /\ done # {} => Makeable
  /\ installed' = installed \cup (done \X {Target})
  /\ redZone' = IF "libgcc" \notin done THEN redZone
                ELSE IF nrz[Target] = "whole" /\ config = PatchedConfig
                     THEN redZone \ {Target} ELSE redZone \cup {Target}
  /\ troubled' = (troubled \/ (Makeable /\ done # Parts(Tool)))
  /\ Advance
  /\ UNCHANGED <<archive, source, config, nrz, buildDir>>

Make == Doing("make") /\ MakeParts(Parts(Tool))

MakeFails ==
  Doing("make") /\ \E done \in (SUBSET Parts(Tool)) \ {Parts(Tool)} : MakeParts(done)

-----------------------------------------------------------------------------
(* prepare_modified_libgcc *)

\* Mutant: only the first target gets its file.
WriteNrzOnce ==
  /\ Doing("nrz")
  /\ nrz' = IF Target = Mingw /\ nrz[Target] = "none"
            THEN [nrz EXCEPT ![Target] = "whole"] ELSE nrz
  /\ Advance
  /\ UNCHANGED <<archive, source, config, buildDir, installed, redZone, troubled>>

\* A file that exists is not written.
WriteNrz ==
  /\ Doing("nrz")
  /\ nrz' = IF nrz[Target] = "none" THEN [nrz EXCEPT ![Target] = "whole"] ELSE nrz
  /\ Advance
  /\ UNCHANGED <<archive, source, config, buildDir, installed, redZone, troubled>>

\* The script stops between open and the second write.
WriteNrzStops ==
  /\ Doing("nrz")
  /\ nrz[Target] = "none"
  /\ nrz' = [nrz EXCEPT ![Target] = "empty"]
  /\ Stop
  /\ UNCHANGED <<archive, source, config, buildDir, installed, redZone>>

ReadConfig ==
  /\ Doing("patch") /\ file_lines = <<>>
  /\ file_lines' = config /\ file_iter' = 0
  /\ UNCHANGED <<disk, step, path, troubled>>

Line == file_lines[file_iter + 1]

SkipLine ==
  /\ Doing("patch") /\ file_iter < Len(file_lines)
  /\ Line.target = "none"
  /\ file_iter' = file_iter + 1
  /\ UNCHANGED <<disk, step, path, file_lines, troubled>>

\* The iterator hands out the line that follows, which is never equal to the
\* text without a newline that it is compared with; the new line goes behind
\* the first line equal to this one, in the list that is being iterated over.
PatchLine ==
  /\ Doing("patch") /\ file_iter + 1 < Len(file_lines)
  /\ Line.target # "none"
  /\ LET line_index == CHOOSE n \in DOMAIN file_lines :
                         /\ file_lines[n] = Line
                         /\ \A k \in 1 .. n - 1 : file_lines[k] # Line
     IN  file_lines' = InsertAt(file_lines, line_index + 1, Tmake(Line.target))
  /\ file_iter' = file_iter + 2
  /\ UNCHANGED <<disk, step, path, troubled>>

PatchEnds ==
  /\ Doing("patch") /\ file_lines # <<>> /\ file_iter = Len(file_lines)
  /\ Advance
  /\ UNCHANGED <<disk, troubled>>

WriteConfig ==
  /\ Doing("write")
  /\ config' = file_lines
  /\ step' = step + 1 /\ UNCHANGED path
  /\ file_lines' = <<>> /\ file_iter' = 0
  /\ UNCHANGED <<archive, source, nrz, buildDir, installed, redZone, troubled>>

\* The file is empty once it is opened for writing.
WriteConfigStops ==
  /\ Doing("write")
  /\ config' = <<>>
  /\ Stop
  /\ UNCHANGED <<archive, source, nrz, buildDir, installed, redZone>>

-----------------------------------------------------------------------------

Succeeds ==
  \/ Download \/ Extract \/ ChdirToRoot \/ Configure \/ Make
  \/ WriteNrz \/ ReadConfig \/ SkipLine \/ PatchLine
  \/ PatchEnds \/ WriteConfig

\* The step has to fail, for something that went wrong before.
Forced ==
  \/ Doing("extract") /\ archive[Tool] = "part"
  \/ Doing("make") /\ ~ Makeable

Fails ==
  \/ DownloadFails \/ ExtractFails \/ ConfigureFails \/ MakeFails
  \/ WriteNrzStops \/ WriteConfigStops

Next ==
  \/ (Start \/ Succeeds \/ (Forced /\ Fails)) /\ UNCHANGED failures
  \/ /\ failures < MaxFailures
     /\ Fails \/ Interrupt
     /\ failures' = failures + 1

Spec == Init /\ [][Next]_vars

\* The script runs on, and the user starts it again when it has stopped.
\* That failures come to an end is the bound on their number.
FairSpec == Spec /\ WF_vars(Next)

-----------------------------------------------------------------------------
(* Properties *)

TypeOK ==
  /\ archive \in [Tools -> {"none", "part", "whole"}]
  /\ source \in [Tools -> {"none", "part", "whole"}]
  /\ config \in Seq(Lines) /\ file_lines \in Seq(Lines)
  /\ nrz \in [Targets -> {"none", "empty", "whole"}]
  /\ buildDir \in [Tools \X Targets -> {"none", "dir", "configured"}]
  /\ installed \subseteq {"gcc", "libgcc", "binutils"} \X Targets
  /\ redZone \subseteq Targets
  /\ step \in 0 .. Len(Plan) + 1 /\ path \in {"absolute", "relative"}
  /\ file_iter \in 0 .. Len(file_lines)
  /\ troubled \in BOOLEAN /\ failures \in 0 .. MaxFailures

\* Nothing is compiled from sources of which a part is missing, nor a gcc
\* from a config.gcc that is unpatched, patched twice or half written:
\* whatever earlier runs were interrupted in, the run that builds has
\* extracted the sources and patched them exactly once.
BuildsFromWholeSources ==
  [][\A tool \in Tools : Doing("make") /\ Tool = tool =>
       /\ source[tool] = "whole"
       /\ tool = "gcc" => config = PatchedConfig]_vars

\* The libgcc of a target has a red zone only if the script was stopped while
\* it wrote the target's nrz file, which no later run writes again.
RedZoneOnlyIfStopped == \A t \in redZone : nrz[t] = "empty"

\* A run that gets to its end installs all of the toolchain unless a command
\* failed by itself: each finds what it needs from the steps before it.
UntroubledRunInstalls ==
  step = Len(Plan) + 1 /\ ~troubled => AllInstalled

\* Trying again, with a path that the script can find twice, recovers from
\* every failure but two, which the next runs take for success: an archive
\* and an nrz file that exist and are not whole.
RetryRecovers ==
  <>(\/ AllInstalled /\ redZone = {}
     \/ \E tool \in Tools : archive[tool] = "part"
     \/ \E t \in Targets : nrz[t] = "empty"
     \/ path = "relative")

=============================================================================
