--------------------------- MODULE BuildPipeline ---------------------------
(***************************************************************************)
(* scripts/build.py: loader, libk and kernel are built with cmake and make *)
(* and moved to the directory the emulator boots from.  The results of the *)
(* commands are not looked at; a move of a file that is not there raises an *)
(* exception.  Sources are edited between the runs and while one is under  *)
(* way.                                                                    *)
(*                                                                         *)
(* A file is described by the version of the sources it was built from, 0  *)
(* if it does not exist.  make is modelled by what it promises.  The unit  *)
(* tests at the end are left out: they belong to libk.                     *)
(***************************************************************************)
EXTENDS Integers

CONSTANTS
  MaxSource,             \* bound: the versions the sources go through
  MaxFailures            \* bound: the failures and interrupts of all runs

ASSUME BuildAssumption == MaxSource \in Nat \ {0} /\ MaxFailures \in Nat

Types == {"Debug", "Release"}
Version == 0 .. MaxSource

\* The kernel with the libk that is linked into it, and whether its debugging
\* information is still there.
NoKernel == [src |-> 0, libk |-> 0, debug |-> FALSE]
Kernel ==
  [src : 1 .. MaxSource, libk : 1 .. MaxSource, debug : BOOLEAN] \cup {NoKernel}

VARIABLES
  source,                \* the version of the sources
  \* The build directories, for each type
  exe, libk,             \* BhavaLoader.exe, libnamelesslibk.a
  kernel, dbg,           \* LanternOS and LanternOS.dbg
  binDir,                \* kernel/bin exists
  \* VMTestBed/Boot
  bootDir,
  bootLoader, bootKernel, bootDbg,
  \* The script
  pc, build_type,
  began,                 \* history: the sources at the start of the run
  troubled,              \* history: a command failed by itself, or the user
                         \* stopped it
  aborted,               \* history: the last run of the type was aborted
  resumed,               \* history: and was so when this one started
  failures               \* history: of all runs

built == <<exe, libk, kernel, dbg, binDir>>
boot == <<bootDir, bootLoader, bootKernel, bootDbg>>
history == <<began, troubled, aborted, resumed, failures>>
vars == <<source, built, boot, pc, build_type, history>>

Init ==
  /\ source = 1
  /\ exe = [t \in Types |-> 0] /\ libk = [t \in Types |-> 0]
  /\ kernel = [t \in Types |-> NoKernel] /\ dbg = [t \in Types |-> NoKernel]
  /\ binDir = [t \in Types |-> FALSE]
  /\ bootDir = FALSE
  /\ bootLoader = [type |-> "Release", src |-> 0]
  /\ bootKernel = [type |-> "Release", file |-> NoKernel] /\ bootDbg = NoKernel
  /\ pc = "aborted" /\ build_type \in Types
  /\ began = 1 /\ troubled = FALSE
  /\ aborted = [t \in Types |-> FALSE] /\ resumed = FALSE /\ failures = 0

\* The programmer edits, at any time.
Edit ==
  /\ source < MaxSource
  /\ source' = source + 1
  /\ UNCHANGED <<built, boot, pc, build_type, history>>

Start ==
  /\ pc \in {"ended", "aborted"}
  /\ build_type' \in Types
  /\ pc' = "loader" /\ began' = source /\ troubled' = FALSE
  /\ resumed' = aborted[build_type']
  /\ aborted' = [aborted EXCEPT ![build_type'] = FALSE]
  /\ UNCHANGED <<source, built, boot, failures>>

Fine == UNCHANGED <<troubled, failures>>
Failed ==
  /\ failures < MaxFailures
  /\ troubled' = TRUE /\ failures' = failures + 1

\* An exception or Ctrl-C.
Abort ==
  /\ pc' = "aborted"
  /\ aborted' = [aborted EXCEPT ![build_type] = TRUE]
  /\ UNCHANGED <<source, build_type, began, resumed>>

Interrupt ==
  /\ pc \notin {"ended", "aborted"}
  /\ Abort /\ Failed
  /\ UNCHANGED <<built, boot>>

-----------------------------------------------------------------------------
(* cmake and make.  What fails leaves the file of an earlier run, or none  *)

At(place) == pc = place
GoTo(place) ==
  pc' = place /\ UNCHANGED <<source, build_type, began, aborted, resumed>>

BuildLoader ==
  /\ At("loader") /\ GoTo("libk")
  /\ \/ Fine /\ exe' = [exe EXCEPT ![build_type] = source]
     \/ Failed /\ exe' \in {exe, [exe EXCEPT ![build_type] = 0]}
  /\ UNCHANGED <<libk, kernel, dbg, binDir, boot>>

BuildLibk ==
  /\ At("libk") /\ GoTo("kernel")
  /\ \/ Fine /\ libk' = [libk EXCEPT ![build_type] = source]
     \/ Failed /\ libk' \in {libk, [libk EXCEPT ![build_type] = 0]}
  /\ UNCHANGED <<exe, kernel, dbg, binDir, boot>>

\* The kernel is linked again unless it is newer than its sources and libk.
UpToDate(file) == file.src = source /\ file.libk = libk[build_type]

\* Mutant: the kernel does not depend on the file of libk.
BuildKernelIgnoresLibk ==
  /\ At("kernel") /\ GoTo("keep_debug")
  /\ \/ /\ libk[build_type] > 0 /\ Fine
        /\ kernel' = IF kernel[build_type].src = source THEN kernel
                     ELSE [kernel EXCEPT ![build_type] =
                       [src |-> source, libk |-> libk[build_type], debug |-> TRUE]]
        /\ binDir' = [binDir EXCEPT ![build_type] = TRUE]
     \/ /\ Failed \/ (libk[build_type] = 0 /\ Fine)
        /\ kernel' \in {kernel, [kernel EXCEPT ![build_type] = NoKernel]}
        /\ binDir' \in {binDir, [binDir EXCEPT ![build_type] = TRUE]}
  /\ UNCHANGED <<exe, libk, dbg, boot>>

\* Mutant: the kernel is linked without libk if there is none.
BuildKernelWithoutLibk ==
  /\ At("kernel") /\ GoTo("keep_debug")
  /\ \/ /\ Fine
        /\ kernel' = IF UpToDate(kernel[build_type]) THEN kernel
                     ELSE [kernel EXCEPT ![build_type] =
                       [src |-> source, libk |-> libk[build_type], debug |-> TRUE]]
        /\ binDir' = [binDir EXCEPT ![build_type] = TRUE]
     \/ /\ Failed \/ (libk[build_type] = 0 /\ Fine)
        /\ kernel' \in {kernel, [kernel EXCEPT ![build_type] = NoKernel]}
        /\ binDir' \in {binDir, [binDir EXCEPT ![build_type] = TRUE]}
  /\ UNCHANGED <<exe, libk, dbg, boot>>

BuildKernel ==
  /\ At("kernel") /\ GoTo("keep_debug")
  /\ \/ /\ libk[build_type] > 0 /\ Fine
        /\ kernel' = IF UpToDate(kernel[build_type]) THEN kernel
                     ELSE [kernel EXCEPT ![build_type] =
                       [src |-> source, libk |-> libk[build_type], debug |-> TRUE]]
        /\ binDir' = [binDir EXCEPT ![build_type] = TRUE]
     \/ /\ Failed \/ (libk[build_type] = 0 /\ Fine)
        /\ kernel' \in {kernel, [kernel EXCEPT ![build_type] = NoKernel]}
        /\ binDir' \in {binDir, [binDir EXCEPT ![build_type] = TRUE]}
  /\ UNCHANGED <<exe, libk, dbg, boot>>

-----------------------------------------------------------------------------
(* The files are split and moved *)

\* Mutant: the debugging information is kept of a kernel without it.
KeepDebugOfStripped ==
  /\ At("keep_debug") /\ binDir[build_type] /\ GoTo("strip")
  /\ \/ /\ kernel[build_type].src > 0 /\ Fine
        /\ dbg' = [dbg EXCEPT ![build_type] =
                     [kernel[build_type] EXCEPT !.debug = FALSE]]
     \/ (Failed \/ (kernel[build_type].src = 0 /\ Fine)) /\ UNCHANGED dbg
  /\ UNCHANGED <<exe, libk, kernel, binDir, boot>>

KeepDebug ==
  /\ At("keep_debug") /\ binDir[build_type] /\ GoTo("strip")
  /\ \/ /\ kernel[build_type].src > 0 /\ Fine
        /\ dbg' = [dbg EXCEPT ![build_type] = kernel[build_type]]
     \/ (Failed \/ (kernel[build_type].src = 0 /\ Fine)) /\ UNCHANGED dbg
  /\ UNCHANGED <<exe, libk, kernel, binDir, boot>>

StripDebug ==
  /\ At("strip")
  /\ GoTo(IF build_type = "Debug" THEN "move_dbg" ELSE "move_loader")
  /\ \/ /\ kernel[build_type].src > 0 /\ Fine
        /\ kernel' = [kernel EXCEPT ![build_type].debug = FALSE]
     \/ (Failed \/ (kernel[build_type].src = 0 /\ Fine)) /\ UNCHANGED kernel
  /\ UNCHANGED <<exe, libk, dbg, binDir, boot>>

\* For a Debug build it is the Release build's file that is moved.
MoveDbg ==
  /\ At("move_dbg") /\ dbg["Release"].src > 0 /\ bootDir
  /\ bootDbg' = dbg["Release"]
  /\ dbg' = [dbg EXCEPT !["Release"] = NoKernel]
  /\ GoTo("move_loader") /\ Fine
  /\ UNCHANGED <<exe, libk, kernel, binDir, bootDir, bootLoader, bootKernel>>

\* Mutant: the loader is copied.
MoveLoaderCopies ==
  /\ At("move_loader") /\ exe[build_type] > 0
  /\ bootDir' = TRUE
  /\ bootLoader' = [type |-> build_type, src |-> exe[build_type]]
  /\ GoTo("move_kernel") /\ Fine
  /\ UNCHANGED <<built, bootKernel, bootDbg>>

MoveLoader ==
  /\ At("move_loader") /\ exe[build_type] > 0
  /\ bootDir' = TRUE
  /\ bootLoader' = [type |-> build_type, src |-> exe[build_type]]
  /\ exe' = [exe EXCEPT ![build_type] = 0]
  /\ GoTo("move_kernel") /\ Fine
  /\ UNCHANGED <<libk, kernel, dbg, binDir, bootKernel, bootDbg>>

MoveKernel ==
  /\ At("move_kernel") /\ kernel[build_type].src > 0
  /\ bootKernel' = [type |-> build_type, file |-> kernel[build_type]]
  /\ kernel' = [kernel EXCEPT ![build_type] = NoKernel]
  /\ GoTo("font") /\ Fine
  /\ UNCHANGED <<exe, libk, dbg, binDir, bootDir, bootLoader, bootDbg>>

\* Nothing here reads the font: the copy ends the run.
CopyFont ==
  /\ At("font")
  /\ GoTo("ended") /\ Fine
  /\ UNCHANGED <<built, boot>>

\* A directory or a file is missing.
Raises ==
  /\ \/ At("keep_debug") /\ ~ binDir[build_type] /\ UNCHANGED bootDir
     \/ At("move_dbg") /\ ~ (dbg["Release"].src > 0 /\ bootDir) /\ UNCHANGED bootDir
     \/ At("move_loader") /\ exe[build_type] = 0 /\ bootDir' = TRUE
     \/ At("move_kernel") /\ kernel[build_type].src = 0 /\ UNCHANGED bootDir
  /\ Abort /\ Fine
  /\ UNCHANGED <<built, bootLoader, bootKernel, bootDbg>>

\* The user has put no font into Vendor/font.
NoFont ==
  /\ At("font")
  /\ Abort /\ Failed
  /\ UNCHANGED <<built, boot>>

Next ==
  \/ Edit \/ Start \/ Interrupt
  \/ BuildLoader \/ BuildLibk \/ BuildKernel
  \/ KeepDebug \/ StripDebug
  \/ MoveDbg \/ MoveLoader \/ MoveKernel \/ CopyFont \/ Raises \/ NoFont

Spec == Init /\ [][Next]_vars

-----------------------------------------------------------------------------
(* Properties *)

NumbersOK ==
  /\ source \in 1 .. MaxSource
  /\ exe \in [Types -> Version] /\ libk \in [Types -> Version]
  /\ began \in 1 .. MaxSource /\ began <= source
  /\ failures \in 0 .. MaxFailures

FilesOK ==
  /\ kernel \in [Types -> Kernel] /\ dbg \in [Types -> Kernel]
  /\ bootLoader \in [type : Types, src : Version]
  /\ bootKernel \in [type : Types, file : Kernel] /\ bootDbg \in Kernel

FlagsOK ==
  /\ binDir \in [Types -> BOOLEAN] /\ bootDir \in BOOLEAN
  /\ troubled \in BOOLEAN
  /\ aborted \in [Types -> BOOLEAN] /\ resumed \in BOOLEAN

PlacesOK ==
  /\ pc \in {"ended", "aborted", "loader", "libk", "kernel", "keep_debug",
             "strip", "move_dbg", "move_loader", "move_kernel", "font"}
  /\ build_type \in Types

TypeOK == NumbersOK /\ FilesOK /\ FlagsOK /\ PlacesOK

\* A run that ends and in which nothing failed or was edited leaves a loader
\* and a kernel of these sources, with libk of these sources in it, whatever
\* runs that failed or were stopped had left in the build directories.
UntroubledBuildIsCurrent ==
  pc = "ended" /\ began = source /\ ~ troubled =>
    /\ bootLoader = [type |-> build_type, src |-> source]
    /\ bootKernel.type = build_type
    /\ bootKernel.file = [src |-> source, libk |-> source, debug |-> FALSE]

\* The script looks at no result of make, and still does not boot an old
\* loader or kernel as if it were new: since the files are moved away, one
\* that was not built again is not there and the run is aborted.  Only what an
\* aborted run left behind can be taken for new.
StaleOnlyAfterAbort ==
  pc = "ended" /\ ~ resumed =>
    bootLoader.src >= began /\ bootKernel.file.src >= began

\* For the same reason the kernel still has its debugging information when a
\* copy of it is made, unless an aborted run has stripped it.
DebugLostOnlyAfterAbort ==
  [][dbg' # dbg /\ ~ At("move_dbg") /\ ~ resumed
     => dbg'[build_type].debug]_vars

-----------------------------------------------------------------------------
(* What the help of the script says, and it does not do *)

\* "--build: Whether to build Debug or Release": a build in which nothing
\* fails is not aborted, whichever of the two it is.
UntroubledRunEnds == aborted[build_type] => troubled

=============================================================================
