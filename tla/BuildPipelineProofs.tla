------------------------ MODULE BuildPipelineProofs ------------------------
(***************************************************************************)
(* Proofs about the build script, for any number of versions and failures. *)
(*                                                                         *)
(* What the properties say of the end of a run follows from what holds at  *)
(* each place of it: the files that are already built or moved, and that   *)
(* nothing is left of a run that ended.                                    *)
(***************************************************************************)
EXTENDS BuildPipeline, TLAPS

Running == pc \notin {"ended", "aborted"}

\* No file is newer than the sources.
NotNewer ==
  /\ \A t \in Types :
       /\ exe[t] <= source /\ libk[t] <= source
       /\ kernel[t].src <= source /\ kernel[t].libk <= source
  /\ bootLoader.src <= source
  /\ bootKernel.file.src <= source /\ bootKernel.file.libk <= source

\* A run that ended has moved its files away.
MovedAway ==
  /\ \A t \in Types : ~ aborted[t] /\ (t # build_type \/ ~ Running) =>
       exe[t] = 0 /\ kernel[t] = NoKernel
  /\ pc \in {"move_kernel", "font", "ended"} => exe[build_type] = 0
  /\ pc \in {"font", "ended"} => kernel[build_type] = NoKernel

\* If nothing was left when the run started, all there is is new.
NewUnlessResumed ==
  ~ resumed =>
    /\ Running =>
         /\ exe[build_type] = 0 \/ exe[build_type] >= began
         /\ \/ kernel[build_type] = NoKernel
            \/ /\ kernel[build_type].src >= began
               /\ pc \in {"loader", "libk", "kernel", "keep_debug"} =>
                    kernel[build_type].debug
    /\ pc \in {"move_kernel", "font", "ended"} => bootLoader.src >= began
    /\ pc \in {"font", "ended"} => bootKernel.file.src >= began

\* If nothing failed so far, all that was built in this run is new.
NewUnlessTroubled ==
  ~ troubled =>
    /\ pc \in {"libk", "kernel", "keep_debug", "strip", "move_dbg",
               "move_loader"} => exe[build_type] >= began
    /\ pc \in {"kernel", "keep_debug", "strip", "move_dbg", "move_loader",
               "move_kernel"} => libk[build_type] >= began
    /\ pc \in {"keep_debug", "strip", "move_dbg", "move_loader",
               "move_kernel"} =>
         kernel[build_type].src >= began /\ kernel[build_type].libk >= began
    /\ pc \in {"move_dbg", "move_loader", "move_kernel"} =>
         ~ kernel[build_type].debug
    /\ pc \in {"move_kernel", "font", "ended"} =>
         bootLoader.type = build_type /\ bootLoader.src >= began
    /\ pc \in {"font", "ended"} =>
         /\ bootKernel.type = build_type
         /\ bootKernel.file.src >= began /\ bootKernel.file.libk >= began
         /\ ~ bootKernel.file.debug

IInv == TypeOK /\ NotNewer /\ MovedAway /\ NewUnlessResumed /\ NewUnlessTroubled

\* Records of kernel files, and what the script makes of them.
LEMMA KernelForm ==
  /\ NoKernel \in Kernel /\ NoKernel.src = 0 /\ NoKernel.libk = 0
  /\ \A k \in Kernel :
       /\ k.src \in 0 .. MaxSource /\ k.libk \in 0 .. MaxSource
       /\ k.debug \in BOOLEAN
       /\ k.src = 0 => k = NoKernel
       /\ k.src > 0 => /\ [k EXCEPT !.debug = FALSE] \in Kernel
                       /\ [k EXCEPT !.debug = FALSE].src = k.src
                       /\ [k EXCEPT !.debug = FALSE].libk = k.libk
                       /\ [k EXCEPT !.debug = FALSE].debug = FALSE
  /\ \A v, w \in 1 .. MaxSource :
       LET k == [src |-> v, libk |-> w, debug |-> TRUE]
       IN  k \in Kernel /\ k.src = v /\ k.libk = w /\ k.debug
<1>1. NoKernel \in Kernel /\ NoKernel.src = 0 /\ NoKernel.libk = 0
  BY DEF NoKernel, Kernel
<1>2. ASSUME NEW k \in Kernel
      PROVE  /\ k.src \in 0 .. MaxSource /\ k.libk \in 0 .. MaxSource
             /\ k.debug \in BOOLEAN
             /\ k.src = 0 => k = NoKernel
  <2>1. CASE k = NoKernel
    BY <2>1, <1>1, BuildAssumption DEF NoKernel
  <2>2. CASE k \in [src : 1 .. MaxSource, libk : 1 .. MaxSource, debug : BOOLEAN]
    BY <2>2, BuildAssumption
  <2>3. QED
    BY <2>1, <2>2 DEF Kernel
<1>3. ASSUME NEW k \in Kernel, k.src > 0
      PROVE  /\ [k EXCEPT !.debug = FALSE] \in Kernel
             /\ [k EXCEPT !.debug = FALSE].src = k.src
             /\ [k EXCEPT !.debug = FALSE].libk = k.libk
             /\ [k EXCEPT !.debug = FALSE].debug = FALSE
  <2>1. k \in [src : 1 .. MaxSource, libk : 1 .. MaxSource, debug : BOOLEAN]
    BY <1>3 DEF Kernel, NoKernel
  <2>2. QED
    BY <2>1 DEF Kernel
<1>4. ASSUME NEW v \in 1 .. MaxSource, NEW w \in 1 .. MaxSource
      PROVE  LET k == [src |-> v, libk |-> w, debug |-> TRUE]
             IN  k \in Kernel /\ k.src = v /\ k.libk = w /\ k.debug
  BY DEF Kernel
<1>5. QED
  BY <1>1, <1>2, <1>3, <1>4

\* A flag that is set for one type stays a flag for each.
LEMMA FlagForm ==
  \A f \in [Types -> BOOLEAN] : \A t \in Types :
    [f EXCEPT ![t] = TRUE] \in [Types -> BOOLEAN]
  OBVIOUS

\* Every version is a number.
LEMMA VersionForm ==
  TypeOK =>
    /\ source \in Nat /\ began \in Nat /\ build_type \in Types
    /\ \A t \in Types : /\ exe[t] \in Nat /\ libk[t] \in Nat
                        /\ kernel[t] \in Kernel
                        /\ kernel[t].src \in Nat /\ kernel[t].libk \in Nat
    /\ bootLoader.src \in Nat
    /\ bootKernel.file.src \in Nat /\ bootKernel.file.libk \in Nat
<1> SUFFICES ASSUME TypeOK
    PROVE  /\ source \in Nat /\ began \in Nat /\ build_type \in Types
           /\ \A t \in Types : /\ exe[t] \in Nat /\ libk[t] \in Nat
                               /\ kernel[t] \in Kernel
                               /\ kernel[t].src \in Nat /\ kernel[t].libk \in Nat
           /\ bootLoader.src \in Nat
           /\ bootKernel.file.src \in Nat /\ bootKernel.file.libk \in Nat
  OBVIOUS
<1>1. \A n \in Version : n \in Nat
  BY BuildAssumption DEF Version
<1>2. \A k \in Kernel : k.src \in Nat /\ k.libk \in Nat
  BY KernelForm, <1>1 DEF Version
<1>3. bootKernel.file \in Kernel /\ bootLoader.src \in Version
  BY DEF TypeOK, FilesOK
<1>4. QED
  BY <1>1, <1>2, <1>3, BuildAssumption
     DEF TypeOK, NumbersOK, FilesOK, PlacesOK

\* Nothing is built yet.
LEMMA InitIInv == Init => IInv
<1> SUFFICES ASSUME Init PROVE IInv
  OBVIOUS
<1> USE BuildAssumption, KernelForm DEF Init, Version
<1>1. TypeOK
  <2>1. NumbersOK
    BY DEF NumbersOK
  <2>2. FilesOK
    BY DEF FilesOK, Types
  <2>3. FlagsOK
    BY DEF FlagsOK
  <2>4. PlacesOK
    BY DEF PlacesOK
  <2>5. QED
    BY <2>1, <2>2, <2>3, <2>4 DEF TypeOK
<1>2. NotNewer /\ MovedAway
  BY DEF NotNewer, MovedAway, Running
<1>3. NewUnlessResumed /\ NewUnlessTroubled
  BY DEF NewUnlessResumed, NewUnlessTroubled, Running
<1>4. QED
  BY <1>1, <1>2, <1>3 DEF IInv

\* One lemma per action: the invariant is kept.
LEMMA EditIInv == IInv /\ Edit => IInv'
<1> SUFFICES ASSUME IInv, Edit PROVE IInv'
  OBVIOUS
<1> USE BuildAssumption, KernelForm, VersionForm DEF IInv, TypeOK, NumbersOK,
        FilesOK, FlagsOK, PlacesOK, Version, Edit, built, boot, history
<1>1. NumbersOK'
  OBVIOUS
<1>2. FilesOK'
  BY DEF Types
<1>3. FlagsOK'
  OBVIOUS
<1>4. PlacesOK'
  BY DEF Types
<1>5. NotNewer'
  BY DEF NotNewer
<1>6. MovedAway'
  BY DEF MovedAway, Running
<1>7. NewUnlessResumed'
  BY DEF MovedAway, NewUnlessResumed, Running
<1>8. NewUnlessTroubled'
  BY DEF NotNewer, NewUnlessTroubled
<1>9. QED
  BY <1>1, <1>2, <1>3, <1>4, <1>5, <1>6, <1>7, <1>8

\* Each step of the script and each event around it keeps IInv: a run starts with
\* what the last one left.
LEMMA StartIInv == IInv /\ Start => IInv'
<1> SUFFICES ASSUME IInv, Start PROVE IInv'
  OBVIOUS
<1> USE BuildAssumption, KernelForm, VersionForm DEF IInv, TypeOK, NumbersOK,
        FilesOK, FlagsOK, PlacesOK, Version, Start, built, boot
<1>1. NumbersOK'
  OBVIOUS
<1>2. FilesOK'
  BY DEF Types
<1>3. FlagsOK'
  OBVIOUS
<1>4. PlacesOK'
  BY DEF Types
<1>5. NotNewer'
  BY DEF NotNewer
<1>6. MovedAway'
  BY DEF MovedAway, Running
<1>7. NewUnlessResumed'
  BY DEF MovedAway, NewUnlessResumed, Running
<1>8. NewUnlessTroubled'
  BY DEF NotNewer, NewUnlessTroubled
<1>9. QED
  BY <1>1, <1>2, <1>3, <1>4, <1>5, <1>6, <1>7, <1>8

\* A run that is stopped is one that was aborted.
LEMMA InterruptIInv == IInv /\ Interrupt => IInv'
<1> SUFFICES ASSUME IInv, Interrupt PROVE IInv'
  OBVIOUS
<1> USE BuildAssumption, KernelForm, VersionForm DEF IInv, TypeOK, NumbersOK,
        FilesOK, FlagsOK, PlacesOK, Version, Interrupt, Abort, Failed, built,
        boot
<1>1. NumbersOK'
  OBVIOUS
<1>2. FilesOK'
  BY DEF Types
<1>3. FlagsOK'
  OBVIOUS
<1>4. PlacesOK'
  BY DEF Types
<1>5. NotNewer'
  BY DEF NotNewer
<1>6. MovedAway'
  BY DEF MovedAway, Running
<1>7. NewUnlessResumed'
  BY DEF MovedAway, NewUnlessResumed, Running
<1>8. NewUnlessTroubled'
  BY DEF NotNewer, NewUnlessTroubled
<1>9. QED
  BY <1>1, <1>2, <1>3, <1>4, <1>5, <1>6, <1>7, <1>8

\* The loader that is built is of the current sources, or the build has failed.
LEMMA BuildLoaderIInv == IInv /\ BuildLoader => IInv'
<1> SUFFICES ASSUME IInv, BuildLoader PROVE IInv'
  OBVIOUS
<1> USE BuildAssumption, KernelForm, VersionForm DEF IInv, TypeOK, NumbersOK,
        FilesOK, FlagsOK, PlacesOK, Version, BuildLoader, At, GoTo, Fine,
        Failed, boot
<1>1. NumbersOK'
  OBVIOUS
<1>2. FilesOK'
  BY DEF Types
<1>3. FlagsOK'
  OBVIOUS
<1>4. PlacesOK'
  BY DEF Types
<1>5. NotNewer'
  BY DEF NotNewer
<1>6. MovedAway'
  BY DEF MovedAway, Running
<1>7. NewUnlessResumed'
  BY DEF MovedAway, NewUnlessResumed, Running
<1>8. NewUnlessTroubled'
  BY DEF NotNewer, NewUnlessTroubled
<1>9. QED
  BY <1>1, <1>2, <1>3, <1>4, <1>5, <1>6, <1>7, <1>8

\* So is libk.
LEMMA BuildLibkIInv == IInv /\ BuildLibk => IInv'
<1> SUFFICES ASSUME IInv, BuildLibk PROVE IInv'
  OBVIOUS
<1> USE BuildAssumption, KernelForm, VersionForm DEF IInv, TypeOK, NumbersOK,
        FilesOK, FlagsOK, PlacesOK, Version, BuildLibk, At, GoTo, Fine, Failed,
        boot
<1>1. NumbersOK'
  OBVIOUS
<1>2. FilesOK'
  BY DEF Types
<1>3. FlagsOK'
  OBVIOUS
<1>4. PlacesOK'
  BY DEF Types
<1>5. NotNewer'
  BY DEF NotNewer
<1>6. MovedAway'
  BY DEF MovedAway, Running
<1>7. NewUnlessResumed'
  BY DEF MovedAway, NewUnlessResumed, Running
<1>8. NewUnlessTroubled'
  BY DEF NotNewer, NewUnlessTroubled
<1>9. QED
  BY <1>1, <1>2, <1>3, <1>4, <1>5, <1>6, <1>7, <1>8

\* The kernel is too, and has the libk of this run.
LEMMA BuildKernelIInv == IInv /\ BuildKernel => IInv'
<1> SUFFICES ASSUME IInv, BuildKernel PROVE IInv'
  OBVIOUS
<1> USE BuildAssumption, KernelForm, VersionForm DEF IInv, TypeOK, NumbersOK,
        FilesOK, FlagsOK, PlacesOK, Version, BuildKernel, At, GoTo, Fine,
        Failed, UpToDate, boot
<1>1. NumbersOK'
  OBVIOUS
<1>2. FilesOK'
  BY DEF Types
<1>3. FlagsOK'
  <2>1. \/ binDir' = binDir
        \/ binDir' = [binDir EXCEPT ![build_type] = TRUE]
    OBVIOUS
  <2>2. binDir' \in [Types -> BOOLEAN]
    BY ONLY <2>1, IInv, FlagForm DEF IInv, TypeOK, FlagsOK, PlacesOK
  <2>3. QED
    BY <2>2
<1>4. PlacesOK'
  BY DEF Types
<1>5. NotNewer'
  BY DEF NotNewer
<1>6. MovedAway'
  BY DEF MovedAway, Running
<1>7. NewUnlessResumed'
  BY DEF MovedAway, NewUnlessResumed, Running
<1>8. NewUnlessTroubled'
  BY DEF NotNewer, NewUnlessTroubled
<1>9. QED
  BY <1>1, <1>2, <1>3, <1>4, <1>5, <1>6, <1>7, <1>8

\* The debugging information is copied from the kernel of this run.
LEMMA KeepDebugIInv == IInv /\ KeepDebug => IInv'
<1> SUFFICES ASSUME IInv, KeepDebug PROVE IInv'
  OBVIOUS
<1> USE BuildAssumption, KernelForm, VersionForm DEF IInv, TypeOK, NumbersOK,
        FilesOK, FlagsOK, PlacesOK, Version, KeepDebug, At, GoTo, Fine, Failed,
        boot
<1>1. NumbersOK'
  OBVIOUS
<1>2. FilesOK'
  BY DEF Types
<1>3. FlagsOK'
  OBVIOUS
<1>4. PlacesOK'
  BY DEF Types
<1>5. NotNewer'
  BY DEF NotNewer
<1>6. MovedAway'
  BY DEF MovedAway, Running
<1>7. NewUnlessResumed'
  BY DEF MovedAway, NewUnlessResumed, Running
<1>8. NewUnlessTroubled'
  BY DEF NotNewer, NewUnlessTroubled
<1>9. QED
  BY <1>1, <1>2, <1>3, <1>4, <1>5, <1>6, <1>7, <1>8

\* The kernel loses it, and stays as new as it was.
LEMMA StripDebugIInv == IInv /\ StripDebug => IInv'
<1> SUFFICES ASSUME IInv, StripDebug PROVE IInv'
  OBVIOUS
<1> USE BuildAssumption, KernelForm, VersionForm DEF IInv, TypeOK, NumbersOK,
        FilesOK, FlagsOK, PlacesOK, Version, StripDebug, At, GoTo, Fine,
        Failed, boot
<1>0. /\ \A t \in Types :
            /\ kernel'[t].src = kernel[t].src /\ kernel'[t].libk = kernel[t].libk
            /\ kernel[t] = NoKernel => kernel'[t] = NoKernel
      /\ ~ troubled' => ~ kernel'[build_type].debug \/ kernel'[build_type].src = 0
  <2>1. CASE /\ UNCHANGED kernel
             /\ Failed \/ (kernel[build_type].src = 0 /\ Fine)
    <3>1. ~ troubled' => kernel[build_type].src = 0 \/ ~ kernel'[build_type].debug
      BY <2>1
    <3>2. QED
      BY <2>1, <3>1
  <2>2. CASE /\ kernel[build_type].src > 0
             /\ kernel' = [kernel EXCEPT ![build_type].debug = FALSE]
    <3>1. kernel'[build_type] = [kernel[build_type] EXCEPT !.debug = FALSE]
      BY <2>2
    <3>2. \A t \in Types \ {build_type} : kernel'[t] = kernel[t]
      BY <2>2
    <3>3. QED
      BY <2>2, <3>1, <3>2
  <2>3. QED
    BY <2>1, <2>2
<1>1. NumbersOK'
  OBVIOUS
<1>2. FilesOK'
  BY DEF Types
<1>3. FlagsOK'
  OBVIOUS
<1>4. PlacesOK'
  BY DEF Types
<1>5. NotNewer'
  BY <1>0 DEF NotNewer
<1>6. MovedAway'
  BY DEF MovedAway, Running
<1>7. NewUnlessResumed'
  BY <1>0 DEF MovedAway, NewUnlessResumed, Running
<1>8. NewUnlessTroubled'
  BY <1>0 DEF NotNewer, NewUnlessTroubled
<1>9. QED
  BY <1>1, <1>2, <1>3, <1>4, <1>5, <1>6, <1>7, <1>8

\* What is moved is gone from the build directory: the debugging information,
LEMMA MoveDbgIInv == IInv /\ MoveDbg => IInv'
<1> SUFFICES ASSUME IInv, MoveDbg PROVE IInv'
  OBVIOUS
<1> USE BuildAssumption, KernelForm, VersionForm DEF IInv, TypeOK, NumbersOK,
        FilesOK, FlagsOK, PlacesOK, Version, MoveDbg, At, GoTo, Fine
<1>1. NumbersOK'
  OBVIOUS
<1>2. FilesOK'
  BY DEF Types
<1>3. FlagsOK'
  OBVIOUS
<1>4. PlacesOK'
  BY DEF Types
<1>5. NotNewer'
  BY DEF NotNewer
<1>6. MovedAway'
  BY DEF MovedAway, Running
<1>7. NewUnlessResumed'
  BY DEF MovedAway, NewUnlessResumed, Running
<1>8. NewUnlessTroubled'
  BY DEF NotNewer, NewUnlessTroubled
<1>9. QED
  BY <1>1, <1>2, <1>3, <1>4, <1>5, <1>6, <1>7, <1>8

\* the loader,
LEMMA MoveLoaderIInv == IInv /\ MoveLoader => IInv'
<1> SUFFICES ASSUME IInv, MoveLoader PROVE IInv'
  OBVIOUS
<1> USE BuildAssumption, KernelForm, VersionForm DEF IInv, TypeOK, NumbersOK,
        FilesOK, FlagsOK, PlacesOK, Version, MoveLoader, At, GoTo, Fine
<1>1. NumbersOK'
  OBVIOUS
<1>2. FilesOK'
  BY DEF Types
<1>3. FlagsOK'
  OBVIOUS
<1>4. PlacesOK'
  BY DEF Types
<1>5. NotNewer'
  BY DEF NotNewer
<1>6. MovedAway'
  BY DEF MovedAway, Running
<1>7. NewUnlessResumed'
  BY DEF MovedAway, NewUnlessResumed, Running
<1>8. NewUnlessTroubled'
  BY DEF NotNewer, NewUnlessTroubled
<1>9. QED
  BY <1>1, <1>2, <1>3, <1>4, <1>5, <1>6, <1>7, <1>8

\* the kernel.
LEMMA MoveKernelIInv == IInv /\ MoveKernel => IInv'
<1> SUFFICES ASSUME IInv, MoveKernel PROVE IInv'
  OBVIOUS
<1> USE BuildAssumption, KernelForm, VersionForm DEF IInv, TypeOK, NumbersOK,
        FilesOK, FlagsOK, PlacesOK, Version, MoveKernel, At, GoTo, Fine
<1>1. NumbersOK'
  OBVIOUS
<1>2. FilesOK'
  BY DEF Types
<1>3. FlagsOK'
  OBVIOUS
<1>4. PlacesOK'
  BY DEF Types
<1>5. NotNewer'
  BY DEF NotNewer
<1>6. MovedAway'
  BY DEF MovedAway, Running
<1>7. NewUnlessResumed'
  BY DEF MovedAway, NewUnlessResumed, Running
<1>8. NewUnlessTroubled'
  BY DEF NotNewer, NewUnlessTroubled
<1>9. QED
  BY <1>1, <1>2, <1>3, <1>4, <1>5, <1>6, <1>7, <1>8

\* A run that copies the font has ended, and has moved everything.
LEMMA CopyFontIInv == IInv /\ CopyFont => IInv'
<1> SUFFICES ASSUME IInv, CopyFont PROVE IInv'
  OBVIOUS
<1> USE BuildAssumption, KernelForm, VersionForm DEF IInv, TypeOK, NumbersOK,
        FilesOK, FlagsOK, PlacesOK, Version, CopyFont, At, GoTo, Fine, built,
        boot
<1>1. NumbersOK'
  OBVIOUS
<1>2. FilesOK'
  BY DEF Types
<1>3. FlagsOK'
  OBVIOUS
<1>4. PlacesOK'
  BY DEF Types
<1>5. NotNewer'
  BY DEF NotNewer
<1>6. MovedAway'
  BY DEF MovedAway, Running
<1>7. NewUnlessResumed'
  BY DEF MovedAway, NewUnlessResumed, Running
<1>8. NewUnlessTroubled'
  BY DEF NotNewer, NewUnlessTroubled
<1>9. QED
  BY <1>1, <1>2, <1>3, <1>4, <1>5, <1>6, <1>7, <1>8

\* A file that is not there ends the run as aborted.
LEMMA RaisesIInv == IInv /\ Raises => IInv'
<1> SUFFICES ASSUME IInv, Raises PROVE IInv'
  OBVIOUS
<1> USE BuildAssumption, KernelForm, VersionForm DEF IInv, TypeOK, NumbersOK,
        FilesOK, FlagsOK, PlacesOK, Version, Raises, Abort, Fine, At, built,
        boot
<1>1. NumbersOK'
  OBVIOUS
<1>2. FilesOK'
  BY DEF Types
<1>3. FlagsOK'
  OBVIOUS
<1>4. PlacesOK'
  BY DEF Types
<1>5. NotNewer'
  BY DEF NotNewer
<1>6. MovedAway'
  BY DEF MovedAway, Running
<1>7. NewUnlessResumed'
  BY DEF MovedAway, NewUnlessResumed, Running
<1>8. NewUnlessTroubled'
  BY DEF NotNewer, NewUnlessTroubled
<1>9. QED
  BY <1>1, <1>2, <1>3, <1>4, <1>5, <1>6, <1>7, <1>8

\* So does a missing font, when all has been moved.
LEMMA NoFontIInv == IInv /\ NoFont => IInv'
<1> SUFFICES ASSUME IInv, NoFont PROVE IInv'
  OBVIOUS
<1> USE BuildAssumption, KernelForm, VersionForm DEF IInv, TypeOK, NumbersOK,
        FilesOK, FlagsOK, PlacesOK, Version, NoFont, Abort, Failed, At, built,
        boot
<1>1. NumbersOK'
  OBVIOUS
<1>2. FilesOK'
  BY DEF Types
<1>3. FlagsOK'
  OBVIOUS
<1>4. PlacesOK'
  BY DEF Types
<1>5. NotNewer'
  BY DEF NotNewer
<1>6. MovedAway'
  BY DEF MovedAway, Running
<1>7. NewUnlessResumed'
  BY DEF MovedAway, NewUnlessResumed, Running
<1>8. NewUnlessTroubled'
  BY DEF NotNewer, NewUnlessTroubled
<1>9. QED
  BY <1>1, <1>2, <1>3, <1>4, <1>5, <1>6, <1>7, <1>8

\* What the script may find in the build directories at each of its steps,
\* whatever earlier runs of both types did.
THEOREM Invariance == Spec => []IInv
<1>1. Init => IInv
  BY InitIInv
<1>2. IInv /\ [Next]_vars => IInv'
  <2>1. SUFFICES ASSUME IInv, [Next]_vars PROVE IInv'
    OBVIOUS
  <2>2. CASE Next
    BY <2>1, <2>2, EditIInv, StartIInv, InterruptIInv, BuildLoaderIInv,
       BuildLibkIInv, BuildKernelIInv, KeepDebugIInv, StripDebugIInv, MoveDbgIInv,
       MoveLoaderIInv, MoveKernelIInv, CopyFontIInv, RaisesIInv, NoFontIInv
    DEF Next
  <2>3. CASE UNCHANGED vars
    BY <2>1, <2>3
    DEF vars, built, boot, history, IInv, TypeOK, NumbersOK, FilesOK, FlagsOK,
        PlacesOK, NotNewer, MovedAway, NewUnlessResumed, NewUnlessTroubled, Running
  <2>4. QED
    BY <2>1, <2>2, <2>3
<1>3. QED
  BY <1>1, <1>2, PTL DEF Spec

\* Type correctness of the script's files, places and histories.
THEOREM TypeCorrect == Spec => []TypeOK
<1>1. IInv => TypeOK
  BY DEF IInv
<1>2. QED
  BY <1>1, Invariance, PTL

\* A run in which nothing fails or is edited leaves loader, kernel and libk of
\* the present sources, whatever earlier runs had left.
THEOREM UntroubledCurrent == Spec => []UntroubledBuildIsCurrent
<1>1. IInv => UntroubledBuildIsCurrent
  <2>1. SUFFICES ASSUME IInv, pc = "ended", began = source, ~ troubled
                 PROVE  /\ bootLoader = [type |-> build_type, src |-> source]
                        /\ bootKernel.type = build_type
                        /\ bootKernel.file =
                             [src |-> source, libk |-> source, debug |-> FALSE]
    BY DEF UntroubledBuildIsCurrent
  <2>2. source \in Nat /\ source > 0
    BY <2>1, BuildAssumption DEF IInv, TypeOK, NumbersOK
  <2>3. /\ bootLoader.type = build_type /\ bootLoader.src = source
        /\ bootKernel.type = build_type
        /\ bootKernel.file.src = source /\ bootKernel.file.libk = source
        /\ ~ bootKernel.file.debug
    BY <2>1, <2>2, VersionForm DEF IInv, NotNewer, NewUnlessTroubled
  <2>4. bootLoader \in [type : Types, src : Version] /\ bootKernel.file \in Kernel
    BY <2>1 DEF IInv, TypeOK, FilesOK
  <2>5. bootKernel.file \in
          [src : 1 .. MaxSource, libk : 1 .. MaxSource, debug : BOOLEAN]
    BY <2>2, <2>3, <2>4 DEF Kernel, NoKernel
  <2>6. bootLoader = [type |-> build_type, src |-> source]
    BY <2>3, <2>4
  <2>7. bootKernel.file.debug = FALSE
    BY <2>3, <2>5
  <2>8. bootKernel.file = [src |-> source, libk |-> source, debug |-> FALSE]
    BY <2>3, <2>5, <2>7
  <2>9. QED
    BY <2>3, <2>6, <2>8
<1>2. QED
  BY <1>1, Invariance, PTL

\* An old loader or kernel reaches the emulator only after an aborted run.
THEOREM StaleAfterAbort == Spec => []StaleOnlyAfterAbort
<1>1. IInv => StaleOnlyAfterAbort
  BY DEF IInv, NewUnlessResumed, StaleOnlyAfterAbort
<1>2. QED
  BY <1>1, Invariance, PTL

\* Debugging information is lost only after an aborted run.
THEOREM DebugLostAfterAbort == Spec => DebugLostOnlyAfterAbort
<1>1. IInv /\ [Next]_vars =>
        [dbg' # dbg /\ ~ At("move_dbg") /\ ~ resumed
           => dbg'[build_type].debug]_vars
  <2>1. SUFFICES ASSUME IInv, Next, dbg' # dbg, ~ At("move_dbg"), ~ resumed
                 PROVE  dbg'[build_type].debug
    OBVIOUS
  <2>2. KeepDebug
    BY <2>1
    DEF Next, Edit, Start, Interrupt, BuildLoader, BuildLibk, BuildKernel, StripDebug,
        MoveDbg, MoveLoader, MoveKernel, CopyFont, Raises, NoFont, built
  <2>3. dbg' = [dbg EXCEPT ![build_type] = kernel[build_type]]
        /\ kernel[build_type].src > 0 /\ pc = "keep_debug"
    BY <2>1, <2>2 DEF KeepDebug, At
  <2>4. kernel[build_type].debug
    BY <2>1, <2>3, KernelForm DEF IInv, NewUnlessResumed, Running
  <2>5. QED
    BY <2>1, <2>3, <2>4 DEF IInv, TypeOK, FilesOK, PlacesOK
<1>2. QED
  BY <1>1, Invariance, PTL DEF Spec, DebugLostOnlyAfterAbort

=============================================================================
