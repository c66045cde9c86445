-------------------------- MODULE LanternBootProofs --------------------------
(***************************************************************************)
(* The boot with every call of ExitBootServices implements the loader in   *)
(* which leaving boot services is one step, whatever the files, the        *)
(* firmware's memory map and the failures are.                             *)
(***************************************************************************)
EXTENDS LanternBoot, BhavaLoaderProofs

\* The protocol of the image is open until the loader comes to leave boot
\* services, closed when it asks for the map, and not opened again; until
\* then ExitBoot is at its first step.
Handoff ==
  /\ pc \notin {"exit_boot", "kernel", "terminal"} =>
       "image" \in opened /\ exitPc = "AllocProbe"
  /\ pc = "exit_boot" /\ "image" \in opened => exitPc = "AllocProbe"
  /\ pc = "exit_boot" \/ Entered \/ services
  /\ services \in BOOLEAN

BootInv == Prompt /\ Handoff

-----------------------------------------------------------------------------
(* The steps before boot services are left *)

\* The loader has no step once the kernel runs.
LEMMA LoaderIsBefore == Loader => pc \notin {"kernel", "terminal"}
  BY DEF Loader, OpenKernel, ParseELFHeader, ParseELFPHeader, SegmentsDone,
         SkipSegment, LoadSegment, ParseInitializers, OpenFont, ParsePSF2Header,
         GetFileSize, LoadFont, SelectVideoMode, SetUpFramebuffer, EnterKernel,
         Reset, ReadKeyStroke

\* Whatever the loader does, it does not close the protocol of the image, and
\* it does not get past leaving boot services.
LEMMA LoaderKeepsImage ==
  ASSUME BootInv, Loader, pc \notin {"exit_boot", "kernel", "terminal"}
  PROVE  "image" \in opened' /\ pc' \notin {"kernel", "terminal"}
         /\ services' = services
<1> USE DEF BootInv, Handoff, Prompt, AfterKey
<1>1. CASE OpenKernel
  BY <1>1 DEF OpenKernel, LoadRootDirFile, WaitForKey, Goto, Fault
<1>2. CASE ParseELFHeader \/ ParseELFPHeader \/ SegmentsDone \/ SkipSegment
  BY <1>2 DEF ParseELFHeader, ParseELFPHeader, SegmentsDone, SkipSegment,
              WaitForKey, Goto, files
<1>3. CASE LoadSegment
  BY <1>3 DEF LoadSegment, AllocatePagesForData, AllocatePages, WaitForKey, Goto, Fault
<1>4. CASE ParseInitializers
  BY <1>4 DEF ParseInitializers, Goto, Fault, files
<1>5. CASE OpenFont
  BY <1>5 DEF OpenFont, LoadRootDirFile, Goto, Fault
<1>6. CASE ParsePSF2Header \/ GetFileSize
  BY <1>6 DEF ParsePSF2Header, GetFileSize, WaitForKey, Goto, files
<1>7. CASE LoadFont
  BY <1>7 DEF LoadFont, AllocatePagesForData, AllocatePages, WaitForKey, Goto
<1>8. CASE SelectVideoMode \/ SetUpFramebuffer
  BY <1>8 DEF SelectVideoMode, SetUpFramebuffer, WaitForKey, Goto, Fault, files
<1>9. CASE EnterKernel
  BY <1>9 DEF EnterKernel
<1>10. CASE Reset \/ ReadKeyStroke
  BY <1>10 DEF Reset, ReadKeyStroke, Goto, files
<1> QED
  BY <1>1, <1>2, <1>3, <1>4, <1>5, <1>6, <1>7, <1>8, <1>9, <1>10 DEF Loader

\* The functions that compute with what the files hold are the same.
LEMMA SameFunctions ==
  /\ \A modes : L!GetVideoMode(modes) = GetVideoMode(modes)
  /\ \A kind, shs, ph, img :
       L!Addresses(kind, shs, ph, img) = Addresses(kind, shs, ph, img)
  /\ L!Tables = Tables
<1>1. \A modes : L!GetVideoMode(modes) = GetVideoMode(modes)
  BY DEF GetVideoMode, L!GetVideoMode, Max, L!Max
<1>2. ASSUME NEW kind, NEW shs, NEW ph, NEW img
      PROVE  L!Addresses(kind, shs, ph, img) = Addresses(kind, shs, ph, img)
  BY DEF Addresses, L!Addresses, Max, L!Max,
         TranslateKernelAddress, L!TranslateKernelAddress
<1>3. L!Tables = Tables
  BY <1>2 DEF Tables, L!Tables, Ph, L!Ph
<1> QED
  BY <1>1, <1>2, <1>3

\* Each of these steps is the same step of the loader it implements.
LEMMA LoaderMaps ==
  ASSUME BootInv, Loader, pc \notin {"exit_boot", "kernel", "terminal"},
         UNCHANGED <<exitVars, called>>
  PROVE  L!Next
<1>1. /\ ~ Entered /\ ~ Entered'
      /\ "image" \in opened /\ "image" \in opened'
  BY LoaderKeepsImage DEF BootInv, Handoff, Entered
<1>2. ~ EnterKernel
  BY DEF EnterKernel
<1>3. CASE OpenKernel
  <2> L!OpenKernel
    BY <1>1, <1>3
     DEF OpenKernel, L!OpenKernel, LoadRootDirFile, L!LoadRootDirFile,
         NoFile, L!NoFile, WaitForKey, L!WaitForKey, Goto, L!Goto,
         Fault, L!Fault, files, L!files, kernelVars, L!kernelVars,
         fontVars, L!fontVars, videoVars, L!videoVars, history,
         L!history
  <2> QED BY DEF L!Next, L!Loader
<1>4. CASE ParseELFHeader
  <2> L!ParseELFHeader
    BY <1>1, <1>4
     DEF ParseELFHeader, L!ParseELFHeader, WaitForKey, L!WaitForKey,
         Goto, L!Goto, Fault, L!Fault, files, L!files, kernelVars,
         L!kernelVars, fontVars, L!fontVars, videoVars, L!videoVars,
         history, L!history
  <2> QED BY DEF L!Next, L!Loader
<1>5. CASE ParseELFPHeader
  <2> L!ParseELFPHeader
    BY <1>1, <1>5
     DEF ParseELFPHeader, L!ParseELFPHeader, WaitForKey, L!WaitForKey,
         Goto, L!Goto, Fault, L!Fault, files, L!files, kernelVars,
         L!kernelVars, fontVars, L!fontVars, videoVars, L!videoVars,
         history, L!history
  <2> QED BY DEF L!Next, L!Loader
<1>6. CASE SegmentsDone
  <2> L!SegmentsDone
    BY <1>1, <1>6
     DEF SegmentsDone, L!SegmentsDone, WaitForKey, L!WaitForKey, Goto,
         L!Goto, Fault, L!Fault, files, L!files, kernelVars,
         L!kernelVars, fontVars, L!fontVars, videoVars, L!videoVars,
         history, L!history
  <2> QED BY DEF L!Next, L!Loader
<1>7. CASE SkipSegment
  <2> L!SkipSegment
    BY <1>1, <1>7
     DEF SkipSegment, L!SkipSegment, HeadersIntact, L!HeadersIntact,
         Ph, L!Ph, WaitForKey, L!WaitForKey, Goto, L!Goto, Fault,
         L!Fault, files, L!files, kernelVars, L!kernelVars, fontVars,
         L!fontVars, videoVars, L!videoVars, history, L!history
  <2> QED BY DEF L!Next, L!Loader
<1>8. CASE LoadSegment
  <2> L!LoadSegment
    BY <1>1, <1>8
     DEF LoadSegment, L!LoadSegment, HeadersIntact, L!HeadersIntact,
         Ph, L!Ph, AllocatePagesForData, L!AllocatePagesForData,
         AllocatePages, L!AllocatePages, PagesFor, L!PagesFor, AsInt, L!AsInt, GetDataPageSize,
         L!GetDataPageSize, Read, L!Read, TranslateKernelAddress,
         L!TranslateKernelAddress, NoImage, L!NoImage, WaitForKey,
         L!WaitForKey, Goto, L!Goto, Fault, L!Fault, files, L!files,
         kernelVars, L!kernelVars, fontVars, L!fontVars, videoVars,
         L!videoVars, history, L!history
  <2> QED BY DEF L!Next, L!Loader
<1>9. CASE ParseInitializers
  <2> L!ParseInitializers
    BY <1>1, <1>9, SameFunctions
     DEF ParseInitializers, L!ParseInitializers, HeadersIntact,
         L!HeadersIntact, Ph, L!Ph, WaitForKey,
         L!WaitForKey, Goto, L!Goto, Fault, L!Fault, files, L!files,
         kernelVars, L!kernelVars, fontVars, L!fontVars, videoVars,
         L!videoVars, history, L!history
  <2> QED BY DEF L!Next, L!Loader
<1>10. CASE OpenFont
  <2> L!OpenFont
    BY <1>1, <1>10
     DEF OpenFont, L!OpenFont, LoadRootDirFile, L!LoadRootDirFile,
         NoFile, L!NoFile, WaitForKey, L!WaitForKey, Goto, L!Goto,
         Fault, L!Fault, files, L!files, kernelVars, L!kernelVars,
         fontVars, L!fontVars, videoVars, L!videoVars, history,
         L!history
  <2> QED BY DEF L!Next, L!Loader
<1>11. CASE ParsePSF2Header
  <2> L!ParsePSF2Header
    BY <1>1, <1>11
     DEF ParsePSF2Header, L!ParsePSF2Header, WaitForKey, L!WaitForKey,
         Goto, L!Goto, Fault, L!Fault, files, L!files, kernelVars,
         L!kernelVars, fontVars, L!fontVars, videoVars, L!videoVars,
         history, L!history
  <2> QED BY DEF L!Next, L!Loader
<1>12. CASE GetFileSize
  <2> L!GetFileSize
    BY <1>1, <1>12
     DEF GetFileSize, L!GetFileSize, WaitForKey, L!WaitForKey, Goto,
         L!Goto, Fault, L!Fault, files, L!files, kernelVars,
         L!kernelVars, fontVars, L!fontVars, videoVars, L!videoVars,
         history, L!history
  <2> QED BY DEF L!Next, L!Loader
<1>13. CASE LoadFont
  <2> L!LoadFont
    BY <1>1, <1>13
     DEF LoadFont, L!LoadFont, AllocatePagesForData, L!AllocatePagesForData,
         AllocatePages, L!AllocatePages, PagesFor, L!PagesFor, AsInt, L!AsInt,
         GetDataPageSize, L!GetDataPageSize, Read, L!Read, NoImage,
         L!NoImage, WaitForKey, L!WaitForKey, Goto, L!Goto, Fault,
         L!Fault, files, L!files, kernelVars, L!kernelVars, fontVars,
         L!fontVars, videoVars, L!videoVars, history, L!history
  <2> QED BY DEF L!Next, L!Loader
<1>14. CASE SelectVideoMode
  <2> L!SelectVideoMode
    BY <1>1, <1>14, SameFunctions
     DEF SelectVideoMode, L!SelectVideoMode, WaitForKey, L!WaitForKey, Goto, L!Goto,
         Fault, L!Fault, files, L!files, kernelVars, L!kernelVars,
         fontVars, L!fontVars, videoVars, L!videoVars, history,
         L!history
  <2> QED BY DEF L!Next, L!Loader
<1>15. CASE SetUpFramebuffer
  <2> L!SetUpFramebuffer
    BY <1>1, <1>15
     DEF SetUpFramebuffer, L!SetUpFramebuffer, SetMode, L!SetMode,
         WaitForKey, L!WaitForKey, Goto, L!Goto, Fault, L!Fault,
         files, L!files, kernelVars, L!kernelVars, fontVars,
         L!fontVars, videoVars, L!videoVars, history, L!history
  <2> QED BY DEF L!Next, L!Loader
<1>16. CASE Reset
  <2> L!Reset
    BY <1>1, <1>16
     DEF Reset, L!Reset, WaitForKey, L!WaitForKey, Goto, L!Goto,
         Fault, L!Fault, files, L!files, kernelVars, L!kernelVars,
         fontVars, L!fontVars, videoVars, L!videoVars, history,
         L!history
  <2> QED BY DEF L!Next, L!Loader
<1>17. CASE ReadKeyStroke
  <2> L!ReadKeyStroke
    BY <1>1, <1>17
     DEF ReadKeyStroke, L!ReadKeyStroke, WaitForKey, L!WaitForKey,
         Goto, L!Goto, Fault, L!Fault, files, L!files, kernelVars,
         L!kernelVars, fontVars, L!fontVars, videoVars, L!videoVars,
         history, L!history
  <2> QED BY DEF L!Next, L!Loader
<1> QED
  BY <1>2, <1>3, <1>4, <1>5, <1>6, <1>7, <1>8, <1>9, <1>10, <1>11, <1>12, <1>13, <1>14, <1>15, <1>16, <1>17
  DEF Loader

-----------------------------------------------------------------------------
(* The invariant of the handoff *)

\* The invariant that relates the two programs, at the start and in a step.
LEMMA BootInvInit == BootInit => BootInv
  BY DEF BootInit, Init, Exit!Init, BootInv, Prompt, AfterKey, Handoff, Entered

\* The firmware's calls and events move ExitBoot on and may end boot services.
LEMMA ExitSteps ==
  ASSUME Exit!Next
  PROVE  services' \in {services, TRUE, FALSE}
  BY DEF Exit!Next, Exit!AllocProbe, Exit!GetMapProbe, Exit!FreeProbe,
         Exit!AllocMap, Exit!GetMap, Exit!Exit, Exit!Event, Exit!AllocatePool,
         Exit!GetMemoryMap, Exit!PoolCall, Exit!MapChanges, Exit!firmware

\* Every step of the boot keeps the two programs in their handoff.
LEMMA BootInvStep == BootInv /\ [BootNext]_bootVars => BootInv'
<1> SUFFICES ASSUME BootInv, [BootNext]_bootVars PROVE BootInv'
  OBVIOUS
<1>1. CASE Load /\ Type
  BY <1>1 DEF Load, Type, BootInv, Prompt, Handoff, Entered, files, exitVars
<1>2. CASE Load /\ pc # "exit_boot" /\ Loader
  <2>1. pc \notin {"kernel", "terminal"}
    BY <1>2, LoaderIsBefore
  <2>2. Prompt'
    BY <1>2, PromptStep DEF BootInv, Next
  <2> QED
    BY <1>2, <2>1, <2>2, LoaderKeepsImage
    DEF Load, BootInv, Handoff, Entered, exitVars
<1>3. CASE CloseProtocol
  BY <1>3 DEF CloseProtocol, BootInv, Prompt, Handoff, Entered, exitVars
<1>4. CASE Leave
  BY <1>4, ExitSteps DEF Leave, loaderLocals, BootInv, Prompt, Handoff, Entered
<1>5. CASE CallKmain \/ ConstructorsDone
  BY <1>5 DEF CallKmain, ConstructorsDone, Goto, BootInv, Prompt, Handoff,
              Entered, AfterKey, files, exitVars
<1>6. CASE CallConstructor
  BY <1>6 DEF CallConstructor, BootInv, Prompt, Handoff, Entered, vars, files,
              exitVars
<1>7. CASE UNCHANGED bootVars
  BY <1>7 DEF bootVars, BootInv, Prompt, Handoff, Entered, vars, files, exitVars
<1> QED
  BY <1>1, <1>2, <1>3, <1>4, <1>5, <1>6, <1>7 DEF BootNext, Load

-----------------------------------------------------------------------------
(* The refinement *)

\* A step of the boot is one of the loader, or none.
LEMMA BootMaps ==
  ASSUME "exit" \in MayFail, BootInv, [BootNext]_bootVars
  PROVE  [L!Next]_L!vars
<1>1. CASE Load /\ Type
  <2> L!Type
    BY <1>1 DEF Load, Type, L!Type, BootInv, Handoff, Entered, files, L!files,
       kernelVars, L!kernelVars, fontVars, L!fontVars, videoVars, L!videoVars,
       history, L!history
  <2> QED BY DEF L!Next
<1>2. CASE Load /\ pc # "exit_boot" /\ Loader
  <2>1. pc \notin {"kernel", "terminal"}
    BY <1>2, LoaderIsBefore
  <2> QED
    BY <1>2, <2>1, LoaderMaps DEF Load
<1>3. CASE CloseProtocol
  BY <1>3 DEF CloseProtocol, Entered, L!vars, files, L!files,
     kernelVars, L!kernelVars, fontVars, L!fontVars, videoVars, L!videoVars,
     history, L!history
<1>4. CASE Leave
  BY <1>4 DEF Leave, loaderLocals, Entered, L!vars, L!files,
     kernelVars, L!kernelVars, fontVars, L!fontVars, videoVars, L!videoVars,
     history, L!history
<1>5. CASE CallKmain
  <2> L!EnterKernel
    BY <1>5 DEF CallKmain, L!EnterKernel, Goto, L!Goto, BootInv, Handoff,
       Entered, files, L!files, kernelVars, L!kernelVars, fontVars, L!fontVars,
       videoVars, L!videoVars, history, L!history
  <2> QED BY DEF L!Next, L!Loader
<1>6. CASE CallConstructor
  BY <1>6 DEF CallConstructor, Entered, vars, L!vars, files, L!files,
     kernelVars, L!kernelVars, fontVars, L!fontVars, videoVars, L!videoVars,
     history, L!history
<1>7. CASE ConstructorsDone
  BY <1>7 DEF ConstructorsDone, Goto, Entered, L!vars, files, L!files,
     kernelVars, L!kernelVars, fontVars, L!fontVars, videoVars, L!videoVars,
     history, L!history
<1>8. CASE UNCHANGED bootVars
  BY <1>8 DEF bootVars, Entered, vars, L!vars, files, L!files, kernelVars,
     L!kernelVars, fontVars, L!fontVars, videoVars, L!videoVars, history,
     L!history
<1> QED
  BY <1>1, <1>2, <1>3, <1>4, <1>5, <1>6, <1>7, <1>8 DEF BootNext, Load

\* The loader in which leaving boot services is one step that succeeds or
\* fails is what the loader does call by call, with the firmware's events
\* between the calls: every behaviour of the boot is one of it.
THEOREM BootImplementsLoader ==
  ASSUME "exit" \in MayFail
  PROVE  BootSpec => ImplementsLoader
<1>1. BootInit => L!Init
  BY DEF BootInit, Init, L!Init, Entered, L!NoImage, NoImage
<1>2. BootInv /\ [BootNext]_bootVars => [L!Next]_L!vars
  BY BootMaps
<1> QED
  BY <1>1, <1>2, BootInvInit, BootInvStep, PTL
  DEF BootSpec, ImplementsLoader, L!Spec

-----------------------------------------------------------------------------
(* The kernel and boot services, from the proofs about ExitBoot *)

E == INSTANCE ExitBootProofs WITH pc <- exitPc

\* When the kernel is entered ExitBootServices has returned.
ExitInv == E!MarginInv /\ (Entered => exitPc = "Returned")

\* The steps outside ExitBootServices leave what it is about alone.
LEMMA ExitMaps ==
  ASSUME BootInv, [BootNext]_bootVars
  PROVE  [E!Next]_(E!vars)
<1>1. CASE Load /\ Type
  BY <1>1 DEF Load, Type, exitVars, E!vars, E!firmware, E!locals
<1>2. CASE Load /\ pc # "exit_boot" /\ Loader
  <2>1. pc \notin {"kernel", "terminal"}
    BY <1>2, LoaderIsBefore
  <2> QED
    BY <1>2, <2>1, LoaderKeepsImage
    DEF Load, exitVars, E!vars, E!firmware, E!locals
<1>3. CASE Leave
  <2>1. E!Next
    BY <1>3
    DEF Leave, Exit!Next, E!Next, Exit!AllocProbe, E!AllocProbe,
         Exit!GetMapProbe, E!GetMapProbe, Exit!FreeProbe,
         E!FreeProbe, Exit!AllocMap, E!AllocMap, Exit!GetMap,
         E!GetMap, Exit!Exit, E!Exit, Exit!Event, E!Event,
         Exit!AllocatePool, E!AllocatePool, Exit!GetMemoryMap,
         E!GetMemoryMap, Exit!PoolCall, E!PoolCall,
         Exit!MapChanges, E!MapChanges, Exit!firmware,
         E!firmware, Exit!locals, E!locals, Exit!MapBytes,
         E!MapBytes, Exit!MapSizePlusTwo, E!MapSizePlusTwo,
         Exit!NoMap, E!NoMap
  <2> QED
    BY <2>1
<1>4. CASE CloseProtocol \/ CallKmain \/ CallConstructor \/ ConstructorsDone
  BY <1>4 DEF CloseProtocol, CallKmain, CallConstructor, ConstructorsDone,
     files, vars, exitVars, E!vars, E!firmware, E!locals
<1>5. CASE UNCHANGED bootVars
  BY <1>5 DEF bootVars, vars, exitVars, E!vars, E!firmware, E!locals
<1> QED
  BY <1>1, <1>2, <1>3, <1>4, <1>5 DEF BootNext, Load

\* The kernel is entered when ExitBootServices returned.
LEMMA ExitInvStep ==
  ASSUME E!ExitBootAssumption, MaxGrowth <= 2,
         BootInv, ExitInv, [BootNext]_bootVars
  PROVE  ExitInv'
<1>1. [E!Next]_(E!vars)
  BY ExitMaps
<1>2. E!MarginInv'
  BY <1>1, E!NextMargin DEF ExitInv
<1>3. Entered' => exitPc' = "Returned"
  <2>1. CASE Load /\ pc # "exit_boot" /\ Loader
    <3>1. pc \notin {"kernel", "terminal"}
      BY <2>1, LoaderIsBefore
    <3> QED
      BY <2>1, <3>1, LoaderKeepsImage DEF Entered
  <2>2. CASE ~ (Load /\ pc # "exit_boot" /\ Loader)
    BY <2>2 DEF BootNext, Load, Type, CloseProtocol, Leave, CallKmain,
       CallConstructor, ConstructorsDone, Goto, bootVars, vars, exitVars,
       Entered, ExitInv
  <2> QED
    BY <2>1, <2>2
<1> QED
  BY <1>2, <1>3 DEF ExitInv

\* Whatever happened on the way to it, the kernel shares the machine with boot
\* services only after a race for the memory map or without memory for it;
\* otherwise the map the loader held was the firmware's last.
THEOREM KernelIsAlone ==
  ASSUME E!ExitBootAssumption, MaxGrowth <= 2
  PROVE  BootSpec => []KernelAlone
<1>1. BootInit => ExitInv
  <2> SUFFICES ASSUME BootInit PROVE ExitInv
    OBVIOUS
  <2>1. E!Init
    BY DEF BootInit, Exit!Init, E!Init, Exit!NoMap, E!NoMap
  <2>2. E!MarginInv
    BY <2>1, E!InitSafe DEF E!MarginInv, E!Margin, E!Fetched, E!Init
  <2> QED
    BY <2>2 DEF BootInit, Init, Entered, ExitInv
<1>2. BootInv /\ ExitInv /\ [BootNext]_bootVars => ExitInv'
  BY ExitInvStep
<1>3. ExitInv => KernelAlone
  BY DEF ExitInv, KernelAlone, E!MarginInv, E!SafeInv, E!Buffers, E!Fetched
<1> QED
  BY <1>1, <1>2, <1>3, BootInvInit, BootInvStep, PTL DEF BootSpec

-----------------------------------------------------------------------------
(* What the kernel finds *)

\* A table of constructors is a sequence, and there is none without sections.
Ctors ==
  /\ globalObjCtorDtor # Uninitialised =>
       globalObjCtorDtor.ctors \in Seq(ToSet(globalObjCtorDtor.ctors))
  /\ ~ machine.kernel.hasSections => globalObjCtorDtor = Uninitialised

\* The constructors called are the first of the table; in the end all of it.
Called ==
  /\ ~ Entered => called = <<>>
  /\ called = <<>> \/ globalObjCtorDtor # Uninitialised
  /\ globalObjCtorDtor # Uninitialised =>
       /\ called \in Seq(ToSet(globalObjCtorDtor.ctors))
       /\ Len(called) <= Len(globalObjCtorDtor.ctors)
       /\ \A n \in 1 .. Len(called) : called[n] = globalObjCtorDtor.ctors[n]
  /\ pc = "terminal" => /\ globalObjCtorDtor # Uninitialised
                        /\ Len(called) = Len(globalObjCtorDtor.ctors)

BootTypes ==
  /\ pc # "terminal" => Types
  /\ pc = "terminal" => machine \in Machines /\ machine.kernel # NoFile
  /\ opened \subseteq {"image", "sfs", "root", "kernel", "font"}
  /\ Ctors /\ Called

\* The addresses of a table are a sequence.
LEMMA AddressesAreSequence ==
  ASSUME machine \in Machines, machine.kernel # NoFile, NEW kind, NEW ph, NEW img
  PROVE  Addresses(kind, machine.kernel.sections, ph, img)
           \in Seq(ToSet(Addresses(kind, machine.kernel.sections, ph, img)))
<1> DEFINE addresses == Addresses(kind, machine.kernel.sections, ph, img)
           tables == {n \in DOMAIN machine.kernel.sections :
                        machine.kernel.sections[n].type = kind}
           table == machine.kernel.sections[Max(tables)].table
<1>1. CASE tables = {}
  <2>1. addresses = <<>>
    BY <1>1 DEF Addresses
  <2> QED
    BY <2>1
<1>2. CASE tables # {}
  <2>1. Max(tables) \in tables
    BY <1>2, KernelTypes, MaxIsIn
  <2>2. table \in Seq(Nat)
    BY <2>1, KernelTypes
  <2>3. DOMAIN addresses = DOMAIN table
        /\ addresses = [n \in DOMAIN table |-> addresses[n]]
    BY <1>2 DEF Addresses
  <2>4. DOMAIN table = 1 .. Len(table) /\ Len(table) \in Nat
    <3> HIDE DEF table
    <3> QED BY <2>2
  <2> HIDE DEF addresses, table
  <2>5. \A n \in 1 .. Len(table) : addresses[n] \in ToSet(addresses)
    BY <2>3, <2>4 DEF ToSet
  <2>6. addresses \in [1 .. Len(table) -> ToSet(addresses)]
    BY <2>3, <2>4, <2>5
  <2>7. addresses \in Seq(ToSet(addresses))
    BY <2>4, <2>6, SeqDef
  <2> QED
    BY <2>7 DEF addresses
<1> QED
  BY <1>1, <1>2

\* At the start no constructor is called, and the rest has its type.
LEMMA BootTypesInit == BootInit => BootTypes
<1> SUFFICES ASSUME BootInit PROVE BootTypes
  OBVIOUS
<1>1. Types /\ Opened
  BY InitLoader DEF BootInit, LoaderInv
<1>2. pc = "open_kernel" /\ globalObjCtorDtor = Uninitialised /\ called = <<>>
  BY DEF BootInit, Init
<1> QED
  BY <1>1, <1>2 DEF BootTypes, Opened, Ctors, Called, Entered

\* Only ParseInitializers finds constructors.
LEMMA CtorsStep ==
  ASSUME Types, Ctors, Loader, machine' = machine
  PROVE  Ctors'
<1>1. CASE ParseInitializers
  <2>1. machine \in Machines /\ machine.kernel # NoFile
    BY <1>1 DEF ParseInitializers, Types, At, Loading
  <2>2. CASE globalObjCtorDtor' \in {globalObjCtorDtor, Uninitialised}
    <3>1. ~ machine.kernel.hasSections => globalObjCtorDtor' = Uninitialised
      BY <2>2 DEF Ctors
    <3> QED
      BY <2>2, <3>1 DEF Ctors
  <2>3. CASE machine.kernel.hasSections /\ globalObjCtorDtor' = Tables
    <3>1. globalObjCtorDtor' =
            [ctors |-> Addresses("init", machine.kernel.sections, Ph, image),
             dtors |-> Addresses("fini", machine.kernel.sections, Ph, image)]
      BY <2>3 DEF Tables
    <3>2. globalObjCtorDtor'.ctors \in Seq(ToSet(globalObjCtorDtor'.ctors))
      BY <2>1, <3>1, AddressesAreSequence
    <3> QED
      BY <2>3, <3>2 DEF Ctors
  <2>4. CASE /\ machine.kernel.hasSections
             /\ globalObjCtorDtor' = [ctors |-> <<>>, dtors |-> <<>>]
    <3>1. globalObjCtorDtor'.ctors = <<>>
      BY <2>4
    <3>2. <<>> \in Seq(ToSet(<<>>))
      OBVIOUS
    <3> QED
      BY <2>4, <3>1, <3>2 DEF Ctors
  <2> QED
    BY <1>1, <2>2, <2>3, <2>4 DEF ParseInitializers
<1>2. CASE ~ ParseInitializers
  <2>1. globalObjCtorDtor' = globalObjCtorDtor
    BY <1>2
    DEF Loader, OpenKernel, ParseELFHeader, ParseELFPHeader, SegmentsDone, SkipSegment,
        LoadSegment, OpenFont, ParsePSF2Header, GetFileSize, LoadFont, SelectVideoMode,
        SetUpFramebuffer, EnterKernel, Reset, ReadKeyStroke, kernelVars
  <2> QED
    BY <2>1 DEF Ctors
<1> QED
  BY <1>1, <1>2

\* The loader opens nothing else, and changes no file.
LEMMA LoaderOpens ==
  ASSUME Loader \/ Type, opened \subseteq {"image", "sfs", "root", "kernel", "font"}
  PROVE  opened' \subseteq {"image", "sfs", "root", "kernel", "font"} /\ machine' = machine
  BY DEF Loader, Type, OpenKernel, ParseELFHeader, ParseELFPHeader, SegmentsDone,
         SkipSegment, LoadSegment, ParseInitializers, OpenFont, ParsePSF2Header,
         GetFileSize, LoadFont, SelectVideoMode, SetUpFramebuffer, EnterKernel, Reset,
         ReadKeyStroke, LoadRootDirFile, files

\* One more constructor is called.
LEMMA CalledStep ==
  ASSUME Ctors, Called, CallConstructor
  PROVE  Called'
<1> DEFINE ctors == globalObjCtorDtor.ctors
           next == ctors[Len(called) + 1]
<1>1. /\ pc = "kernel" /\ globalObjCtorDtor # Uninitialised
      /\ Len(called) < Len(ctors)
      /\ called' = Append(called, next)
      /\ pc' = pc /\ globalObjCtorDtor' = globalObjCtorDtor
  BY DEF CallConstructor, KernelThere, vars, kernelVars
<1>2. /\ called \in Seq(ToSet(ctors)) /\ ctors \in Seq(ToSet(ctors))
      /\ \A n \in 1 .. Len(called) : called[n] = ctors[n]
  BY <1>1 DEF Ctors, Called
<1> HIDE DEF ctors
<1>3. Len(called) \in Nat /\ Len(ctors) \in Nat /\ DOMAIN ctors = 1 .. Len(ctors)
  BY <1>2
<1>4. Len(called) + 1 \in DOMAIN ctors
  BY <1>1, <1>3
<1>5. next \in ToSet(ctors)
  BY <1>4 DEF ToSet
<1> HIDE DEF next
<1>6. /\ called' \in Seq(ToSet(ctors)) /\ Len(called') = Len(called) + 1
      /\ \A n \in 1 .. Len(called) : called'[n] = called[n]
      /\ called'[Len(called) + 1] = next
  BY <1>1, <1>2, <1>5, AppendProperties
<1>7. \A n \in 1 .. Len(called') : called'[n] = ctors[n]
  <2> SUFFICES ASSUME NEW n \in 1 .. Len(called') PROVE called'[n] = ctors[n]
    OBVIOUS
  <2>1. CASE n = Len(called) + 1
    BY <1>6, <2>1 DEF next
  <2>2. CASE n # Len(called) + 1
    <3>1. n \in 1 .. Len(called)
      BY <1>3, <1>6, <2>2
    <3> QED
      BY <1>2, <1>6, <3>1
  <2> QED
    BY <2>1, <2>2
<1>8. Len(called') <= Len(ctors)
  BY <1>1, <1>3, <1>6
<1> QED
  BY <1>1, <1>6, <1>7, <1>8 DEF Called, Entered, ctors

\* Every step of the loader, of the firmware's part in leaving the boot services
\* and of the kernel's start keeps the types.
LEMMA BootTypesStep == BootInv /\ BootTypes /\ [BootNext]_bootVars => BootTypes'
<1> SUFFICES ASSUME BootInv, BootTypes, [BootNext]_bootVars PROVE BootTypes'
  OBVIOUS
<1>1. CASE Load /\ Type
  <2>1. Next /\ machine' = machine /\ pc' = pc /\ called' = called
        /\ UNCHANGED <<globalObjCtorDtor, opened>>
    BY <1>1 DEF Load, Type, Next, kernelVars, files
  <2>2. pc # "terminal" => Types'
    BY <2>1, TypesStep DEF BootInv, BootTypes
  <2> QED
    BY <2>1, <2>2 DEF BootTypes, Ctors, Called, Entered
<1>2. CASE Load /\ pc # "exit_boot" /\ Loader
  <2>1. /\ pc \notin {"exit_boot", "kernel", "terminal"}
        /\ pc' \notin {"kernel", "terminal"}
    BY <1>2, LoaderIsBefore, LoaderKeepsImage
  <2>2. Types'
    BY <1>2, <2>1, TypesStep DEF Next, BootInv, BootTypes
  <2>3. opened' \subseteq {"image", "sfs", "root", "kernel", "font"} /\ machine' = machine
    BY <1>2, LoaderOpens DEF BootTypes
  <2>4. Ctors'
    BY <1>2, <2>1, <2>3, CtorsStep DEF BootTypes
  <2>5. called = <<>> /\ called' = <<>>
    BY <1>2, <2>1 DEF BootTypes, Called, Entered, Load
  <2>6. Called'
    BY <2>1, <2>5 DEF Called, Entered
  <2> QED
    BY <2>1, <2>2, <2>3, <2>4, <2>6 DEF BootTypes
<1>3. CASE CloseProtocol
  <2>1. Types'
    BY <1>3 DEF CloseProtocol, BootTypes, Types, At, Loading, ForFont, Ending,
       fontVars, videoVars, kernelVars, history
  <2> QED
    BY <1>3, <2>1 DEF CloseProtocol, BootTypes, Ctors, Called, Entered, kernelVars
<1>4. CASE Leave
  <2>1. services' \in BOOLEAN
    BY <1>4, ExitSteps DEF Leave, BootTypes, Types
  <2>2. Types'
    BY <1>4, <2>1 DEF Leave, loaderLocals, BootTypes, Types, At, Loading, ForFont, Ending,
       fontVars, videoVars, kernelVars, history
  <2> QED
    BY <1>4, <2>2 DEF Leave, loaderLocals, BootTypes, Ctors, Called, Entered, kernelVars
<1>5. CASE CallKmain
  <2>1. Types'
    BY <1>5 DEF CallKmain, Goto, BootTypes, Types, At, Loading, ForFont, Ending, Stages,
       fontVars, videoVars, kernelVars, history, files
  <2>2. Ctors' /\ Called' /\ pc' = "kernel" /\ opened' = opened
    BY <1>5 DEF CallKmain, Goto, BootTypes, Ctors, Called, Entered, kernelVars, files
  <2> QED
    BY <2>1, <2>2 DEF BootTypes
<1>6. CASE CallConstructor
  <2>1. Types' /\ Ctors' /\ opened' = opened /\ pc' = pc /\ pc = "kernel"
    BY <1>6 DEF CallConstructor, BootTypes, Types, At, Loading, ForFont, Ending, Stages,
       fontVars, videoVars, kernelVars, history, files, vars, Ctors
  <2> QED
    BY <1>6, <2>1, CalledStep DEF BootTypes
<1>7. CASE ConstructorsDone
  <2>1. machine' \in Machines /\ machine'.kernel # NoFile /\ pc' = "terminal"
        /\ opened' = opened
    BY <1>7 DEF ConstructorsDone, Goto, BootTypes, Types, At, Ending, files
  <2>2. Ctors' /\ Called'
    BY <1>7 DEF ConstructorsDone, KernelThere, Goto, BootTypes, Ctors, Called, Entered,
       kernelVars
  <2> QED
    BY <2>1, <2>2 DEF BootTypes
<1>8. CASE UNCHANGED bootVars
  <2>1. pc # "terminal" => Types'
    BY <1>8 DEF bootVars, BootTypes, Types, At, Loading, ForFont, Ending, Stages,
       fontVars, videoVars, kernelVars, history, files, vars
  <2> QED
    BY <1>8, <2>1 DEF bootVars, BootTypes, Ctors, Called, Entered, kernelVars, files, vars
<1> QED
  BY <1>1, <1>2, <1>3, <1>4, <1>5, <1>6, <1>7, <1>8 DEF BootNext, Load

\* While the loader runs its segments become the kernel; the kernel stays.
BootSegments ==
  /\ pc # "terminal" => Segments
  /\ pc = "terminal" => (Useful => KernelIn)

\* The loader's steps fill the segments in; no step after them changes the image
\* or the addresses of the tables.
LEMMA BootSegmentsStep ==
  ASSUME SomeSegmentLoads
  PROVE  BootInv /\ BootTypes /\ BootSegments /\ [BootNext]_bootVars => BootSegments'
<1> SUFFICES ASSUME BootInv, BootTypes, BootSegments, [BootNext]_bootVars
             PROVE  BootSegments'
  OBVIOUS
<1>1. CASE Load /\ Type /\ pc # "terminal"
  <2>1. Next /\ pc' = pc
    BY <1>1 DEF Next, Type
  <2> QED
    BY <1>1, <2>1, SegmentsStep DEF BootInv, BootTypes, BootSegments
<1>2. CASE Load /\ pc # "exit_boot" /\ Loader
  <2>1. pc \notin {"exit_boot", "kernel", "terminal"} /\ pc' # "terminal"
    BY <1>2, LoaderIsBefore, LoaderKeepsImage
  <2> QED
    BY <1>2, <2>1, SegmentsStep DEF Next, BootInv, BootTypes, BootSegments
<1>3. CASE ~ (Load /\ Type /\ pc # "terminal") /\ ~ (Load /\ pc # "exit_boot" /\ Loader)
  <2>1. /\ UNCHANGED <<machine, i, programHeaders, kmain, image, globalObjCtorDtor>>
        /\ failed' = failed
        /\ pc' = "terminal" => pc \in {"kernel", "terminal"}
        /\ \/ pc' = pc /\ after' = after
           \/ pc = "exit_boot" /\ pc' = "kernel"
           \/ pc' = "terminal"
    BY <1>3
    DEF BootNext, Load, Type, CloseProtocol, Leave, CallKmain, CallConstructor,
        ConstructorsDone, Goto, bootVars, vars, loaderLocals, kernelVars, history
  <2>2. Useful' <=> Useful
    BY <2>1 DEF Useful, HeadersIntact
  <2>3. /\ KernelIn => KernelIn'
        /\ SegmentsSoFar => SegmentsSoFar'
        /\ Loaded(i + 1) => Loaded(i + 1)'
    BY <2>1, LoadedStays
  <2>4. CASE pc' = "terminal"
    BY <2>1, <2>2, <2>3, <2>4 DEF BootSegments, Segments, At, Ending
  <2>5. CASE pc' # "terminal"
    <3>1. Segments /\ pc # "terminal"
      BY <2>1, <2>5 DEF BootSegments
    <3>2. At({"open_font"} \cup ForFont \cup Ending)'
            => At({"open_font"} \cup ForFont \cup Ending)
      BY <2>1, <2>5 DEF At, Ending
    <3>3. Segments'
      BY <2>1, <2>2, <2>3, <2>5, <3>1, <3>2 DEF Segments, At
    <3> QED
      BY <2>5, <3>3 DEF BootSegments
  <2> QED
    BY <2>4, <2>5
<1> QED
  BY <1>1, <1>2, <1>3

\* Every variable of the boot has its type, and no constructor is called before
\* the kernel is entered or beyond the end of their table.
THEOREM BootTypesHold ==
  ASSUME E!ExitBootAssumption
  PROVE  BootSpec => []BootTypeOK
<1>1. BootInit => E!SafeInv
  <2> SUFFICES ASSUME BootInit PROVE E!SafeInv
    OBVIOUS
  <2>1. E!Init
    BY DEF BootInit, Exit!Init, E!Init, Exit!NoMap, E!NoMap
  <2> QED
    BY <2>1, E!InitSafe
<1>2. BootInv /\ E!SafeInv /\ [BootNext]_bootVars => (E!SafeInv)'
  BY ExitMaps, E!NextSafe
<1>3. ASSUME E!SafeInv, BootTypes PROVE BootTypeOK
  <2>1. Exit!TypeOK
    BY <1>3 DEF E!SafeInv, E!TypeOK, Exit!TypeOK, E!Steps, Exit!Steps
  <2>2. pc \in Stages \cup {"terminal"}
    BY <1>3 DEF BootTypes, Types
  <2>3. Len(called) > 0 => Entered /\ Len(called) <= Len(globalObjCtorDtor.ctors)
    BY <1>3 DEF BootTypes, Called
  <2> QED
    BY <1>3, <2>1, <2>2, <2>3 DEF BootTypes, BootTypeOK
<1> QED
  BY <1>1, <1>2, <1>3, BootInvInit, BootInvStep, BootTypesInit, BootTypesStep, PTL
  DEF BootSpec

\* A kernel that was read calls the functions in the last table of constructors
\* of its file, each where the image has it, in the order of the table and all of
\* them, unless its section headers were not read or there was no memory for the
\* tables.
THEOREM ConstructorsAreInOrder ==
  ASSUME SomeSegmentLoads, KernelIsLinked
  PROVE  BootSpec => []ConstructorsInOrder
<1>1. ASSUME BootTypes, BootSegments PROVE ConstructorsInOrder
  <2> DEFINE tables == TablesOf("init")
             loaded == {n \in DOMAIN machine.kernel.phs : machine.kernel.phs[n].load}
             table == IF tables = {} THEN <<>>
                      ELSE machine.kernel.sections[Max(tables)].table
  <2> SUFFICES ASSUME Entered, machine.kernel.elf, HeadersIntact,
                      image.read = image.size,
                      failed \cap {"section_headers", "pool"} = {}
               PROVE  /\ Len(called) <= Len(table)
                      /\ \A n \in DOMAIN called :
                           called[n] - image.base
                             = table[n] - machine.kernel.phs[Max(loaded)].vaddr
                      /\ pc = "terminal" => Len(called) = Len(table)
    BY DEF ConstructorsInOrder, TablesOf
  <2>1. machine \in Machines /\ machine.kernel # NoFile
    BY <1>1 DEF BootTypes, Types, At, Ending, Entered
  <2>2. PICK k \in 1 .. Len(machine.kernel.phs) :
          /\ Loaded(k)
          /\ machine.kernel.hasSections =>
               Parsed(k) /\ NoneLoads(k + 1, Len(machine.kernel.phs))
    BY <1>1 DEF BootSegments, Segments, KernelIn, Useful, At, Ending, Entered
  <2>3. table \in Seq(Nat)
    <3>1. CASE tables = {}
      BY <3>1
    <3>2. CASE tables # {}
      <4>1. tables \in SUBSET (1 .. Len(machine.kernel.sections))
            /\ Len(machine.kernel.sections) \in Nat
        BY <2>1, KernelTypes DEF TablesOf
      <4>2. Max(tables) \in 1 .. Len(machine.kernel.sections)
        BY <3>2, <4>1, MaxIsIn
      <4> QED
        BY <2>1, <3>2, <4>2, KernelTypes
    <3> QED
      BY <3>1, <3>2
  <2>4. CASE called = <<>> /\ pc # "terminal"
    <3>1. Len(called) = 0 /\ DOMAIN called = {} /\ Len(table) \in Nat
      <4> HIDE DEF table
      <4> QED BY <2>3, <2>4
    <3> QED
      BY <2>4, <3>1
  <2>5. CASE called # <<>> \/ pc = "terminal"
    <3> DEFINE ctors == globalObjCtorDtor.ctors
    <3>1. globalObjCtorDtor # Uninitialised /\ machine.kernel.hasSections
      BY <1>1, <2>5 DEF BootTypes, Ctors, Called
    <3>2. ctors = AddressesIn("init", k)
      BY <2>2, <3>1 DEF Parsed, AddressesIn
    <3>3. /\ machine.kernel.phs[k].load /\ image.base \in Bases
          /\ image.read = machine.kernel.phs[k].filesz
      BY <2>2 DEF Loaded
    <3>4. Max(loaded) = k
      <4>1. DOMAIN machine.kernel.phs = 1 .. Len(machine.kernel.phs)
            /\ Len(machine.kernel.phs) \in Nat
        BY <2>1, KernelTypes
      <4>2. loaded \in SUBSET (1 .. Len(machine.kernel.phs)) /\ k \in loaded
        BY <3>3, <4>1
      <4>3. \A j \in loaded : j <= k
        BY <2>2, <3>1, <4>1 DEF NoneLoads
      <4> HIDE DEF loaded
      <4>4. Max(loaded) \in loaded /\ \A j \in loaded : j <= Max(loaded)
        BY <4>1, <4>2, MaxIsIn
      <4>5. Max(loaded) \in Nat /\ k \in Nat
        <5> DEFINE m == Max(loaded)
                   length == Len(machine.kernel.phs)
        <5>1. m \in 1 .. length /\ k \in 1 .. length /\ length \in Nat
          BY <4>1, <4>2, <4>4
        <5> HIDE DEF m, length
        <5>2. m \in Nat /\ k \in Nat
          BY <5>1
        <5> QED
          BY <5>2 DEF m
      <4>6. Max(loaded) <= k /\ k <= Max(loaded)
        BY <4>2, <4>3, <4>4
      <4> QED
        BY <4>5, <4>6
    <3>5. /\ called \in Seq(ToSet(ctors)) /\ ctors \in Seq(ToSet(ctors))
          /\ Len(called) <= Len(ctors)
          /\ \A n \in 1 .. Len(called) : called[n] = ctors[n]
          /\ pc = "terminal" => Len(called) = Len(ctors)
      BY <1>1, <3>1 DEF BootTypes, Ctors, Called
    <3>6. /\ tables = {} => ctors = <<>>
          /\ tables # {} =>
               /\ DOMAIN ctors = DOMAIN table
               /\ \A n \in DOMAIN table :
                    ctors[n] = image.base + (table[n] - machine.kernel.phs[k].vaddr)
      BY <2>1, <3>1, <3>2, <3>3, AddressesOf
    <3>7. image.base \in Nat /\ machine.kernel.phs[k].vaddr \in Nat
      BY <2>1, <3>3, MachineAssumption, KernelTypes
    <3>8. /\ DOMAIN ctors = DOMAIN table
          /\ \A n \in DOMAIN table :
               ctors[n] = image.base + (table[n] - machine.kernel.phs[k].vaddr)
      BY <3>6
    <3> HIDE DEF table, ctors, tables, loaded
    <3>9. Len(ctors) = Len(table) /\ DOMAIN table = 1 .. Len(table) /\ Len(table) \in Nat
          /\ DOMAIN called = 1 .. Len(called) /\ Len(called) \in Nat
      BY <2>3, <3>5, <3>8
    <3>10. ASSUME NEW n \in DOMAIN called
           PROVE  called[n] - image.base
                    = table[n] - machine.kernel.phs[Max(loaded)].vaddr
      <4>1. n \in DOMAIN table /\ called[n] = ctors[n]
        BY <3>5, <3>9
      <4>2. table[n] \in Nat
        BY <2>3, <4>1
      <4> QED
        BY <3>4, <3>7, <3>8, <4>1, <4>2
    <3> QED
      BY <3>5, <3>9, <3>10
  <2> QED
    BY <2>4, <2>5
<1>2. BootInit => BootSegments
  BY InitLoader DEF BootInit, Init, BootSegments
<1> QED
  BY <1>1, <1>2, BootInvInit, BootInvStep, BootTypesInit, BootTypesStep,
     BootSegmentsStep, PTL DEF BootSpec

=============================================================================
