-------------------------- MODULE BhavaLoaderProofs --------------------------
(***************************************************************************)
(* Proofs about BhavaLoader for all files, displays and failures.          *)
(***************************************************************************)
EXTENDS BhavaLoader, SequenceTheorems, WellFoundedInduction, TLAPS

\* Where the loader goes on after a key: never to another WaitForKey.
AfterKey == {"open_kernel", "returned", "program_headers", "framebuffer"}

\* While the loader polls for a key, the one in the queue is newer than Reset.
Prompt ==
  /\ keyboard \in {"none", "before", "since"}
  /\ after \in AfterKey
  /\ pc = "key" => keyboard # "before"

\* Nothing but Reset starts to poll.
LEMMA OnlyResetPolls ==
  ASSUME Prompt, Loader, pc # "reset", pc # "key"
  PROVE  pc' # "key" /\ after' \in AfterKey /\ keyboard' = keyboard
<1>1. CASE OpenKernel
  BY <1>1 DEF OpenKernel, LoadRootDirFile, WaitForKey, Goto, Fault, Prompt, AfterKey
<1>2. CASE ParseELFHeader
  BY <1>2 DEF ParseELFHeader, WaitForKey, Goto, Prompt, AfterKey
<1>3. CASE ParseELFPHeader \/ SegmentsDone \/ SkipSegment
  BY <1>3 DEF ParseELFPHeader, SegmentsDone, SkipSegment, Goto, Prompt, AfterKey
<1>4. CASE LoadSegment
  BY <1>4 DEF LoadSegment, AllocatePagesForData, AllocatePages, WaitForKey, Goto,
              Fault, Prompt, AfterKey
<1>5. CASE ParseInitializers
  BY <1>5 DEF ParseInitializers, Goto, Fault, Prompt, AfterKey
<1>6. CASE OpenFont
  BY <1>6 DEF OpenFont, LoadRootDirFile, Goto, Fault, Prompt, AfterKey
<1>7. CASE ParsePSF2Header \/ GetFileSize
  BY <1>7 DEF ParsePSF2Header, GetFileSize, WaitForKey, Goto, Prompt, AfterKey
<1>8. CASE LoadFont
  BY <1>8 DEF LoadFont, AllocatePagesForData, AllocatePages, WaitForKey, Goto, Prompt, AfterKey
<1>9. CASE SelectVideoMode
  BY <1>9 DEF SelectVideoMode, WaitForKey, Goto, Fault, Prompt, AfterKey
<1>10. CASE SetUpFramebuffer \/ EnterKernel
  BY <1>10 DEF SetUpFramebuffer, EnterKernel, Goto, Prompt, AfterKey
<1>11. CASE Reset \/ ReadKeyStroke
  BY <1>11 DEF Reset, ReadKeyStroke
<1> QED
  BY <1>1, <1>2, <1>3, <1>4, <1>5, <1>6, <1>7, <1>8, <1>9, <1>10, <1>11
  DEF Loader

\* Every step preserves Prompt, the user's and the firmware's included.
LEMMA PromptStep == Prompt /\ [Next]_vars => Prompt'
<1> SUFFICES ASSUME Prompt, [Next]_vars PROVE Prompt'
  OBVIOUS
<1>1. CASE Loader /\ pc # "reset" /\ pc # "key"
  BY <1>1, OnlyResetPolls DEF Prompt
<1>2. CASE Loader /\ pc \in {"reset", "key"}
  <2>1. Reset \/ ReadKeyStroke
    BY <1>2 DEF Loader, OpenKernel, ParseELFHeader, ParseELFPHeader,
       SegmentsDone, SkipSegment, LoadSegment, ParseInitializers, OpenFont,
       ParsePSF2Header, GetFileSize, LoadFont, SelectVideoMode,
       SetUpFramebuffer, EnterKernel
  <2> QED
    BY <2>1 DEF Reset, ReadKeyStroke, Goto, Prompt, AfterKey
<1>3. CASE Type
  BY <1>3 DEF Type, Prompt
<1>4. CASE UNCHANGED vars
  BY <1>4 DEF vars, Prompt
<1> QED
  BY <1>1, <1>2, <1>3, <1>4 DEF Next

\* Only a key typed since the prompt was shown ends a WaitForKey: what was
\* typed before is discarded, on every path of efi_main.
THEOREM OnlyAnswersCount == Spec => AnsweredSincePrompt
<1>1. Init => Prompt
  BY DEF Init, Prompt, AfterKey
<1>2. Prompt /\ [Next]_vars => [pc = "key" /\ pc' # "key" => keyboard = "since"]_vars
  <2> SUFFICES ASSUME Prompt, Next, pc = "key", pc' # "key"
               PROVE  keyboard = "since"
    BY DEF vars
  <2>1. CASE Type
    BY <2>1 DEF Type
  <2>2. CASE Loader
    <3>1. ReadKeyStroke
      BY <2>2 DEF Loader, OpenKernel, ParseELFHeader, ParseELFPHeader,
         SegmentsDone, SkipSegment, LoadSegment, ParseInitializers, OpenFont,
         ParsePSF2Header, GetFileSize, LoadFont, SelectVideoMode,
         SetUpFramebuffer, EnterKernel, Reset
    <3> QED
      BY <3>1 DEF ReadKeyStroke, Prompt
  <2> QED
    BY <2>1, <2>2 DEF Next
<1> QED
  BY <1>1, <1>2, PromptStep, PTL DEF Spec, AnsweredSincePrompt

-----------------------------------------------------------------------------
(* The pages hold what is read to them *)

\* The sizes in the files are those of files of less than half the range of
\* an int, in which no segment has more bytes in the file than in memory.
FileSizes ==
  /\ IntRange \in Nat
  /\ \A m \in Machines :
       /\ m.kernel # NoFile =>
            \A n \in DOMAIN m.kernel.phs :
              /\ m.kernel.phs[n].filesz <= m.kernel.phs[n].memsz
              /\ 2 * m.kernel.phs[n].memsz < IntRange
       /\ m.font # NoFile => 2 * (m.font.charSize * m.font.length) < IntRange

\* n bytes fit in the pages for n bytes.
LEMMA PagesHold ==
  ASSUME IntRange \in Nat, NEW n \in Nat, 2 * n < IntRange
  PROVE  /\ PagesFor(n) * PageBytes \in Nat
         /\ n <= PagesFor(n) * PageBytes
<1>1. AsInt(n) = n
  <2>1. n % IntRange = n
    OBVIOUS
  <2> QED
    BY <2>1 DEF AsInt
<1>2. PageBytes \in Nat \ {0}
  BY MachineAssumption
<1>3. n \div PageBytes \in Nat /\ n < (n \div PageBytes + 1) * PageBytes
  BY <1>2
<1> QED
  BY <1>1, <1>2, <1>3 DEF PagesFor, GetDataPageSize

\* The stages in which nothing was loaded yet, the one after an error message
\* included; what files are open by the stage; and the property.
Early ==
  \/ pc \in {"open_kernel", "elf_header", "program_headers"}
  \/ pc \in {"reset", "key"} /\ after \in {"open_kernel", "program_headers"}

ByStage ==
  /\ Early => ~ overrun
  /\ \/ pc \in {"elf_header", "program_headers", "segments", "initializers"}
     \/ pc \in {"reset", "key"} /\ after = "program_headers"
     => machine.kernel # NoFile
  /\ pc \in {"font_header", "font_size", "font_data"} => machine.font # NoFile

PagesInv ==
  /\ machine \in Machines /\ i \in Nat /\ psf2fileSize \in Nat
  /\ ByStage /\ NoOverrun

\* The steps that load nothing.
LEMMA LoadsNothing ==
  ASSUME Prompt, PagesInv, Next, UNCHANGED <<overrun, programHeaders, i>>
  PROVE  PagesInv'
<1> USE DEF PagesInv, ByStage, Early, NoOverrun, HeadersIntact, fontVars
<1>1. CASE Type
  BY <1>1 DEF Type
<1>2. CASE OpenKernel
  BY <1>2 DEF OpenKernel, LoadRootDirFile, WaitForKey, Goto, Fault
<1>3. CASE ParseELFHeader \/ ParseELFPHeader \/ SegmentsDone
  BY <1>3 DEF ParseELFHeader, ParseELFPHeader, SegmentsDone, WaitForKey, Goto
<1>4. CASE SkipSegment
  BY <1>4 DEF SkipSegment
<1>5. CASE LoadSegment
  BY <1>5 DEF LoadSegment, AllocatePagesForData, AllocatePages, WaitForKey, Goto, Fault
<1>6. CASE ParseInitializers
  BY <1>6 DEF ParseInitializers, Goto, Fault
<1>7. CASE OpenFont
  BY <1>7 DEF OpenFont, LoadRootDirFile, Goto, Fault
<1>8. CASE ParsePSF2Header \/ GetFileSize
  <2>1. psf2fileSize' \in Nat
    <3>1. CASE ParsePSF2Header
      BY <3>1 DEF ParsePSF2Header
    <3>2. CASE GetFileSize
      <4>1. machine.font \in FontFiles
        BY <3>2, MachineAssumption DEF GetFileSize
      <4> QED
        BY <3>2, <4>1 DEF GetFileSize, FontFiles
    <3> QED
      BY <1>8, <3>1, <3>2
  <2> QED
    BY <1>8, <2>1 DEF ParsePSF2Header, GetFileSize, WaitForKey, Goto
<1>9. CASE LoadFont
  BY <1>9 DEF LoadFont, AllocatePagesForData, AllocatePages, WaitForKey, Goto
<1>10. CASE SelectVideoMode \/ SetUpFramebuffer \/ EnterKernel
  BY <1>10 DEF SelectVideoMode, SetUpFramebuffer, EnterKernel, WaitForKey, Goto,
               Fault
<1>11. CASE Reset \/ ReadKeyStroke
  BY <1>11 DEF Reset, ReadKeyStroke, Goto, Prompt, AfterKey
<1> QED
  BY <1>1, <1>2, <1>3, <1>4, <1>5, <1>6, <1>7, <1>8, <1>9, <1>10, <1>11
  DEF Next, Loader

\* A segment is read to pages for at least as many bytes.
LEMMA SegmentFits ==
  ASSUME FileSizes, PagesInv, LoadSegment
  PROVE  PagesInv'
<1>1. /\ pc = "segments" /\ i \in Nat /\ i < Len(machine.kernel.phs)
      /\ machine \in Machines /\ machine.kernel \in KernelFiles
      /\ UNCHANGED <<machine, i, programHeaders, psf2fileSize>>
      /\ ~ Early /\ ~ Early'
  BY MachineAssumption
  DEF LoadSegment, AllocatePagesForData, AllocatePages, WaitForKey, Goto, Fault, PagesInv, ByStage,
      Early, fontVars
<1>2. ByStage'
  BY <1>1 DEF LoadSegment, AllocatePagesForData, AllocatePages, WaitForKey, Goto, Fault, PagesInv,
              ByStage, Early
<1>3. CASE ~ HeadersIntact
  BY <1>1, <1>2, <1>3 DEF PagesInv, NoOverrun, HeadersIntact
<1>4. CASE HeadersIntact
  <2>1. i + 1 \in DOMAIN machine.kernel.phs
    BY <1>1 DEF KernelFiles
  <2>2. Ph \in [load : BOOLEAN, offset : Nat, vaddr : Nat, filesz : Nat,
                memsz : Nat]
    <3>1. machine.kernel.phs \in Seq([load : BOOLEAN, offset : Nat,
                                      vaddr : Nat, filesz : Nat, memsz : Nat])
      BY <1>1 DEF KernelFiles
    <3>2. \A R : \A s \in Seq(R) : \A k \in DOMAIN s : s[k] \in R
      OBVIOUS
    <3> QED
      BY <2>1, <3>1, <3>2 DEF Ph
  <2>3. Ph.filesz \in Nat /\ Ph.memsz \in Nat
    BY <2>2
  <2>4. machine.kernel # NoFile
    BY <1>1 DEF PagesInv, ByStage
  <2>5. Ph.filesz <= Ph.memsz /\ 2 * Ph.memsz < IntRange /\ IntRange \in Nat
    BY <1>1, <2>1, <2>4 DEF FileSizes, Ph
  <2>6. /\ PagesFor(Ph.memsz) * PageBytes \in Nat
        /\ Ph.memsz <= PagesFor(Ph.memsz) * PageBytes
    BY <2>3, <2>5, PagesHold
  <2>7. ~ (Ph.filesz > PagesFor(Ph.memsz) * PageBytes)
    BY <2>3, <2>5, <2>6
  <2>8. overrun' => overrun
    BY <1>4, <2>7 DEF LoadSegment, AllocatePagesForData, AllocatePages, history
  <2> QED
    BY <1>1, <1>2, <2>8 DEF PagesInv, NoOverrun, HeadersIntact
<1> QED
  BY <1>3, <1>4

\* The read of the font runs over its pages only with more than glyphs.
LEMMA FontFits ==
  ASSUME FileSizes, PagesInv, LoadFont
  PROVE  PagesInv'
<1> DEFINE glyphs == machine.font.charSize * machine.font.length
           rest == IF machine.font.headerSize > machine.font.size THEN 0
                   ELSE machine.font.size - machine.font.headerSize
           bytes == IF psf2fileSize < rest THEN psf2fileSize ELSE rest
<1>1. /\ pc = "font_data" /\ machine \in Machines
      /\ machine.font \in FontFiles
      /\ UNCHANGED <<machine, i, programHeaders, psf2fileSize>>
      /\ ~ Early /\ ~ Early'
  BY MachineAssumption
  DEF LoadFont, AllocatePagesForData, AllocatePages, WaitForKey, Goto, PagesInv, ByStage, Early
<1>2. ByStage'
  BY <1>1 DEF LoadFont, AllocatePagesForData, AllocatePages, WaitForKey, Goto, PagesInv,
              ByStage, Early
<1>3. glyphs \in Nat /\ rest \in Nat /\ IntRange \in Nat /\ 2 * glyphs < IntRange
  BY <1>1 DEF FontFiles, FileSizes, NoFile
<1>4. /\ PagesFor(glyphs) * PageBytes \in Nat
      /\ glyphs <= PagesFor(glyphs) * PageBytes
  <2> HIDE DEF glyphs
  <2> QED
    BY <1>3, PagesHold
<1>5. bytes \in Nat /\ bytes <= rest
  <2> HIDE DEF rest
  <2> QED
    BY <1>3 DEF PagesInv
<1>6. overrun' => overrun \/ bytes > PagesFor(glyphs) * PageBytes
  BY DEF LoadFont, AllocatePagesForData, AllocatePages, history
<1>7. bytes > PagesFor(glyphs) * PageBytes =>
        machine.font.size - machine.font.headerSize > glyphs
  <2> SUFFICES ASSUME bytes > PagesFor(glyphs) * PageBytes
               PROVE  machine.font.size - machine.font.headerSize > glyphs
    OBVIOUS
  <2>1. rest > glyphs
    <3> HIDE DEF rest, bytes, glyphs
    <3> QED
      BY <1>3, <1>4, <1>5
  <2> QED
    BY <1>1, <1>3, <2>1 DEF FontFiles
<1>8. NoOverrun'
  <2> HIDE DEF bytes
  <2> QED
    BY <1>1, <1>6, <1>7 DEF PagesInv, NoOverrun, HeadersIntact
<1> QED
  BY <1>1, <1>2, <1>8 DEF PagesInv

\* Only LoadSegment and LoadFont read to pages.
LEMMA PagesStep ==
  ASSUME FileSizes
  PROVE  Prompt /\ PagesInv /\ [Next]_vars => PagesInv'
<1> SUFFICES ASSUME Prompt, PagesInv, [Next]_vars PROVE PagesInv'
  OBVIOUS
<1>1. CASE LoadSegment
  BY <1>1, SegmentFits
<1>2. CASE LoadFont
  BY <1>2, FontFits
<1>3. CASE ParseELFPHeader
  BY <1>3 DEF ParseELFPHeader, Goto, PagesInv, ByStage, Early, NoOverrun,
              fontVars, history
<1>4. CASE SkipSegment
  BY <1>4 DEF SkipSegment, PagesInv, ByStage, Early, NoOverrun, HeadersIntact,
              fontVars, history
<1>5. CASE ParseInitializers
  BY <1>5 DEF ParseInitializers, Goto, Fault, PagesInv, ByStage, Early,
              NoOverrun, HeadersIntact, fontVars
<1>6. CASE UNCHANGED vars
  BY <1>6 DEF vars, kernelVars, fontVars, videoVars, files, history, PagesInv,
              ByStage, Early, NoOverrun, HeadersIntact
<1>7. CASE Next /\ ~ LoadSegment /\ ~ LoadFont /\ ~ ParseELFPHeader
           /\ ~ SkipSegment /\ ~ ParseInitializers
  <2>1. UNCHANGED <<overrun, programHeaders, i>>
    BY <1>7 DEF Next, Loader, Type, OpenKernel, ParseELFHeader, SegmentsDone,
       OpenFont, ParsePSF2Header, GetFileSize, SelectVideoMode, SetUpFramebuffer,
       SetMode, EnterKernel, Reset, ReadKeyStroke, kernelVars, history
  <2> QED
    BY <1>7, <2>1, LoadsNothing
<1> QED
  BY <1>1, <1>2, <1>3, <1>4, <1>5, <1>6, <1>7

\* Although pages are counted from one field of a file and bytes read by
\* another, in ints that are too narrow for some, no read runs over its pages
\* for files of sizes that an int holds, except for what a font's file has
\* behind its glyphs.
THEOREM ReadsStayInPages ==
  ASSUME FileSizes
  PROVE  Spec => []NoOverrun
<1>1. Init => PagesInv
  BY DEF Init, PagesInv, ByStage, Early, NoOverrun
<1>2. PagesInv => NoOverrun
  BY DEF PagesInv
<1>3. Init => Prompt
  BY DEF Init, Prompt, AfterKey
<1> QED
  BY <1>1, <1>2, <1>3, PromptStep, PagesStep, PTL DEF Spec

-----------------------------------------------------------------------------
(* The types *)

\* The loader is at one of some stages, or will be after a key.
At(stages) == pc \in stages \/ (pc \in {"reset", "key"} /\ after \in stages)

Loading == {"elf_header", "program_headers", "segments", "initializers"}
ForFont == {"font_header", "font_size", "font_data"}
Ending == {"video_mode", "framebuffer", "exit_boot", "kernel"}

\* Files are used once they are found, and a mode once one was selected.
Types ==
  /\ machine \in Machines /\ pc \in Stages
  /\ At(Loading \cup {"open_font"} \cup ForFont \cup Ending) => machine.kernel # NoFile
  /\ At(ForFont \cup Ending) => machine.font # NoFile
  /\ i \in Nat /\ psf2fileSize \in Nat
  /\ overrun \in BOOLEAN /\ services \in BOOLEAN
  /\ failed \subseteq {"program_headers", "kernel", "section_headers", "pool",
                       "info", "font", "setmode", "exit"}
  /\ gopMode \in 0 .. Len(machine.modes) - 1
  /\ videoMode \in -1 .. Len(machine.modes) - 1
  /\ At({"framebuffer"}) => videoMode # -1

\* A set of numbers that is not empty has a first one.
LEMMA First ==
  ASSUME NEW T \in SUBSET Nat, T # {}
  PROVE  \E n \in T : \A k \in T : n <= k
<1> DEFINE R == OpToRel(<, Nat)
<1>1. \E n \in T : \A k \in T : <<k, n>> \notin R
  BY WFMin, NatLessThanWellFounded
<1>2. \A k, n \in Nat : <<k, n>> \in R <=> k < n
  BY DEF OpToRel
<1> HIDE DEF R
<1>3. PICK n \in T : \A k \in T : <<k, n>> \notin R
  BY <1>1
<1>4. ASSUME NEW k \in T PROVE n <= k
  <2>1. n \in Nat /\ k \in Nat /\ <<k, n>> \notin R
    BY <1>3
  <2>2. ~ (k < n)
    BY <1>2, <2>1
  <2> QED
    BY <2>1, <2>2
<1> QED
  BY <1>3, <1>4

\* The greatest of some of the indexes of a sequence.
LEMMA MaxIsIn ==
  ASSUME NEW n \in Nat, NEW T \in SUBSET (1 .. n), T # {}
  PROVE  Max(T) \in T /\ \A k \in T : k <= Max(T)
<1> DEFINE Down == {n - k : k \in T}
<1>1. PICK d \in Down : \A e \in Down : d <= e
  <2>1. Down \in SUBSET Nat /\ Down # {}
    <3>1. \A k \in T : n - k \in Nat
      OBVIOUS
    <3> QED BY <3>1
  <2> HIDE DEF Down
  <2> QED BY <2>1, First
<1>2. PICK m \in T : d = n - m
  OBVIOUS
<1>3. \A k \in T : m >= k
  <2>1. \A k \in T : n - m <= n - k
    BY <1>1, <1>2
  <2> QED BY <2>1
<1>4. Max(T) \in T /\ \A k \in T : Max(T) >= k
  BY <1>3 DEF Max
<1> QED
  BY <1>4

\* A machine's display has a mode for each number GetVideoMode returns.
LEMMA ModeExists ==
  ASSUME machine \in Machines
  PROVE  /\ machine.modes \in Displays \ {<<>>}
         /\ GetVideoMode(machine.modes) \in -1 .. Len(machine.modes) - 1
<1>1. machine.modes \in Displays \ {<<>>} /\ Len(machine.modes) \in Nat
  BY MachineAssumption DEF Displays
<1> DEFINE favored == {n \in DOMAIN machine.modes :
                    IF CustomResolution = AnyResolution
                    THEN machine.modes[n].horz > 0 /\ machine.modes[n].vert > 0
                    ELSE machine.modes[n] = CustomResolution}
<1>2. favored \in SUBSET (1 .. Len(machine.modes))
  BY <1>1 DEF Displays
<1>3. GetVideoMode(machine.modes) = IF favored = {} THEN -1 ELSE Max(favored) - 1
  BY DEF GetVideoMode
<1> HIDE DEF favored
<1>4. favored # {} => Max(favored) \in 1 .. Len(machine.modes)
  BY <1>1, <1>2, MaxIsIn
<1> QED
  BY <1>1, <1>3, <1>4

\* No step leaves the types: each call that may fail leaves values it may have.
LEMMA TypesStep == Prompt /\ Types /\ [Next]_vars => Types'
<1> SUFFICES ASSUME Prompt, Types, [Next]_vars PROVE Types'
  OBVIOUS
<1> USE DEF Types, At, Loading, ForFont, Ending, Stages, fontVars, kernelVars, videoVars,
            history, files, Goto, WaitForKey, Fault
<1>1. CASE Type
  BY <1>1 DEF Type
<1>2. CASE OpenKernel
  BY <1>2 DEF OpenKernel, LoadRootDirFile
<1>3. CASE ParseELFHeader \/ ParseELFPHeader \/ SegmentsDone
  BY <1>3 DEF ParseELFHeader, ParseELFPHeader, SegmentsDone
<1>4. CASE SkipSegment
  BY <1>4 DEF SkipSegment
<1>5. CASE LoadSegment
  BY <1>5 DEF LoadSegment, AllocatePagesForData, AllocatePages, Read
<1>6. CASE ParseInitializers
  <2>1. /\ pc = "initializers" /\ pc' \in {"open_font", "segments", "fault"}
        /\ i' \in {i, i + 1}
        /\ failed' \in {failed, failed \cup {"pool"},
                       failed \cup {"section_headers"}}
        /\ UNCHANGED <<machine, keyboard, after, services, gopMode, videoMode,
                       psf2fileSize, overrun>>
    BY <1>6 DEF ParseInitializers
  <2> QED
    BY <2>1
<1>7. CASE OpenFont
  BY <1>7 DEF OpenFont, LoadRootDirFile
<1>8. CASE ParsePSF2Header
  BY <1>8 DEF ParsePSF2Header
<1>9. CASE GetFileSize
  <2>1. machine.font \in FontFiles
    BY <1>9, MachineAssumption DEF GetFileSize
  <2>2. machine.font.size \in Nat
    BY <2>1 DEF FontFiles
  <2>3. /\ pc = "font_size" /\ pc' = "font_data"
        /\ psf2fileSize' \in {machine.font.size, 0}
        /\ failed' \in {failed, failed \cup {"info"}}
        /\ UNCHANGED <<machine, keyboard, after, services, gopMode, videoMode,
                       i, overrun>>
    BY <1>9 DEF GetFileSize
  <2> QED
    BY <2>2, <2>3
<1>10. CASE LoadFont
  BY <1>10 DEF LoadFont, AllocatePagesForData, AllocatePages, Read
<1>11. CASE SelectVideoMode
  BY <1>11, ModeExists DEF SelectVideoMode
<1>12. CASE SetUpFramebuffer
  <2>1. /\ pc = "framebuffer" /\ pc' = "exit_boot"
        /\ gopMode' \in {gopMode, videoMode}
        /\ failed' \in {failed, failed \cup {"setmode"}}
        /\ UNCHANGED <<machine, keyboard, after, services, videoMode,
                       psf2fileSize, i, overrun>>
    BY <1>12 DEF SetUpFramebuffer, SetMode
  <2>2. videoMode \in 0 .. Len(machine.modes) - 1
    BY <2>1
  <2> QED
    BY <2>1, <2>2
<1>13. CASE EnterKernel
  BY <1>13 DEF EnterKernel
<1>14. CASE Reset
  BY <1>14 DEF Reset
<1>15. CASE ReadKeyStroke
  BY <1>15 DEF ReadKeyStroke, Prompt, AfterKey
<1>16. CASE UNCHANGED vars
  BY <1>16 DEF vars
<1> QED
  BY <1>1, <1>2, <1>3, <1>4, <1>5, <1>6, <1>7, <1>8, <1>9, <1>10, <1>11, <1>12,
     <1>13, <1>14, <1>15, <1>16 DEF Next, Loader

\* What is in the kernel's file.
LEMMA KernelTypes ==
  ASSUME machine \in Machines, machine.kernel # NoFile
  PROVE  /\ machine.kernel \in KernelFiles
         /\ Len(machine.kernel.phs) \in Nat
         /\ DOMAIN machine.kernel.phs = 1 .. Len(machine.kernel.phs)
         /\ \A k \in 1 .. Len(machine.kernel.phs) :
              machine.kernel.phs[k] \in [load : BOOLEAN, offset : Nat, vaddr : Nat,
                                         filesz : Nat, memsz : Nat]
         /\ Len(machine.kernel.sections) \in Nat
         /\ DOMAIN machine.kernel.sections = 1 .. Len(machine.kernel.sections)
         /\ \A k \in 1 .. Len(machine.kernel.sections) :
              /\ machine.kernel.sections[k].table \in Seq(Nat)
              /\ machine.kernel.sections[k].offset \in Nat
         /\ machine.kernel.entry \in Nat
<1>1. machine.kernel \in KernelFiles
  BY MachineAssumption
<1>2. /\ machine.kernel.phs \in Seq([load : BOOLEAN, offset : Nat, vaddr : Nat,
                                     filesz : Nat, memsz : Nat])
      /\ machine.kernel.sections \in Seq([type : {"init", "fini", "other"},
                                          offset : Nat, table : Seq(Nat)])
      /\ machine.kernel.entry \in Nat
  BY <1>1 DEF KernelFiles
<1>3. \A R : \A s \in Seq(R) : /\ Len(s) \in Nat /\ DOMAIN s = 1 .. Len(s)
                               /\ \A k \in 1 .. Len(s) : s[k] \in R
  OBVIOUS
<1>4. \A k \in 1 .. Len(machine.kernel.sections) :
        machine.kernel.sections[k] \in [type : {"init", "fini", "other"},
                                        offset : Nat, table : Seq(Nat)]
  BY <1>2, <1>3, Zenon
<1>5. \A k \in 1 .. Len(machine.kernel.phs) :
        machine.kernel.phs[k] \in [load : BOOLEAN, offset : Nat, vaddr : Nat,
                                   filesz : Nat, memsz : Nat]
  BY <1>2, <1>3, Zenon
<1>6. /\ Len(machine.kernel.phs) \in Nat
      /\ DOMAIN machine.kernel.phs = 1 .. Len(machine.kernel.phs)
      /\ Len(machine.kernel.sections) \in Nat
      /\ DOMAIN machine.kernel.sections = 1 .. Len(machine.kernel.sections)
  BY <1>2, <1>3, Zenon
<1>7. \A k \in 1 .. Len(machine.kernel.sections) :
        /\ machine.kernel.sections[k].table \in Seq(Nat)
        /\ machine.kernel.sections[k].offset \in Nat
  BY <1>4
<1> QED
  BY <1>1, <1>2, <1>5, <1>6, <1>7

-----------------------------------------------------------------------------
(* The memory *)

\* Pages that are free and those of the image are the machine's, and nothing
\* else, although FreePages is called with whatever address a slot holds.
Pages ==
  /\ freePages \in 0 .. machine.pages
  /\ image # NoImage => /\ image.pages \in Nat
                        /\ freePages + image.pages <= machine.pages

\* A size of any number of bytes becomes a number of pages.
LEMMA PagesAreCounted ==
  ASSUME NEW n \in Nat
  PROVE  PagesFor(n) \in Nat
<1>1. IntRange \in Nat \ {0} /\ UintnRange \in Nat /\ IntRange <= UintnRange
      /\ PageBytes \in Nat \ {0}
  BY MachineAssumption
<1>2. n % IntRange \in Nat /\ n % IntRange < IntRange
  BY <1>1
<1>3. AsInt(n) \in Nat
  BY <1>1, <1>2 DEF AsInt
<1>4. AsInt(n) \div PageBytes \in Nat
  BY <1>1, <1>3
<1> QED
  BY <1>4 DEF PagesFor, GetDataPageSize

\* No step frees more pages than were allocated.
LEMMA MemoryStep == Types /\ Pages /\ [Next]_vars => Pages'
<1> SUFFICES ASSUME Types, Pages, [Next]_vars PROVE Pages'
  OBVIOUS
<1>1. machine.pages \in Nat /\ machine' = machine
  BY MachineAssumption
  DEF Types, vars, Next, Loader, Type, OpenKernel, ParseELFHeader, ParseELFPHeader,
      SegmentsDone, SkipSegment, LoadSegment, ParseInitializers, OpenFont,
      ParsePSF2Header, GetFileSize, LoadFont, SelectVideoMode, SetUpFramebuffer,
      EnterKernel, Reset, ReadKeyStroke
<1>2. CASE LoadSegment
  <2>1. pc = "segments" /\ i + 1 \in 1 .. Len(machine.kernel.phs)
    BY <1>2, KernelTypes DEF LoadSegment, Types, At, Loading
  <2>2. Ph.memsz \in Nat
    BY <2>1, KernelTypes DEF Ph, Types, At, Loading
  <2>3. PagesFor(Ph.memsz) \in Nat
    BY <2>2, PagesAreCounted
  <2>4. CASE HeadersIntact /\ PagesFor(Ph.memsz) <= freePages
    <3>1. /\ freePages' = freePages - PagesFor(Ph.memsz)
          /\ image'.pages = PagesFor(Ph.memsz)
      BY <1>2, <2>3, <2>4, <1>1 DEF LoadSegment, AllocatePagesForData, AllocatePages, Pages
    <3> QED
      BY <1>1, <2>3, <2>4, <3>1 DEF Pages
  <2>5. CASE ~ HeadersIntact
    <3>1. PICK numPages \in 1 .. machine.pages + 1 :
            \/ UNCHANGED <<freePages, image>>
            \/ image # NoImage /\ freePages' = freePages + image.pages /\ image' = NoImage
            \/ /\ numPages <= freePages /\ freePages' = freePages - numPages
               /\ \E base \in Bases :
                    image' = [kind |-> "pages", base |-> base, pages |-> numPages,
                              size |-> 0, read |-> 0]
      <4>1. CASE UNCHANGED <<freePages, image>>
        BY <1>1, <4>1
      <4>2. CASE ~ UNCHANGED <<freePages, image>>
        BY <1>2, <2>5, <4>2 DEF LoadSegment, AllocatePages
      <4> QED
        BY <4>1, <4>2
    <3>2. numPages \in Nat
      BY <1>1
    <3>3. CASE numPages <= freePages /\ freePages' = freePages - numPages
               /\ image'.pages = numPages
      BY <1>1, <3>2, <3>3 DEF Pages
    <3> QED
      BY <1>1, <3>1, <3>3 DEF Pages
  <2>6. CASE HeadersIntact /\ ~ (PagesFor(Ph.memsz) <= freePages)
    <3>1. \/ UNCHANGED <<freePages, image>>
          \/ image # NoImage /\ freePages' = freePages + image.pages /\ image' = NoImage
      BY <1>2, <2>3, <2>6 DEF LoadSegment, AllocatePagesForData, AllocatePages
    <3> QED
      BY <1>1, <3>1 DEF Pages
  <2> QED
    BY <2>4, <2>5, <2>6
<1>3. CASE LoadFont
  <2> DEFINE glyphs == machine.font.charSize * machine.font.length
  <2>1. machine.font \in FontFiles
    BY <1>3, MachineAssumption DEF LoadFont, Types, At, ForFont
  <2>2. glyphs \in Nat
    BY <2>1 DEF FontFiles
  <2> HIDE DEF glyphs
  <2>3. PagesFor(glyphs) \in Nat
    BY <2>2, PagesAreCounted
  <2>4. \/ PagesFor(glyphs) <= freePages /\ freePages' = freePages - PagesFor(glyphs)
           /\ image' = image
        \/ UNCHANGED <<freePages, image>>
        \/ image # NoImage /\ freePages' = freePages + image.pages /\ image' = NoImage
    BY <1>3 DEF LoadFont, AllocatePagesForData, AllocatePages, glyphs
  <2> QED
    BY <1>1, <2>3, <2>4 DEF Pages
<1>4. CASE ~ LoadSegment /\ ~ LoadFont
  <2>1. UNCHANGED <<freePages, image>>
    BY <1>4
    DEF vars, Next, Loader, Type, OpenKernel, ParseELFHeader, ParseELFPHeader,
        SegmentsDone, SkipSegment, ParseInitializers, OpenFont, ParsePSF2Header,
        GetFileSize, SelectVideoMode, SetUpFramebuffer, EnterKernel, Reset,
        ReadKeyStroke, files, kernelVars
  <2> QED
    BY <1>1, <2>1 DEF Pages
<1> QED
  BY <1>2, <1>3, <1>4

-----------------------------------------------------------------------------
(* What is open *)

\* What the loader has opened, by the stage it has come to; a stage at which it
\* gives up is none of these.
Opened ==
  /\ opened \subseteq {"image", "sfs", "root", "kernel", "font"}
  /\ At({"open_kernel"}) => opened = {"image"}
  /\ At(Loading \cup {"open_font"}) => opened = {"image", "kernel"}
  /\ At(ForFont \cup (Ending \ {"kernel"})) => opened = {"image", "kernel", "font"}
  /\ pc = "kernel" => opened = {"kernel", "font"}

\* Every step opens and closes what its stage is to.
LEMMA OpenedStep == Prompt /\ Opened /\ [Next]_vars => Opened'
<1> SUFFICES ASSUME Prompt, Opened, [Next]_vars PROVE Opened'
  OBVIOUS
<1> USE DEF Opened, At, Loading, ForFont, Ending, fontVars, kernelVars, videoVars,
            history, files, Goto, WaitForKey, Fault
<1>1. CASE Type
  BY <1>1 DEF Type
<1>2. CASE OpenKernel
  BY <1>2 DEF OpenKernel, LoadRootDirFile
<1>3. CASE ParseELFHeader \/ ParseELFPHeader \/ SegmentsDone
  BY <1>3 DEF ParseELFHeader, ParseELFPHeader, SegmentsDone
<1>4. CASE SkipSegment
  BY <1>4 DEF SkipSegment
<1>5. CASE LoadSegment
  BY <1>5 DEF LoadSegment, AllocatePagesForData, AllocatePages
<1>6. CASE ParseInitializers
  BY <1>6 DEF ParseInitializers
<1>7. CASE OpenFont
  BY <1>7 DEF OpenFont, LoadRootDirFile
<1>8. CASE ParsePSF2Header \/ GetFileSize
  BY <1>8 DEF ParsePSF2Header, GetFileSize
<1>9. CASE LoadFont
  BY <1>9 DEF LoadFont, AllocatePagesForData, AllocatePages
<1>10. CASE SelectVideoMode \/ SetUpFramebuffer
  BY <1>10 DEF SelectVideoMode, SetUpFramebuffer
<1>11. CASE EnterKernel
  BY <1>11 DEF EnterKernel
<1>12. CASE Reset
  BY <1>12 DEF Reset
<1>13. CASE ReadKeyStroke
  BY <1>13 DEF ReadKeyStroke, Prompt, AfterKey
<1>14. CASE UNCHANGED vars
  BY <1>14 DEF vars
<1> QED
  BY <1>1, <1>2, <1>3, <1>4, <1>5, <1>6, <1>7, <1>8, <1>9, <1>10, <1>11, <1>12,
     <1>13, <1>14 DEF Next, Loader

-----------------------------------------------------------------------------
(* The kernel in memory *)

\* The image is that of segment k, and kmain is in it.
Loaded(k) ==
  LET ph == machine.kernel.phs[k]
  IN  /\ ph.load /\ image # NoImage
      /\ image.base \in Bases /\ image.size = ph.filesz
      /\ kmain = TranslateKernelAddress(image.base, machine.kernel.entry, ph.vaddr)
      /\ image.read = image.size \/ "kernel" \in failed

\* The constructors and destructors are those of the image.
Parsed(k) ==
  \/ failed \cap {"section_headers", "pool"} # {}
  \/ globalObjCtorDtor =
       [ctors |-> Addresses("init", machine.kernel.sections,
                            machine.kernel.phs[k], image),
        dtors |-> Addresses("fini", machine.kernel.sections,
                            machine.kernel.phs[k], image)]

NoneLoads(m, n) == \A j \in m .. n : ~ machine.kernel.phs[j].load

\* Some segment is in memory and, if the tables were looked for, the last.
KernelIn ==
  \E k \in 1 .. Len(machine.kernel.phs) :
    /\ Loaded(k)
    /\ machine.kernel.hasSections =>
         Parsed(k) /\ NoneLoads(k + 1, Len(machine.kernel.phs))

\* Of the first i segments none was to be loaded, or the last that was is in
\* memory.
SegmentsSoFar ==
  /\ i <= Len(machine.kernel.phs)
  /\ \/ NoneLoads(1, i)
     \/ \E k \in 1 .. i : /\ machine.kernel.hasSections
                          /\ Loaded(k) /\ Parsed(k) /\ NoneLoads(k + 1, i)

Useful == machine.kernel.elf /\ HeadersIntact

Segments ==
  /\ At({"open_kernel", "elf_header", "program_headers"}) => i = 0
  /\ pc = "segments" /\ Useful => SegmentsSoFar
  /\ pc = "initializers" /\ Useful => i < Len(machine.kernel.phs) /\ Loaded(i + 1)
  /\ At({"open_font"} \cup ForFont \cup Ending) /\ Useful => KernelIn

\* Every kernel that is an ELF file has a segment to load.
SomeSegmentLoads ==
  \A m \in Machines : m.kernel # NoFile /\ m.kernel.elf =>
    \E k \in DOMAIN m.kernel.phs : m.kernel.phs[k].load

\* What is in memory stays there while its variables are left alone.
LEMMA LoadedStays ==
  ASSUME UNCHANGED <<machine, kmain, image, globalObjCtorDtor>>, failed \subseteq failed'
  PROVE  /\ \A k : Loaded(k) => Loaded(k)'
         /\ \A k : Parsed(k) => Parsed(k)'
         /\ \A m, n : NoneLoads(m, n) => NoneLoads(m, n)'
         /\ KernelIn => KernelIn'
         /\ i' = i /\ SegmentsSoFar => SegmentsSoFar'
<1>1. ASSUME NEW k, Loaded(k) PROVE Loaded(k)'
  BY <1>1 DEF Loaded
<1>2. ASSUME NEW k, Parsed(k) PROVE Parsed(k)'
  BY <1>2 DEF Parsed
<1>3. ASSUME NEW m, NEW n, NoneLoads(m, n) PROVE NoneLoads(m, n)'
  BY <1>3 DEF NoneLoads
<1>4. KernelIn => KernelIn'
  BY <1>1, <1>2, <1>3 DEF KernelIn
<1>5. i' = i /\ SegmentsSoFar => SegmentsSoFar'
  BY <1>1, <1>2, <1>3 DEF SegmentsSoFar
<1> QED
  BY <1>1, <1>2, <1>3, <1>4, <1>5

\* The headers are gone over.
LEMMA SkipSegmentStep ==
  ASSUME Types, Segments, SkipSegment
  PROVE  Segments'
<1>1. /\ pc = "segments" /\ pc' = "segments" /\ i' = i + 1
      /\ i < Len(machine.kernel.phs)
      /\ UNCHANGED <<machine, programHeaders, kmain, image, globalObjCtorDtor, failed>>
      /\ HeadersIntact => ~ machine.kernel.phs[i + 1].load
  BY DEF SkipSegment, history, Ph
<1>2. i \in Nat /\ Len(machine.kernel.phs) \in Nat
  BY <1>1, KernelTypes DEF Types, At, Loading
<1> SUFFICES ASSUME Useful' PROVE SegmentsSoFar'
  BY <1>1 DEF Segments, At, Loading, ForFont, Ending
<1>3. HeadersIntact /\ SegmentsSoFar
  BY <1>1 DEF Useful, HeadersIntact, Segments
<1>4. ~ machine.kernel.phs[i + 1].load
  BY <1>1, <1>3
<1>5. \A m \in Nat : NoneLoads(m, i) => NoneLoads(m, i + 1)
  BY <1>2, <1>4 DEF NoneLoads
<1>6. CASE NoneLoads(1, i)
  <2>1. NoneLoads(1, i)'
    BY <1>1, <1>5, <1>6 DEF NoneLoads
  <2> QED
    BY <1>1, <1>2, <2>1 DEF SegmentsSoFar, NoneLoads
<1>7. ASSUME NEW k \in 1 .. i, machine.kernel.hasSections, Loaded(k), Parsed(k),
             NoneLoads(k + 1, i)
      PROVE  SegmentsSoFar'
  <2>1. NoneLoads(k + 1, i + 1) /\ k \in 1 .. i + 1
    BY <1>2, <1>5, <1>7
  <2>2. Loaded(k)' /\ Parsed(k)'
    BY <1>1, <1>7, LoadedStays
  <2>3. NoneLoads(k + 1, i)'
    BY <1>1, <2>1 DEF NoneLoads
  <2>4. i' <= Len(machine'.kernel.phs) /\ k \in 1 .. i' /\ machine'.kernel.hasSections
    BY <1>1, <1>2, <1>7, <2>1
  <2> QED
    BY <2>2, <2>3, <2>4 DEF SegmentsSoFar
<1> QED
  BY <1>3, <1>6, <1>7 DEF SegmentsSoFar

\* A segment comes into memory, with kmain at its place in it.
LEMMA LoadSegmentStep ==
  ASSUME Types, Segments, LoadSegment
  PROVE  Segments'
<1>1. /\ pc = "segments" /\ i < Len(machine.kernel.phs)
      /\ UNCHANGED <<machine, i, programHeaders>>
      /\ pc' \in {"initializers", "fault"} \/ (pc' = "reset" /\ after' = "returned")
  BY DEF LoadSegment, AllocatePagesForData, AllocatePages, Goto, Fault, WaitForKey
<1> SUFFICES ASSUME pc' = "initializers", HeadersIntact
             PROVE  Loaded(i + 1)'
  <2>1. Useful' => HeadersIntact
    BY <1>1 DEF Useful, HeadersIntact
  <2> QED
    BY <1>1, <2>1 DEF Segments, At, Loading, ForFont, Ending
<1>2. Ph.load
  BY DEF LoadSegment
<1>3. PICK base \in Bases, n \in 0 .. Ph.filesz :
        /\ Read("kernel", Ph.filesz, n)
        /\ image' = [kind |-> "pages", base |-> base, pages |-> PagesFor(Ph.memsz),
                     size |-> Ph.filesz, read |-> n]
        /\ kmain' = TranslateKernelAddress(base, machine.kernel.entry, Ph.vaddr)
  BY DEF LoadSegment, AllocatePagesForData, AllocatePages, Goto, WaitForKey
<1>4. n = Ph.filesz \/ "kernel" \in failed'
  BY <1>3 DEF Read
<1>5. /\ image' # NoImage /\ image'.base = base /\ image'.size = Ph.filesz
      /\ image'.read = n
  BY <1>3 DEF NoImage
<1> QED
  BY <1>1, <1>2, <1>3, <1>4, <1>5 DEF Loaded, Ph, NoImage

\* The tables of the kernel's file become addresses in the image.
LEMMA ParseInitializersStep ==
  ASSUME Types, Segments, ParseInitializers
  PROVE  Segments'
<1>1. /\ pc = "initializers" /\ UNCHANGED <<machine, kmain, image>>
      /\ HeadersIntact' => programHeaders' = programHeaders
      /\ failed \subseteq failed'
  BY DEF ParseInitializers, HeadersIntact
<1>2. i \in Nat /\ Len(machine.kernel.phs) \in Nat
  BY <1>1, KernelTypes DEF Types, At, Loading
<1>3. Useful' => /\ HeadersIntact /\ machine.kernel.elf
                 /\ i < Len(machine.kernel.phs) /\ Loaded(i + 1)
  BY <1>1 DEF Useful, HeadersIntact, Segments
<1>4. CASE ~ machine.kernel.hasSections
  <2>1. pc' = "open_font" /\ globalObjCtorDtor' = globalObjCtorDtor
    BY <1>4 DEF ParseInitializers, Goto
  <2>2. Useful' => KernelIn'
    <3> SUFFICES ASSUME Useful' PROVE KernelIn'
      OBVIOUS
    <3>1. i + 1 \in 1 .. Len(machine.kernel.phs) /\ Loaded(i + 1)
      BY <1>2, <1>3
    <3>2. KernelIn
      BY <1>4, <3>1 DEF KernelIn
    <3> QED
      BY <1>1, <2>1, <3>2, LoadedStays
  <2> QED
    BY <2>1, <2>2 DEF Segments, At, Loading
<1>5. CASE machine.kernel.hasSections
  <2>1. pc' \in {"segments", "fault"} /\ i' = i + 1
    BY <1>5 DEF ParseInitializers, Goto, Fault
  <2>2. pc' = "segments" /\ Useful' => SegmentsSoFar'
    <3> SUFFICES ASSUME Useful' PROVE SegmentsSoFar'
      OBVIOUS
    <3>1. i < Len(machine.kernel.phs) /\ Loaded(i + 1)
      BY <1>3
    <3>2. PICK n \in Nat : n = i + 1
      BY <1>2
    <3>3. Loaded(n)'
      BY <1>1, <3>1, <3>2 DEF Loaded
    <3>4. Parsed(n)'
      <4>1. \/ globalObjCtorDtor' =
                 [ctors |-> Addresses("init", machine.kernel.sections, Ph, image),
                  dtors |-> Addresses("fini", machine.kernel.sections, Ph, image)]
            \/ failed' \cap {"section_headers", "pool"} # {}
        BY <1>5 DEF ParseInitializers, Tables, Useful
      <4>2. Ph = machine.kernel.phs[n]
        BY <3>2 DEF Ph
      <4> QED
        BY <1>1, <4>1, <4>2 DEF Parsed
    <3>5. n \in 1 .. i' /\ i' <= Len(machine'.kernel.phs)
          /\ machine'.kernel.hasSections
      BY <1>1, <1>2, <1>5, <2>1, <3>1, <3>2
    <3>6. NoneLoads(n + 1, i)'
      BY <1>2, <2>1, <3>2 DEF NoneLoads
    <3> QED
      BY <3>3, <3>4, <3>5, <3>6 DEF SegmentsSoFar
  <2> QED
    BY <2>1, <2>2 DEF Segments, At, Loading, ForFont, Ending
<1> QED
  BY <1>4, <1>5

\* After the last header a segment was loaded.
LEMMA SegmentsDoneStep ==
  ASSUME SomeSegmentLoads, Types, Segments, SegmentsDone
  PROVE  Segments'
<1>1. /\ pc = "segments" /\ pc' = "open_font" /\ i = Len(machine.kernel.phs)
      /\ UNCHANGED <<machine, i, programHeaders, kmain, image, globalObjCtorDtor,
                     failed>>
  BY DEF SegmentsDone, Goto, kernelVars, history
<1>2. /\ machine \in Machines /\ machine.kernel # NoFile
      /\ DOMAIN machine.kernel.phs = 1 .. Len(machine.kernel.phs)
  BY <1>1, KernelTypes DEF Types, At, Loading
<1>3. ASSUME Useful' PROVE KernelIn'
  <2>1. SegmentsSoFar /\ machine.kernel.elf
    BY <1>1, <1>3 DEF Segments, Useful, HeadersIntact
  <2>2. ~ NoneLoads(1, i)
    BY <1>1, <1>2, <2>1 DEF SomeSegmentLoads, NoneLoads
  <2>3. KernelIn
    BY <1>1, <2>1, <2>2 DEF SegmentsSoFar, KernelIn
  <2> QED
    BY <1>1, <2>3, LoadedStays
<1> QED
  BY <1>1, <1>3 DEF Segments, At, Loading

\* The stages before and after the loop over the program headers follow each
\* other, with prompts between them.
LEMMA OrderOfStages ==
  ASSUME Prompt, [Next]_vars,
         ~ SkipSegment, ~ LoadSegment, ~ ParseInitializers, ~ SegmentsDone,
         ~ ParseELFPHeader, ~ (LoadFont /\ pc' # "video_mode")
  PROVE  /\ pc' = "segments" => pc = "segments"
         /\ pc' = "initializers" => pc = "initializers"
         /\ At({"open_kernel", "elf_header", "program_headers"})'
              => At({"open_kernel", "elf_header", "program_headers"})
         /\ At({"open_font"} \cup ForFont \cup Ending)'
              => At({"open_font"} \cup ForFont \cup Ending)
<1> USE DEF At, ForFont, Ending
<1>1. CASE Type \/ UNCHANGED vars
  BY <1>1 DEF Type, vars
<1>2. CASE OpenKernel
  BY <1>2 DEF OpenKernel, LoadRootDirFile, WaitForKey, Goto, Fault
<1>3. CASE ParseELFHeader
  BY <1>3 DEF ParseELFHeader, WaitForKey, Goto
<1>4. CASE OpenFont
  BY <1>4 DEF OpenFont, LoadRootDirFile, Goto, Fault
<1>5. CASE ParsePSF2Header \/ GetFileSize
  BY <1>5 DEF ParsePSF2Header, GetFileSize, WaitForKey, Goto
<1>6. CASE LoadFont
  <2>1. pc = "font_data" /\ pc' = "video_mode"
    BY <1>6 DEF LoadFont
  <2> QED
    BY <2>1
<1>7. CASE SelectVideoMode
  BY <1>7 DEF SelectVideoMode, WaitForKey, Goto, Fault
<1>8. CASE SetUpFramebuffer \/ EnterKernel
  BY <1>8 DEF SetUpFramebuffer, EnterKernel, Goto
<1>9. CASE Reset \/ ReadKeyStroke
  BY <1>9 DEF Reset, ReadKeyStroke, Goto, Prompt, AfterKey
<1> QED
  BY <1>1, <1>2, <1>3, <1>4, <1>5, <1>6, <1>7, <1>8, <1>9 DEF Next, Loader

\* What comes before and after leaves the kernel alone, unless it gives up.
LEMMA SegmentsStep ==
  ASSUME SomeSegmentLoads
  PROVE  Prompt /\ Types /\ Segments /\ [Next]_vars => Segments'
<1> SUFFICES ASSUME Prompt, Types, Segments, [Next]_vars PROVE Segments'
  OBVIOUS
<1>1. CASE SkipSegment
  BY <1>1, SkipSegmentStep
<1>2. CASE LoadSegment
  BY <1>2, LoadSegmentStep
<1>3. CASE ParseInitializers
  BY <1>3, ParseInitializersStep
<1>4. CASE SegmentsDone
  BY <1>4, SegmentsDoneStep
<1>5. CASE ParseELFPHeader
  <2>1. /\ pc = "program_headers" /\ pc' = "segments" /\ i' = i
        /\ machine' = machine
    BY <1>5 DEF ParseELFPHeader, Goto
  <2>2. i = 0 /\ Len(machine.kernel.phs) \in Nat
    BY <2>1, KernelTypes DEF Types, Segments, At, Loading
  <2>3. SegmentsSoFar'
    BY <2>1, <2>2 DEF SegmentsSoFar, NoneLoads
  <2> QED
    BY <2>1, <2>3 DEF Segments, At, Loading, ForFont, Ending
<1>6. CASE LoadFont /\ pc' # "video_mode"
  <2>1. pc' = "reset" /\ after' = "returned"
    BY <1>6 DEF LoadFont, AllocatePagesForData, AllocatePages, Goto, WaitForKey
  <2> QED
    BY <2>1 DEF Segments, At, ForFont, Ending
<1>7. CASE /\ ~ SkipSegment /\ ~ LoadSegment /\ ~ ParseInitializers
           /\ ~ SegmentsDone /\ ~ ParseELFPHeader /\ ~ (LoadFont /\ pc' # "video_mode")
  <2>1. /\ UNCHANGED <<machine, i, programHeaders, kmain, image, globalObjCtorDtor>>
        /\ failed \subseteq failed'
    BY <1>7
    DEF vars, Next, Loader, Type, OpenKernel, ParseELFHeader, OpenFont, ParsePSF2Header,
        GetFileSize, LoadFont, SelectVideoMode, SetUpFramebuffer, SetMode, EnterKernel,
        Reset, ReadKeyStroke, files, kernelVars, history, AllocatePagesForData, AllocatePages, Read,
        Goto, WaitForKey
  <2>2. Useful' <=> Useful
    BY <2>1 DEF Useful, HeadersIntact
  <2>3. /\ KernelIn => KernelIn'
        /\ SegmentsSoFar => SegmentsSoFar'
        /\ Loaded(i + 1) => Loaded(i + 1)'
    BY <2>1, LoadedStays
  <2>4. /\ pc' = "segments" => pc = "segments"
        /\ pc' = "initializers" => pc = "initializers"
        /\ At({"open_kernel", "elf_header", "program_headers"})'
             => At({"open_kernel", "elf_header", "program_headers"})
        /\ At({"open_font"} \cup ForFont \cup Ending)'
             => At({"open_font"} \cup ForFont \cup Ending)
    BY <1>7, OrderOfStages
  <2> QED
    BY <2>1, <2>2, <2>3, <2>4 DEF Segments
<1> QED
  BY <1>1, <1>2, <1>3, <1>4, <1>5, <1>6, <1>7

-----------------------------------------------------------------------------
(* The font, the display and boot services *)

\* All glyphs were read, or it is known why not.
GlyphsRead ==
  \/ fontData.read >= machine.font.charSize * machine.font.length
  \/ failed \cap {"info", "font"} # {}
  \/ machine.font.size < machine.font.headerSize
                           + machine.font.charSize * machine.font.length

Provided ==
  /\ pc = "font_data" => psf2fileSize = machine.font.size \/ "info" \in failed
  /\ At(Ending) => GlyphsRead
  /\ pc \in {"exit_boot", "kernel"} =>
       framebuffer = machine.modes[videoMode + 1] \/ "setmode" \in failed
  /\ pc = "kernel" /\ services => "exit" \in failed

\* The read of the font brings all glyphs that its file has.
LEMMA LoadFontStep ==
  ASSUME Types, Provided, LoadFont
  PROVE  Provided'
<1> DEFINE glyphs == machine.font.charSize * machine.font.length
           rest == IF machine.font.headerSize > machine.font.size THEN 0
                   ELSE machine.font.size - machine.font.headerSize
           bytes == IF psf2fileSize < rest THEN psf2fileSize ELSE rest
<1>1. /\ pc = "font_data" /\ machine' = machine
      /\ pc' = "video_mode" \/ (pc' = "reset" /\ after' = "returned")
  BY DEF LoadFont, AllocatePagesForData, AllocatePages, Goto, WaitForKey
<1>2. machine.font \in FontFiles
  BY <1>1, MachineAssumption DEF Types, At, ForFont
<1>3. /\ machine.font.size \in Nat /\ machine.font.headerSize \in Nat
      /\ machine.font.charSize \in Nat /\ machine.font.length \in Nat
  BY <1>2 DEF FontFiles
<1> SUFFICES ASSUME pc' = "video_mode" PROVE GlyphsRead'
  BY <1>1 DEF Provided, At, Ending
<1>4. PICK n \in 0 .. bytes : /\ Read("font", bytes, n)
                              /\ fontData'.read = n
  BY DEF LoadFont, AllocatePagesForData, AllocatePages, Goto, WaitForKey
<1>5. failed \subseteq failed' /\ (n = bytes \/ "font" \in failed')
  BY <1>4 DEF Read
<1> SUFFICES ASSUME n = bytes, "info" \notin failed',
                    ~ (machine.font.size < machine.font.headerSize + glyphs)
             PROVE  n >= glyphs
  BY <1>1, <1>4, <1>5 DEF GlyphsRead
<1>6. psf2fileSize = machine.font.size
  BY <1>1, <1>5 DEF Provided
<1>7. glyphs \in Nat
  BY <1>3
<1> HIDE DEF glyphs
<1>8. rest >= glyphs /\ rest \in Nat /\ rest <= machine.font.size
  BY <1>3, <1>7
<1> QED
  BY <1>3, <1>6, <1>7, <1>8

\* Every step provides its part of the handoff or records the failed call.
LEMMA ProvidedStep == Prompt /\ Types /\ Provided /\ [Next]_vars => Provided'
<1> SUFFICES ASSUME Prompt, Types, Provided, [Next]_vars PROVE Provided'
  OBVIOUS
<1>1. CASE LoadFont
  BY <1>1, LoadFontStep
<1>2. CASE GetFileSize
  BY <1>2 DEF GetFileSize, Goto, Provided, At, Ending
<1>3. CASE SetUpFramebuffer
  <2>1. /\ pc = "framebuffer" /\ pc' = "exit_boot"
        /\ gopMode' = videoMode \/ "setmode" \in failed'
        /\ failed \subseteq failed'
        /\ framebuffer' = machine.modes[gopMode' + 1]
        /\ UNCHANGED <<machine, videoMode, fontData>>
    BY <1>3 DEF SetUpFramebuffer, SetMode, Goto, fontVars
  <2>2. GlyphsRead'
    BY <2>1 DEF Provided, GlyphsRead, At, Ending
  <2>3. framebuffer' = machine.modes[videoMode + 1] \/ "setmode" \in failed'
    BY <2>1
  <2> QED
    BY <2>1, <2>2, <2>3 DEF Provided
<1>4. CASE EnterKernel
  <2>1. /\ pc = "exit_boot" /\ pc' = "kernel" /\ failed \subseteq failed'
        /\ services' = FALSE \/ "exit" \in failed'
        /\ UNCHANGED <<machine, videoMode, fontData, framebuffer>>
    BY <1>4 DEF EnterKernel, Goto, fontVars, videoVars
  <2>2. GlyphsRead'
    BY <2>1 DEF Provided, GlyphsRead, At, Ending
  <2> QED
    BY <2>1, <2>2 DEF Provided
<1>5. CASE Next /\ ~ LoadFont /\ ~ GetFileSize /\ ~ SetUpFramebuffer /\ ~ EnterKernel
  <2>1. UNCHANGED <<machine, psf2fileSize, fontData, framebuffer, services>>
        /\ failed \subseteq failed'
    BY <1>5
    DEF Next, Loader, Type, OpenKernel, ParseELFHeader, ParseELFPHeader,
        SegmentsDone, SkipSegment, LoadSegment, ParseInitializers, OpenFont,
        ParsePSF2Header, SelectVideoMode, Reset, ReadKeyStroke, fontVars, videoVars,
        history, AllocatePagesForData, AllocatePages, Read, Goto, WaitForKey
  <2>2. /\ pc' = "font_data" => pc = "font_data"
        /\ pc' \in {"exit_boot", "kernel"} => pc' = pc /\ videoMode' = videoMode
        /\ At(Ending)' => At(Ending)
    BY <1>5
    DEF Next, Loader, Type, OpenKernel, ParseELFHeader, ParseELFPHeader,
        SegmentsDone, SkipSegment, LoadSegment, ParseInitializers, OpenFont,
        ParsePSF2Header, SelectVideoMode, Reset, ReadKeyStroke, LoadRootDirFile,
        AllocatePagesForData, AllocatePages, Goto, WaitForKey, Fault, videoVars, At, Ending,
        Prompt, AfterKey
  <2>3. GlyphsRead => GlyphsRead'
    BY <2>1 DEF GlyphsRead
  <2> QED
    BY <2>1, <2>2, <2>3 DEF Provided
<1>6. CASE UNCHANGED vars
  BY <1>6 DEF vars, fontVars, videoVars, history, Provided, GlyphsRead, At, Ending
<1> QED
  BY <1>1, <1>2, <1>3, <1>4, <1>5, <1>6

-----------------------------------------------------------------------------
(* The theorems about the files in memory and the handoff *)

LoaderInv == Prompt /\ Types /\ Pages /\ Opened /\ Provided

\* The invariants at the start.
LEMMA InitLoader == Init => LoaderInv /\ Segments
<1> SUFFICES ASSUME Init PROVE LoaderInv /\ Segments
  OBVIOUS
<1>1. Prompt
  BY DEF Init, Prompt, AfterKey
<1>2. Types
  <2>1. machine \in Machines /\ machine.modes \in Displays \ {<<>>}
    BY ModeExists DEF Init
  <2>2. Len(machine.modes) \in Nat \ {0}
    BY <2>1 DEF Displays
  <2>3. videoMode \in -1 .. Len(machine.modes) - 1
    BY <2>2 DEF Init
  <2>4. /\ pc = "open_kernel" /\ i = 0 /\ psf2fileSize = 0 /\ overrun = FALSE
        /\ services = TRUE /\ failed = {}
        /\ gopMode \in 0 .. Len(machine.modes) - 1
    BY DEF Init
  <2> QED
    BY <2>1, <2>3, <2>4 DEF Types, Stages, At, Loading, ForFont, Ending
<1>3. Pages
  BY MachineAssumption DEF Init, Pages
<1>4. Opened /\ Provided /\ Segments
  BY DEF Init, Opened, Provided, Segments, At, Loading, ForFont, Ending
<1> QED
  BY <1>1, <1>2, <1>3, <1>4 DEF LoaderInv

\* They hold of every behaviour, whatever the files are.
LEMMA LoaderAlways == Spec => []LoaderInv
<1>1. LoaderInv /\ [Next]_vars => LoaderInv'
  BY PromptStep, TypesStep, MemoryStep, OpenedStep, ProvidedStep DEF LoaderInv
<1> QED
  BY <1>1, InitLoader, PTL DEF Spec

\* If every ELF file has a segment to load, so does what the segments become.
LEMMA SegmentsAlways ==
  ASSUME SomeSegmentLoads
  PROVE  Spec => []Segments
<1>1. LoaderInv /\ Segments /\ [Next]_vars => Segments'
  BY SegmentsStep DEF LoaderInv
<1> QED
  BY <1>1, InitLoader, LoaderAlways, PTL DEF Spec

\* The types of the loader's variables: among them that the pages it has are
\* never more than the machine's, and that a mode it sets exists.
THEOREM TypesHold == Spec => []TypeOK
<1>1. LoaderInv => TypeOK
  BY DEF LoaderInv, Types, Pages, Opened, Prompt, AfterKey, Stages, TypeOK
<1> QED
  BY <1>1, LoaderAlways, PTL

\* What the loader relies on for a kernel that is linked as one segment to load
\* (its TODO about several says that there is none yet): each segment that is
\* loaded has the entry point and the addresses in the tables of initializers
\* within its bytes, starts the file and has these tables in it if there are
\* some, and fits in the addresses behind each base.
InSegment(address, ph) == address \in ph.vaddr .. ph.vaddr + ph.filesz - 1

KernelIsLinked ==
  \A m \in Machines : m.kernel # NoFile /\ m.kernel.elf =>
    \A k \in DOMAIN m.kernel.phs : m.kernel.phs[k].load =>
      /\ \A base \in Bases : base + m.kernel.phs[k].filesz <= UintnRange
      /\ InSegment(m.kernel.entry, m.kernel.phs[k])
      /\ m.kernel.hasSections =>
           /\ m.kernel.phs[k].offset = 0
           /\ \A s \in DOMAIN m.kernel.sections :
                m.kernel.sections[s].type \in {"init", "fini"} =>
                  /\ m.kernel.sections[s].offset
                       + AddressBytes * Len(m.kernel.sections[s].table)
                         <= m.kernel.phs[k].filesz
                  /\ \A n \in DOMAIN m.kernel.sections[s].table :
                       InSegment(m.kernel.sections[s].table[n], m.kernel.phs[k])

\* An address of the file is as far into the image as it is into the segment.
LEMMA Translated ==
  ASSUME NEW base \in Bases, NEW address \in Nat, NEW vaddr \in Nat, NEW size \in Nat,
         base + size <= UintnRange, address \in vaddr .. vaddr + size - 1
  PROVE  /\ TranslateKernelAddress(base, address, vaddr) = base + (address - vaddr)
         /\ TranslateKernelAddress(base, address, vaddr) \in base .. base + size - 1
<1>1. base \in Nat /\ UintnRange \in Nat
  BY MachineAssumption
<1> DEFINE to == base + address - vaddr
<1>2. to = base + (address - vaddr) /\ to \in Nat /\ to < UintnRange
      /\ to \in base .. base + size - 1
  BY <1>1
<1>3. to % UintnRange = to
  <2> HIDE DEF to
  <2> QED
    BY <1>1, <1>2
<1> QED
  BY <1>2, <1>3 DEF TranslateKernelAddress

\* The section headers of a kind, and what their last table becomes.
TablesOf(kind) ==
  {n \in DOMAIN machine.kernel.sections : machine.kernel.sections[n].type = kind}

AddressesIn(kind, k) ==
  Addresses(kind, machine.kernel.sections, machine.kernel.phs[k], image)

\* A product with a smaller factor is smaller.
LEMMA TimesLess ==
  ASSUME NEW a \in Nat, NEW m \in Nat, NEW n \in 0 .. m
  PROVE  a * n <= a * m
<1>1. m - n \in Nat /\ a * m = a * n + a * (m - n)
  OBVIOUS
<1>2. a * (m - n) \in Nat /\ a * n \in Nat
  BY <1>1
<1> QED
  BY <1>1, <1>2

\* If the image was read, the addresses of a table are the table's, moved to it.
LEMMA AddressesOf ==
  ASSUME KernelIsLinked, machine \in Machines, machine.kernel # NoFile,
         machine.kernel.elf, machine.kernel.hasSections,
         NEW k \in 1 .. Len(machine.kernel.phs), machine.kernel.phs[k].load,
         image.base \in Bases, image.read = machine.kernel.phs[k].filesz,
         NEW kind \in {"init", "fini"}
  PROVE  /\ TablesOf(kind) = {} => AddressesIn(kind, k) = <<>>
         /\ TablesOf(kind) # {} =>
              LET table == machine.kernel.sections[Max(TablesOf(kind))].table
              IN  /\ Max(TablesOf(kind)) \in TablesOf(kind)
                  /\ table \in Seq(Nat)
                  /\ DOMAIN AddressesIn(kind, k) = DOMAIN table
                  /\ \A n \in DOMAIN table :
                       AddressesIn(kind, k)[n]
                         = image.base + (table[n] - machine.kernel.phs[k].vaddr)
         /\ \A n \in DOMAIN AddressesIn(kind, k) :
              AddressesIn(kind, k)[n]
                \in image.base .. image.base + machine.kernel.phs[k].filesz - 1
<1> DEFINE tables == TablesOf(kind)
           addresses == AddressesIn(kind, k)
           last == Max(tables)
           table == machine.kernel.sections[last].table
           offset == machine.kernel.sections[last].offset
           ph == machine.kernel.phs[k]
           base == image.base
<1>1. tables = {} => addresses = <<>>
  BY DEF Addresses, TablesOf, AddressesIn
<1>2. ASSUME tables # {}
      PROVE  /\ last \in tables /\ table \in Seq(Nat)
             /\ DOMAIN addresses = DOMAIN table
             /\ \A n \in DOMAIN table :
                  /\ addresses[n] = base + (table[n] - ph.vaddr)
                  /\ addresses[n] \in base .. base + ph.filesz - 1
  <2>1. last \in tables
    <3>1. tables \in SUBSET (1 .. Len(machine.kernel.sections))
          /\ Len(machine.kernel.sections) \in Nat
      BY KernelTypes DEF TablesOf
    <3> QED
      BY <1>2, <3>1, MaxIsIn
  <2>2. last \in DOMAIN machine.kernel.sections /\ machine.kernel.sections[last].type = kind
    BY <2>1 DEF TablesOf
  <2>3. table \in Seq(Nat)
    BY <2>2, KernelTypes
  <2>4. ph \in [load : BOOLEAN, offset : Nat, vaddr : Nat, filesz : Nat, memsz : Nat]
    BY KernelTypes
  <2>5. /\ base + ph.filesz <= UintnRange /\ ph.offset = 0
        /\ offset \in Nat /\ offset + AddressBytes * Len(table) <= ph.filesz
        /\ \A n \in DOMAIN table : InSegment(table[n], ph)
    BY <2>2, KernelTypes DEF KernelIsLinked
  <2>6. addresses = [n \in DOMAIN table |->
                      IF ph.offset = 0 /\ offset + AddressBytes * n <= ph.filesz
                      THEN TranslateKernelAddress(base, table[n], ph.vaddr)
                      ELSE Uninitialised]
    BY <1>2 DEF Addresses, TablesOf, AddressesIn
  <2> HIDE DEF last, table, offset, ph, base, addresses, tables
  <2>7. ASSUME NEW n \in DOMAIN table
        PROVE  /\ addresses[n] = base + (table[n] - ph.vaddr)
               /\ addresses[n] \in base .. base + ph.filesz - 1
    <3>2. table[n] \in Nat
      BY <2>3, <2>7
    <3>3. ph.vaddr \in Nat /\ ph.filesz \in Nat
      BY <2>4
    <3>4. offset + AddressBytes * n <= ph.filesz
      <4>1. /\ AddressBytes \in Nat /\ Len(table) \in Nat
            /\ n \in 0 .. Len(table)
        BY <2>3, <2>7, MachineAssumption
      <4>2. AddressBytes * n <= AddressBytes * Len(table)
        BY <4>1, TimesLess
      <4>3. AddressBytes * n \in Nat /\ AddressBytes * Len(table) \in Nat
        BY <4>1
      <4> QED
        BY <2>5, <3>3, <4>2, <4>3
    <3>1. addresses[n] = TranslateKernelAddress(base, table[n], ph.vaddr)
      BY <2>5, <2>6, <2>7, <3>4
    <3>5. base \in Bases
      BY DEF base
    <3> QED
      BY <2>5, <2>7, <3>1, <3>2, <3>3, <3>5, Translated DEF InSegment
  <2>8. DOMAIN addresses = DOMAIN table
    BY <2>6
  <2> QED
    BY <2>1, <2>3, <2>7, <2>8
<1>3. \A n \in DOMAIN addresses : addresses[n] \in base .. base + ph.filesz - 1
  <2>1. CASE tables = {}
    <3>1. DOMAIN addresses = {}
      BY <1>1, <2>1
    <3> QED
      BY <3>1
  <2>2. CASE tables # {}
    <3> HIDE DEF addresses, tables, table, ph, base
    <3> QED
      BY <1>2, <2>2
  <2> QED
    BY <2>1, <2>2
<1> QED
  BY <1>1, <1>2, <1>3, Zenon

\* Wherever the firmware puts the image, and whatever fails but the read of the
\* program headers: a kernel that is entered is in memory, and its entry point is
\* an address in it.  So are its constructors and its destructors, unless a read
\* of what they are taken from failed.
THEOREM KernelIsLoaded ==
  ASSUME SomeSegmentLoads, KernelIsLinked
  PROVE  Spec => []KernelLoaded
<1>1. ASSUME LoaderInv, Segments PROVE KernelLoaded
  <2> SUFFICES ASSUME pc = "kernel", machine.kernel.elf, HeadersIntact
               PROVE  /\ image # NoImage
                      /\ kmain \in ImageBytes
                      /\ machine.kernel.hasSections
                           /\ failed \cap {"kernel", "section_headers", "pool"} = {} =>
                           ToSet(globalObjCtorDtor.ctors) \cup ToSet(globalObjCtorDtor.dtors)
                             \subseteq ImageBytes
    BY DEF KernelLoaded
  <2>1. machine \in Machines /\ machine.kernel # NoFile
    BY <1>1 DEF LoaderInv, Types, At, Ending
  <2>2. PICK k \in 1 .. Len(machine.kernel.phs) :
          /\ Loaded(k)
          /\ machine.kernel.hasSections =>
               Parsed(k) /\ NoneLoads(k + 1, Len(machine.kernel.phs))
    BY <1>1 DEF Segments, KernelIn, Useful, At, Ending
  <2>3. /\ machine.kernel.phs[k].load /\ image # NoImage
        /\ image.base \in Bases /\ image.size = machine.kernel.phs[k].filesz
        /\ kmain = TranslateKernelAddress(image.base, machine.kernel.entry,
                                          machine.kernel.phs[k].vaddr)
        /\ image.read = machine.kernel.phs[k].filesz \/ "kernel" \in failed
    BY <2>2 DEF Loaded
  <2>4. kmain \in ImageBytes
    <3>1. /\ machine.kernel.phs[k].vaddr \in Nat /\ machine.kernel.phs[k].filesz \in Nat
          /\ machine.kernel.entry \in Nat
      BY <2>1, KernelTypes
    <3>2. /\ image.base + machine.kernel.phs[k].filesz <= UintnRange
          /\ InSegment(machine.kernel.entry, machine.kernel.phs[k])
      BY <2>1, <2>3, KernelTypes DEF KernelIsLinked
    <3> QED
      BY <2>3, <3>1, <3>2, Translated DEF InSegment, ImageBytes
  <2>5. ASSUME machine.kernel.hasSections, "kernel" \notin failed,
               NEW kind \in {"init", "fini"}
        PROVE  ToSet(AddressesIn(kind, k)) \subseteq ImageBytes
    <3>1. \A n \in DOMAIN AddressesIn(kind, k) :
            AddressesIn(kind, k)[n]
              \in image.base .. image.base + machine.kernel.phs[k].filesz - 1
      BY <2>1, <2>3, <2>5, AddressesOf
    <3> QED
      BY <2>3, <3>1 DEF ToSet, ImageBytes
  <2>6. ASSUME machine.kernel.hasSections,
               failed \cap {"kernel", "section_headers", "pool"} = {}
        PROVE  ToSet(globalObjCtorDtor.ctors) \cup ToSet(globalObjCtorDtor.dtors)
                 \subseteq ImageBytes
    BY <2>2, <2>5, <2>6 DEF Parsed, AddressesIn
  <2> QED
    BY <2>3, <2>4, <2>6
<1> QED
  BY <1>1, LoaderAlways, SegmentsAlways, PTL

\* A value left on the stack is not what the loader has put together itself.
UninitialisedIsNoRecord == \A c, d : Uninitialised # [ctors |-> c, dtors |-> d]

\* What kmain is called with is incomplete only if the call that was to provide
\* it failed or the files did not have it.
THEOREM HandoffIsComplete ==
  ASSUME SomeSegmentLoads, UninitialisedIsNoRecord
  PROVE  Spec => []HandoffComplete
<1>1. ASSUME LoaderInv, Segments PROVE HandoffComplete
  <2> SUFFICES ASSUME pc = "kernel", machine.kernel.elf, ~ PointersMet
               PROVE  /\ \/ image # NoImage /\ (image.read = image.size \/ "kernel" \in failed)
                         \/ "program_headers" \in failed
                      /\ GlyphsRead
                      /\ framebuffer = machine.modes[videoMode + 1] \/ "setmode" \in failed
                      /\ \/ globalObjCtorDtor # Uninitialised
                         \/ failed \cap {"program_headers", "section_headers", "pool"} # {}
                         \/ ~ machine.kernel.hasSections
                      /\ services => "exit" \in failed
                      /\ opened = {"kernel", "font"}
    BY DEF HandoffComplete, GlyphsRead
  <2>1. ASSUME HeadersIntact
        PROVE  /\ image # NoImage /\ (image.read = image.size \/ "kernel" \in failed)
               /\ \/ globalObjCtorDtor # Uninitialised
                  \/ failed \cap {"section_headers", "pool"} # {}
                  \/ ~ machine.kernel.hasSections
    <3>1. PICK k \in 1 .. Len(machine.kernel.phs) :
            Loaded(k) /\ (machine.kernel.hasSections => Parsed(k))
      BY <1>1, <2>1 DEF Segments, KernelIn, Useful, At, Ending
    <3> QED
      BY <3>1 DEF Loaded, Parsed, UninitialisedIsNoRecord
  <2>2. ~ HeadersIntact => "program_headers" \in failed
    BY DEF PointersMet
  <2> QED
    BY <1>1, <2>1, <2>2 DEF LoaderInv, Provided, Opened, At, Ending
<1> QED
  BY <1>1, LoaderAlways, SegmentsAlways, PTL

=============================================================================
