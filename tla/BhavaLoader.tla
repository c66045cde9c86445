---------------------------- MODULE BhavaLoader ----------------------------
(***************************************************************************)
(* The UEFI loader, efi_main and the functions it calls: it loads the      *)
(* kernel and the font from the root directory of the boot volume, selects *)
(* a video mode, waits for a key, leaves boot services and calls kmain.    *)
(* The loader is one thread; beside it there is the user at the keyboard   *)
(* and a firmware whose calls may fail.                                    *)
(*                                                                         *)
(* The files are records of what the loader reads from them.  A pointer    *)
(* the code uses uninitialised holds any value that is left on the stack.  *)
(***************************************************************************)
EXTENDS Integers, Sequences, FiniteSets, SequencesExt

CONSTANTS
  Machines,              \* boot volumes, displays, memory; MachineAssumption
  Bases,                 \* addresses AllocatePages may return
  PageBytes,             \* 4096
  AddressBytes,          \* sizeof(void*), 8
  IntRange,              \* 2^32, the values of an int
  UintnRange,            \* 2^64, the values of UINTN and of an address
  Uninitialised,         \* a value left on the stack
  CustomResolution,      \* what the build asks for, or AnyResolution
  AnyResolution,         \* CUSTOM_RESOLUTION is not defined
  Wild,                  \* where the two uninitialised pointers may point
  Parts,                 \* how many bytes a Read that fails may have stored
  MayFail                \* calls of the firmware that may fail

NoFile == [kind |-> "none"]
NoImage == [kind |-> "none"]

KernelFiles == [kind : {"kernel"}, elf : BOOLEAN,
                phs : Seq([load : BOOLEAN, offset : Nat, vaddr : Nat,
                           filesz : Nat, memsz : Nat]),
                hasSections : BOOLEAN,
                sections : Seq([type : {"init", "fini", "other"},
                                offset : Nat, table : Seq(Nat)]),
                entry : Nat]

\* length * charSize bytes of glyphs follow the header; a file may have more.
FontFiles == [kind : {"font"}, magic : BOOLEAN, headerSize : Nat,
              charSize : Nat, length : Nat, size : Nat]

Displays == Seq([horz : Nat, vert : Nat])

ASSUME MachineAssumption ==
  /\ \A m \in Machines :
       /\ m.kernel \in KernelFiles \cup {NoFile}
       /\ m.font \in FontFiles \cup {NoFile}
       /\ m.modes \in Displays \ {<<>>}
       /\ m.pages \in Nat
  /\ PageBytes \in Nat \ {0} /\ AddressBytes \in Nat
  /\ IntRange \in Nat \ {0} /\ UintnRange \in Nat /\ IntRange <= UintnRange
  /\ Bases \subseteq Nat
  /\ MayFail \subseteq {"sfs", "volume", "read", "pool", "info", "gop", "setmode",
                    "exit"}

VARIABLES
  machine,               \* the files and the modes of the display
  pc, after,             \* the next step, and the one after a WaitForKey
  keyboard,              \* "none", or a key typed "before" or "since" Reset
  opened,                \* protocols and file handles that are open
  freePages, services, gopMode,
  \* Locals of efi_main
  i, programHeaders, kmain, image, globalObjCtorDtor,
  psf2fileSize, fontData, videoMode, framebuffer,
  overrun,               \* history: a Read wrote past its pages
  failed                 \* history: calls that failed and were not looked at

files == <<opened, freePages>>
kernelVars == <<i, programHeaders, kmain, image, globalObjCtorDtor>>
fontVars == <<psf2fileSize, fontData>>
videoVars == <<gopMode, videoMode, framebuffer>>
history == <<overrun, failed>>
vars == <<machine, pc, after, keyboard, files, services, kernelVars, fontVars,
          videoVars, history>>

-----------------------------------------------------------------------------
(* Functions of the loader *)

\* WaitForKey, then go on at next.
WaitForKey(next) == pc' = "reset" /\ after' = next

Goto(next) == pc' = next /\ UNCHANGED after

\* A null pointer is followed; there is no way on.
Fault == Goto("fault")

\* Mutant: the last, partly filled page is forgotten.
GetDataPageSizeFloor(dataSize) == dataSize \div PageBytes

\* Both branches of GetDataPageSize.
GetDataPageSize(dataSize) == dataSize \div PageBytes + 1

\* The int parameter of AllocatePagesForData, and its way back to UINTN.
AsInt(n) ==
  LET low == n % IntRange
  IN  IF 2 * low < IntRange THEN low ELSE UintnRange - (IntRange - low)

PagesFor(dataSize) == GetDataPageSize(AsInt(dataSize))

\* Mutant: the address the file was linked at is not subtracted.
TranslateFromZero(kernelAddr, untranslatedAddr, vaddr) ==
  (kernelAddr + untranslatedAddr) % UintnRange

TranslateKernelAddress(kernelAddr, untranslatedAddr, vaddr) ==
  (kernelAddr + untranslatedAddr - vaddr) % UintnRange

\* Read stores n bytes: all that were asked for and are there, or a part of them
\* when it fails, and its status is ignored.  The ELF and PSF2 headers are
\* read into zeroes: one that cannot be read is that of a file which is no ELF
\* or PSF2 file and has no tables.
Read(what, all, n) ==
  \/ n = all /\ UNCHANGED failed
  \/ /\ "read" \in MayFail /\ n \in Parts
     /\ failed' = failed \cup {what}

\* LoadRootDirFile.  Unless everything succeeds it leaves open what it opened;
\* the root is used without a look at the status of OpenVolume.
LoadRootDirFile(file, handle, found, notFound) ==
  \/ /\ "sfs" \in MayFail
     /\ notFound /\ UNCHANGED opened
  \/ /\ "volume" \in MayFail
     /\ Fault /\ opened' = opened \cup {"sfs"}
  \/ /\ file = NoFile
     /\ notFound /\ opened' = opened \cup {"sfs", "root"}
  \/ /\ file # NoFile
     /\ found /\ opened' = (opened \ {"sfs", "root"}) \cup {handle}

\* AllocatePages, with the FreePages of an uninitialised address when there are
\* not enough: the slot may still hold the kernel's address.
AllocatePages(numPages, done, noPages) ==
  \/ /\ numPages <= freePages
     /\ freePages' = freePages - numPages
     /\ done
  \/ /\ numPages > freePages
     /\ noPages
     /\ \/ UNCHANGED <<freePages, image>>
        \/ /\ image # NoImage
           /\ freePages' = freePages + image.pages
           /\ image' = NoImage

AllocatePagesForData(dataSize, done, noPages) ==
  AllocatePages(PagesFor(dataSize), done, noPages)

\* ParseGlobalInitializers for the section headers shs: the last table of a kind,
\* taken from the image at the table's offset in the file.  An address is the
\* file's if its bytes were read and the segment is the file's beginning; what
\* else the pages hold is not known.
Addresses(kind, shs, ph, img) ==
  LET tables == {n \in DOMAIN shs : shs[n].type = kind}
      last == shs[Max(tables)]
      InMemory(n) == ph.offset = 0 /\ last.offset + AddressBytes * n <= img.read
  IN  IF tables = {} THEN <<>>
      ELSE [n \in DOMAIN last.table |->
              IF InMemory(n)
              THEN TranslateKernelAddress(img.base, last.table[n], ph.vaddr)
              ELSE Uninitialised]

\* Mutant: modes are counted from one.
GetVideoModeFromOne(modes) ==
  LET favored == {n \in DOMAIN modes :
                    IF CustomResolution = AnyResolution
                    THEN modes[n].horz > 0 /\ modes[n].vert > 0
                    ELSE modes[n] = CustomResolution}
  IN  IF favored = {} THEN -1 ELSE Max(favored)

\* The mode GetVideoMode selects, -1 for none.  Without a custom resolution
\* the highest values it compares with stay 0, so that it is the last mode.
GetVideoMode(modes) ==
  LET favored == {n \in DOMAIN modes :
                    IF CustomResolution = AnyResolution
                    THEN modes[n].horz > 0 /\ modes[n].vert > 0
                    ELSE modes[n] = CustomResolution}
  IN  IF favored = {} THEN -1 ELSE Max(favored) - 1

-----------------------------------------------------------------------------
(* The keyboard *)

\* The user types; the firmware queues the key.
Type ==
  /\ services /\ keyboard = "none"
  /\ keyboard' = IF pc = "key" THEN "since" ELSE "before"
  /\ UNCHANGED <<machine, pc, after, files, services, kernelVars, fontVars,
                 videoVars, history>>

\* Mutant: the input queue is not cleared.
ResetKeepsKeys ==
  /\ pc = "reset" /\ Goto("key")
  /\ UNCHANGED <<machine, keyboard, files, services, kernelVars, fontVars, videoVars,
                 history>>

Reset ==
  /\ pc = "reset" /\ Goto("key")
  /\ keyboard' = "none"
  /\ UNCHANGED <<machine, files, services, kernelVars, fontVars, videoVars,
                 history>>

ReadKeyStroke ==
  /\ pc = "key" /\ keyboard # "none"
  /\ Goto(after)
  /\ keyboard' = "none"
  /\ UNCHANGED <<machine, files, services, kernelVars, fontVars, videoVars,
                 history>>

-----------------------------------------------------------------------------
(* efi_main: the kernel *)

Init ==
  /\ machine \in Machines
  /\ pc = "open_kernel" /\ after = "open_kernel"
  /\ keyboard \in {"none", "before"}
  /\ opened = {"image"}
  /\ freePages = machine.pages /\ services = TRUE
  /\ gopMode \in 0 .. Len(machine.modes) - 1
  /\ i = 0 /\ programHeaders = Uninitialised
  /\ kmain = Uninitialised /\ image = NoImage
  /\ globalObjCtorDtor = Uninitialised
  /\ psf2fileSize = 0 /\ fontData = NoImage
  /\ videoMode = -1 /\ framebuffer = Uninitialised
  /\ overrun = FALSE /\ failed = {}

OpenKernel ==
  /\ pc = "open_kernel"
  /\ LoadRootDirFile(machine.kernel, "kernel",
                     Goto("elf_header"), WaitForKey("returned"))
  /\ UNCHANGED <<machine, keyboard, freePages, services, kernelVars, fontVars,
                 videoVars, history>>

\* ParseELFHeader: a file that is not an ELF executable costs a key stroke.
ParseELFHeader ==
  /\ pc = "elf_header"
  /\ IF machine.kernel.elf THEN Goto("program_headers")
                           ELSE WaitForKey("program_headers")
  /\ UNCHANGED <<machine, keyboard, files, services, kernelVars, fontVars,
                 videoVars, history>>

\* ParseELFPHeader reads the array to wherever its pointer points; if the Read
\* fails, the array is what was there.
ParseELFPHeader ==
  /\ pc = "program_headers" /\ Goto("segments")
  /\ \/ /\ \E w \in Wild : programHeaders' = w[1]
        /\ UNCHANGED failed
     \/ /\ "read" \in MayFail
        /\ programHeaders' = Uninitialised
        /\ failed' = failed \cup {"program_headers"}
  /\ UNCHANGED <<machine, keyboard, files, services, i, kmain, image,
                 globalObjCtorDtor, fontVars, videoVars, overrun>>

\* The array is that of the file: it was read, and no section header has
\* overwritten it.
HeadersIntact == programHeaders # Uninitialised

Ph == machine.kernel.phs[i + 1]

SegmentsDone ==
  /\ pc = "segments" /\ i = Len(machine.kernel.phs)
  /\ Goto("open_font")
  /\ UNCHANGED <<machine, keyboard, files, services, kernelVars, fontVars,
                 videoVars, history>>

\* Mutant: the loop does not go on to the next header.
SkipSegmentForever ==
  /\ pc = "segments" /\ i < Len(machine.kernel.phs)
  /\ HeadersIntact => ~Ph.load
  /\ i' = i
  /\ UNCHANGED <<machine, pc, after, keyboard, files, services, programHeaders,
                 kmain, image, globalObjCtorDtor, fontVars, videoVars, history>>

SkipSegment ==
  /\ pc = "segments" /\ i < Len(machine.kernel.phs)
  /\ HeadersIntact => ~Ph.load
  /\ i' = i + 1
  /\ UNCHANGED <<machine, pc, after, keyboard, files, services, programHeaders,
                 kmain, image, globalObjCtorDtor, fontVars, videoVars, history>>

\* A segment is loaded: p_memsz decides on the pages, p_filesz on what is read.
\* A header that is not the file's has any sizes and addresses, if it can be
\* looked at: some number of pages, of which nothing is known, for an image.
LoadSegment ==
  /\ pc = "segments" /\ i < Len(machine.kernel.phs)
  /\ \/ /\ HeadersIntact /\ Ph.load
        /\ AllocatePagesForData(Ph.memsz,
             /\ \E base \in Bases, n \in 0 .. Ph.filesz :
                  /\ Read("kernel", Ph.filesz, n)
                  /\ image' = [kind |-> "pages", base |-> base,
                               pages |-> PagesFor(Ph.memsz),
                               size |-> Ph.filesz, read |-> n]
                  /\ kmain' = TranslateKernelAddress(base, machine.kernel.entry,
                                                     Ph.vaddr)
             /\ overrun' = (overrun \/
                              Ph.filesz > PagesFor(Ph.memsz) * PageBytes)
             /\ Goto("initializers"),
             /\ WaitForKey("returned")
             /\ UNCHANGED <<kmain, history>>)
     \/ /\ ~HeadersIntact
        /\ \E numPages \in 1 .. machine.pages + 1 :
             AllocatePages(numPages,
               /\ \E base \in Bases :
                    image' = [kind |-> "pages", base |-> base, pages |-> numPages,
                              size |-> 0, read |-> 0]
               /\ kmain' = Uninitialised
               /\ overrun' \in {overrun, TRUE} /\ UNCHANGED failed
               /\ Goto("initializers"),
               /\ WaitForKey("returned")
               /\ UNCHANGED <<kmain, history>>)
     \/ ~HeadersIntact /\ Fault /\ UNCHANGED <<freePages, kmain, image, history>>
  /\ UNCHANGED <<machine, keyboard, opened, services, i, programHeaders,
                 globalObjCtorDtor, fontVars, videoVars>>

\* What ParseGlobalInitializers returns for the segment in memory.
Tables ==
  [ctors |-> Addresses("init", machine.kernel.sections, Ph, image),
   dtors |-> Addresses("fini", machine.kernel.sections, Ph, image)]

\* ParseELFSHeader and ParseGlobalInitializers.  The pointer to the section
\* headers is uninitialised too, and may be the one to the program headers; if
\* their Read fails, they are what was there, with tables at any place or none.
\* Without memory from the pool the tables are written to address 0.
ParseInitializers ==
  /\ pc = "initializers"
  /\ \/ /\ ~machine.kernel.hasSections
        /\ Goto("open_font")
        /\ UNCHANGED <<i, programHeaders, globalObjCtorDtor, failed>>
     \/ /\ machine.kernel.hasSections
        /\ i' = i + 1
        /\ \E w \in Wild :
             programHeaders' = IF w[2] = programHeaders
                               THEN Uninitialised ELSE programHeaders
        /\ \/ /\ Goto("segments")
              /\ globalObjCtorDtor' = IF HeadersIntact' THEN Tables
                                                        ELSE Uninitialised
              /\ UNCHANGED failed
           \/ /\ "read" \in MayFail
              /\ Goto("segments") \/ Fault
              /\ globalObjCtorDtor' \in {Uninitialised,
                                         [ctors |-> <<>>, dtors |-> <<>>]}
              /\ failed' = failed \cup {"section_headers"}
           \/ /\ "pool" \in MayFail
              /\ Goto("segments") \/ Fault
              /\ globalObjCtorDtor' = Uninitialised
              /\ failed' = failed \cup {"pool"}
  /\ UNCHANGED <<machine, keyboard, files, services, kmain, image, fontVars,
                 videoVars, overrun>>

-----------------------------------------------------------------------------
(* efi_main: the font *)

\* The handle is used without a look at it: a null pointer faults.
OpenFont ==
  /\ pc = "open_font"
  /\ LoadRootDirFile(machine.font, "font", Goto("font_header"), Fault)
  /\ UNCHANGED <<machine, keyboard, freePages, services, kernelVars, fontVars,
                 videoVars, history>>

ParsePSF2Header ==
  /\ pc = "font_header"
  /\ IF machine.font.magic THEN Goto("font_size") ELSE WaitForKey("returned")
  /\ UNCHANGED <<machine, keyboard, files, services, kernelVars, fontVars,
                 videoVars, history>>

\* GetFileSize returns 0 when the firmware cannot tell.
GetFileSize ==
  /\ pc = "font_size" /\ Goto("font_data")
  /\ \/ psf2fileSize' = machine.font.size /\ UNCHANGED failed
     \/ /\ "info" \in MayFail
        /\ psf2fileSize' = 0 /\ failed' = failed \cup {"info"}
  /\ UNCHANGED <<machine, keyboard, files, services, kernelVars, fontData,
                 videoVars, overrun>>

\* Pages for the glyphs, and a read of as many bytes as the file has, of which
\* those after the header are there.
LoadFont ==
  /\ pc = "font_data"
  /\ LET font == machine.font
         glyphs == font.charSize * font.length
         rest == IF font.headerSize > font.size THEN 0
                 ELSE font.size - font.headerSize
         bytes == IF psf2fileSize < rest THEN psf2fileSize ELSE rest
     IN  AllocatePagesForData(glyphs,
           /\ \E n \in 0 .. bytes :
                /\ Read("font", bytes, n)
                /\ fontData' = [kind |-> "pages", pages |-> PagesFor(glyphs),
                                read |-> n]
           /\ overrun' = (overrun \/ bytes > PagesFor(glyphs) * PageBytes)
           /\ Goto("video_mode") /\ UNCHANGED image,
           /\ WaitForKey("returned")
           /\ UNCHANGED <<fontData, history>>)
  /\ UNCHANGED <<machine, keyboard, opened, services, i, programHeaders, kmain,
                 globalObjCtorDtor, psf2fileSize, videoVars>>

-----------------------------------------------------------------------------
(* efi_main: the display and the handoff *)

SelectVideoMode ==
  /\ pc = "video_mode"
  /\ \/ /\ videoMode' = GetVideoMode(machine.modes)
        /\ WaitForKey(IF videoMode' = -1 THEN "returned" ELSE "framebuffer")
     \/ "gop" \in MayFail /\ Fault /\ UNCHANGED videoMode
  /\ UNCHANGED <<machine, keyboard, files, services, kernelVars, fontVars,
                 gopMode, framebuffer, history>>

\* SetMode, whose status is ignored.
SetMode ==
  \/ gopMode' = videoMode /\ UNCHANGED failed
  \/ "setmode" \in MayFail /\ gopMode' = gopMode /\ failed' = failed \cup {"setmode"}

\* Mutant: the framebuffer is described before the mode is set.
FramebufferOfOldMode ==
  /\ pc = "framebuffer" /\ Goto("exit_boot")
  /\ SetMode
  /\ framebuffer' = machine.modes[gopMode + 1]
  /\ UNCHANGED <<machine, keyboard, files, services, kernelVars, fontVars,
                 videoMode, overrun>>

\* The framebuffer is that of the mode the display is in.
SetUpFramebuffer ==
  /\ pc = "framebuffer" /\ Goto("exit_boot")
  /\ SetMode
  /\ framebuffer' = machine.modes[gopMode' + 1]
  /\ UNCHANGED <<machine, keyboard, files, services, kernelVars, fontVars,
                 videoMode, overrun>>

\* CloseProtocol and ExitBootServices, whose steps are those of ExitBoot; then
\* kmain is called whatever came of it.
EnterKernel ==
  /\ pc = "exit_boot" /\ Goto("kernel")
  /\ opened' = opened \ {"image"}
  /\ \/ services' = FALSE /\ UNCHANGED failed
     \/ "exit" \in MayFail /\ UNCHANGED services /\ failed' = failed \cup {"exit"}
  /\ UNCHANGED <<machine, keyboard, freePages, kernelVars, fontVars, videoVars,
                 overrun>>

Loader ==
  \/ OpenKernel \/ ParseELFHeader \/ ParseELFPHeader
  \/ SegmentsDone \/ SkipSegment \/ LoadSegment \/ ParseInitializers
  \/ OpenFont \/ ParsePSF2Header \/ GetFileSize \/ LoadFont
  \/ SelectVideoMode \/ SetUpFramebuffer \/ EnterKernel
  \/ Reset \/ ReadKeyStroke

Next == Loader \/ Type

Spec == Init /\ [][Next]_vars

\* The loader runs on, and a user who is asked for a key types one.
FairSpec == Spec /\ WF_vars(Loader) /\ WF_vars(Type)

-----------------------------------------------------------------------------
(* Properties *)

Stages == {"open_kernel", "elf_header", "program_headers", "segments",
           "initializers", "open_font", "font_header", "font_size",
           "font_data", "video_mode", "framebuffer", "exit_boot", "kernel",
           "reset", "key", "returned", "fault"}

TypeOK ==
  /\ machine \in Machines
  /\ pc \in Stages /\ after \in Stages
  /\ keyboard \in {"none", "before", "since"}
  /\ opened \subseteq {"image", "sfs", "root", "kernel", "font"}
  /\ freePages \in 0 .. machine.pages /\ services \in BOOLEAN
  /\ gopMode \in 0 .. Len(machine.modes) - 1
  /\ i \in Nat
  /\ videoMode \in -1 .. Len(machine.modes) - 1
  /\ psf2fileSize \in Nat
  /\ overrun \in BOOLEAN
  /\ failed \subseteq {"program_headers", "kernel", "section_headers", "pool",
                       "info", "font", "setmode", "exit"}

\* Where the bytes of the kernel's file are, if they could be read.
ImageBytes == image.base .. image.base + image.size - 1

\* When a kernel is entered that is an ELF file, the pages it was to be read to
\* are still the loader's, and kmain points into them, wherever the firmware put
\* the image and whatever failed but the read of the program headers.  So does
\* every constructor and destructor, if what they are taken from was read (the
\* section headers and the image) and there was memory for their tables.
KernelLoaded ==
  pc = "kernel" /\ machine.kernel.elf /\ HeadersIntact =>
    /\ image # NoImage
    /\ kmain \in ImageBytes
    /\ machine.kernel.hasSections
         /\ failed \cap {"kernel", "section_headers", "pool"} = {} =>
         ToSet(globalObjCtorDtor.ctors) \cup ToSet(globalObjCtorDtor.dtors)
           \subseteq ImageBytes

\* The section headers were read over the program headers.
PointersMet == ~HeadersIntact /\ "program_headers" \notin failed

\* Nobody looks whether what kmain is called with is complete, and still it is
\* incomplete only if the call that was to provide it failed, or the files
\* did not have it: the kernel's bytes, the glyphs, a framebuffer of the
\* selected mode, the constructors, and a machine without boot services in
\* which the loader left nothing open but the two files.  (Nothing is said once
\* the two uninitialised pointers met, or a read has run over its pages.)
HandoffComplete ==
  pc = "kernel" /\ machine.kernel.elf /\ ~PointersMet /\ ~overrun =>
    /\ \/ image # NoImage /\ (image.read = image.size \/ "kernel" \in failed)
       \/ "program_headers" \in failed
    /\ \/ fontData.read >= machine.font.charSize * machine.font.length
       \/ failed \cap {"info", "font"} # {}
       \/ machine.font.size < machine.font.headerSize
                               + machine.font.charSize * machine.font.length
    /\ framebuffer = machine.modes[videoMode + 1] \/ "setmode" \in failed
    /\ \/ globalObjCtorDtor # Uninitialised
       \/ failed \cap {"program_headers", "section_headers", "pool"} # {}
       \/ ~ machine.kernel.hasSections
    /\ services => "exit" \in failed
    /\ opened = {"kernel", "font"}

\* No Read runs over the end of the pages allocated for it, unless the font's
\* file has more than its glyphs: the pages are for these, the read is not.
NoOverrun ==
  HeadersIntact /\ overrun =>
    machine.font.size - machine.font.headerSize
      > machine.font.charSize * machine.font.length

\* A key typed before the prompt is not taken for an answer to it.
AnsweredSincePrompt == [][pc = "key" /\ pc' # "key" => keyboard = "since"]_vars

\* With a user who answers the prompts the loader ends: in the kernel, in the
\* firmware, or at a null pointer.  It waits for nothing but the keys.
Terminates == <>(pc \in {"kernel", "returned", "fault"})

=============================================================================
