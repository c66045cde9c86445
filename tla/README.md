# A verification project for LanternOS

LanternOS is a small x86_64 operating system: a UEFI loader (BhavaLoader), a
kernel that so far is a text console, and the scripts that install its
toolchain and build it. This directory models the parts that have behaviour
worth checking in TLA+, checks them with TLC and proves the properties that do
not depend on the size of an instance with TLAPS.

Paths below are relative to the repository. The modules are checked with
`tlc -config X.cfg M` and `tlapm M.tla`; `PROJECT.json` lists every run, the
lines each definition stands for, one seeded bug per property, the hazards and
the findings.

## 1. Inventory

| Component | State | Operations | Talks to |
|---|---|---|---|
| Console, class `TTY` (`lanternOS/kernel/src/tty`) | cursor, two colours, the framebuffer it paints | constructor, `SetBackgroundColor`, `SetForegroundColor`, `ClearScreen`, `NewLine`, `PutChar`, `Puts`, `kprintf` | reads and writes the framebuffer the loader found; reads the font the loader loaded |
| `kmain` | none | `CallGlobalConstructors`, four prints | called by the loader with framebuffer, font and constructor tables |
| Loader, `efi_main` (`bhavaloader/src/main.cpp`) | its locals: file handles, header arrays, pages, `kmain`, tables, video mode | `LoadRootDirFile`, `ParseELF*`, `AllocatePagesForData`, `ParseGlobalInitializers`, `ParsePSF2Header`, `GetFileSize`, `GetVideoMode`, `SetUpFramebuffer`, `WaitForKey` | the firmware, by calls whose statuses it mostly ignores; the user, by the keyboard |
| `ExitBootServices` (same file) | a buffer, its size, a map key | the handshake that ends boot services | the firmware's memory map, which events change meanwhile |
| Loader printing (`util/print.h`) | two buffers of fixed size and the positions in them | `itoa`, `reverse_string`, `print`, `println` | the firmware's console |
| Toolchain installer (`scripts/install-toolchain.py`) | archives, sources, gcc's configuration, build directories and the toolchain, all on the disk | fetch, extract, patch, configure, build | the network, the file system, `make`; the user who stops and restarts it |
| Build (`scripts/build.py`) | build directories of two types, the emulator's boot directory | build, strip, move, copy | `cmake`, `make`, `objcopy`; the programmer who edits meanwhile |
| gnuefi headers, OVMF, namelesslibc | third party | | |

Where it is hard:

* **Console.** There is no text in memory, only pixels. The setters find the
  text by comparing pixels with a colour, `PutChar` wraps one character late
  with unsigned arithmetic, nothing scrolls, and the width of a glyph is fixed
  in one place and a parameter in another. Only long sequences of calls show a
  mistake. *Correct means:* lines are laid out as one whichever calls print
  them; the pixels are at all times the text on the background; nothing is
  written off the screen before the text has run off its bottom.
* **Leaving boot services.** An optimistic protocol against a firmware that
  keeps changing the map: a size that is stale when used, a key that is stale
  when used, statuses nobody reads. *Correct means:* boot services end, and the
  loader has the map they ended with, in a buffer it fits.
* **Loader.** A long sequence of calls each of which may fail, pointers and
  structures that some path leaves uninitialised, sizes taken from one field
  and used with another. *Correct means:* the kernel is entered only with
  everything it is passed in place; no read leaves its pages; every path
  ends; a prompt is answered by a key typed for it.
* **Formatted printing.** Parsers with state across conversions, arithmetic
  that mixes signed and unsigned, and fixed buffers. *Correct means:* what C's
  `printf` prints for the same call, where the code implements it; no read or
  write outside the format and the buffer; every call ends.
* **Scripts.** Partial downloads, unchecked commands, reruns after a failure,
  files that earlier runs left. *Correct means:* what is installed or booted
  comes from complete and current sources, and trying again recovers.

Nothing in the system runs in parallel with anything of its own: there is one
thread in the loader and one in the kernel, with interrupts left to the
firmware. What interleaves is the loader with firmware events and with the
user, callers of the console with each other's calls, and the scripts with
their own earlier runs, whose files they find, and with whoever edits or
interrupts.

## 2. Plan

| Module | Models | Status |
|---|---|---|
| `TTY`, `MC_TTY` | the console | done |
| `Terminal`, `TTYTerminal` | what a console promises, and the refinement | done |
| `TTYProofs` | proofs about `TTY`, and the refinement of `Terminal` | done |
| `ExitBoot`, `MC_ExitBoot`, `ExitBootProofs` | the end of boot services | done |
| `BhavaLoader`, `MC_BhavaLoader` | `efi_main` | done |
| `BhavaLoaderProofs` | who answers a prompt, reads in their pages, what the kernel is entered with | done |
| `LanternBoot`, `MC_LanternBoot`, `LanternBootProofs` | loader, `ExitBoot` and the start of `kmain` composed, and the refinement | done, proved |
| `Kprintf`, `CFormat`, `MC_Kprintf`, `KprintfProofs` | `kprintf` against what C says of the same conversion | done |
| `LoaderPrint`, `MC_LoaderPrint`, `LoaderPrintProofs` | `itoa` and `print` of the loader, against the same | done |
| `ToolchainInstall`, `MC_ToolchainInstall`, `ToolchainProofs` | the installer, its failures and reruns | done |
| `BuildPipeline`, `MC_BuildPipeline`, `BuildPipelineProofs` | the build, its unchecked steps, and the boot directory | done |

Every invariant, action property and refinement that a passing run checks is
also a theorem; what is left is liveness, which the prover does not reach
(section 5).

Abstract specifications: `Terminal`, which the console implements;
`BhavaLoader` with leaving boot services as one step, which `LanternBoot` with
all its calls implements; `CFormat` and `CText` of `LoaderPrint`, what C prints
for a call.

## 3. The models

### TTY

A method is one action, because nothing can come between its steps; only
`Puts`, a loop over `PutChar`, is a call (`PutsCall`) and one step per
character, so that the invariants are checked inside it. `m_currentCharPosX`,
`m_currentCharPosY`, `m_bgColor`, `m_fgColor` have the code's names.

* The framebuffer is a function from words to colours. A pixel's word is
  computed modulo `Word` = 2^32 as in `PlotPixel`; words behind the
  framebuffer's last are not in its domain, a write to them is lost in the
  model and recorded by `stray`, and so is a write that is in the framebuffer
  but not on the screen.
* `ByteBits` and `TailBits` are the 8 and the 2 that `PutChar` hard-codes;
  `glyphWidth` is the font's. `FontBuffer` says which bits of each byte of the
  font are set, and a glyph has two bytes a row.
* `ink`, `line` and `stray` are history: the words last painted as strokes, the
  line being printed, and whether a pixel was plotted off the screen. No
  action reads them.
* `Spec` has any caller, `PlainSpec` callers like `kmain`: background first,
  colours kept apart, text in the current colours. `kmain` itself is one of
  them (`kmain.cpp:25-32`).
* `MaxPosY` bounds the row of the cursor; nothing in the code does.

`Terminal` is a grid of characters with a cursor and two colours. `TTYTerminal`
maps the framebuffer to it by reading each cell back: the character whose glyph
is exactly the pattern of foreground pixels. So `ImplementsTerminal` says that
the pixels always carry the text, that a character changes its own cell alone,
and that recolouring changes no text.

### ExitBoot

One action per call of `ExitBootServices` (`main.cpp:350-382`). The firmware is
external: its map has `descs` descriptors of `descBytes` bytes and a `key`; pool
calls may or may not change it; an `Event` changes it between any two calls.
`MaxGrowth` bounds by how many descriptors the map grows during the call and
`MaxEvents` the number of events. `GetMemoryMap` always stores the size; whether
it stores the key when it fails is not determined by the UEFI specification
(EDK II does), so both are in the model. The contents of a map are stood for by its
key. A failed `AllocatePool` leaves `buffer = 0`.

### BhavaLoader

One action per stage of `efi_main`, in its order, with `pc` the next stage and
`after` the stage that follows a `WaitForKey`. A file is the record of what the
loader reads from it. Calls that may fail are named in `MayFail`; memory runs
out because a machine has `pages` pages. What an uninitialised pointer or
variable holds is `Uninitialised`, and the two pointers the header arrays are
read through point to any pair in `Wild`. `FreePages` of an uninitialised
address frees nothing or what the stack slot still names. An `int` has
`IntRange` values, so that a large size turns negative as in the code. The
keyboard is an actor of its own.

A `Read`, the pool for the tables, `GetInfo` and `SetMode` fail unnoticed;
`failed` is the history of these failures, which `HandoffComplete` weighs
against what the kernel is passed. What a failed `Read` leaves depends on what it
reads to:

* The headers of the two files are zeroes before (`main.cpp:202`, `262`): a failed
  one is that of a file that is no ELF or PSF2 file.
* The program headers (`226`) go to memory nobody has cleared. If they cannot be
  read, or the section headers were read over them, `HeadersIntact` is false and
  the loop goes over what is there: a header may be skipped or loaded, with any
  sizes, into any number of pages up to one more than the machine has, and of what
  is then in the image, in `kmain` and in the tables nothing is known.
* The section headers (`249`) as well: there may be tables at any place, none, or a
  pointer that faults.
* The kernel and the font are read to pages; a part of their bytes, a member of
  `Parts`, is there (`image.read`, `fontData.read`). `Addresses` takes the tables
  from the image, as `ParseGlobalInitializers` does (`307`, `320`): an address whose
  bytes (`AddressBytes` each, from the table's `offset` in the file) were not read is
  `Uninitialised`.

Left out: what is printed; the loader's
own image protocol failing to open (the firmware has just loaded it); the
contents of the image beyond the tables. `ExitBootServices` is one step here.

### LanternBoot

`BhavaLoader` and `ExitBoot` with `services` shared, and the start of `kmain`.
The loader's steps are `Load` until it comes to `exit_boot`; from there
`CloseProtocol`, the actions of `ExitBoot` with its firmware events (`Leave`),
`CallKmain`, and one `CallConstructor` for each function of the table. The
user may type until the end. `L` is the refinement mapping: boot services and
the protocol of the image are those before `exit_boot` until the kernel is
entered, and a failed exit is what `services` still says then. A kernel whose file
is not all in memory, or whose tables are unknown, is entered as in the code, but
what the processor then does is not determined: `KernelThere` ends the model there.

### Kprintf

One action per character or stage of a conversion: literal, `%`, flag, padding,
precision, conversion. The modifiers are variables of the call, as in the code.
Characters are one-letter strings; a text is the sequence handed to `PutChar`.
`Itoa` is a constant, `Number` is what `strtol` does; both belong to libk. In
`PrintFormattedWithModifiers` the comparison of a `long` with `strlen` is
unsigned, so that a negative precision counts as huge. What follows a format
that is read beyond its terminator is unknown: `pc = "beyond"` ends the model.
`CFormat` says what C prints, from a conversion specification read as a whole,
and `InImplementedPart` how much of it the code implements: not the flags `0`,
space and `+`, no width for `%c` and `%s`, negative numbers only where neither
width nor precision adds to them, `X` only for numbers without a letter and without
`#` (C has capitals and `0X` there, kprintf the letters and the prefix of `x`), and
no modifier of one conversion that a later one does not repeat. `CTextFrom` reads
the format by recursion on positions: the text from a position on, after a number
of arguments, is that of one conversion or character and the text behind it.
`ConversionsFrom` walks the same way and collects, for each conversion, its
argument and what those before it have asked for.

### LoaderPrint

`print_internal` and, as a loop of its own, `itoa`. An `int` has `IntRange` values
and a `UINT64` has `Uint64Range`, 2^32 and 2^64; a `CHAR16` is a member of
`Characters`. The argument goes through `AsInt`, `AsUINT64` and
`__builtin_abs` as in the code. The absolute value of the least int is
undefined; both outcomes a build can have are in the model. `reached` is how
far into the buffer was written, whose size is `MaxChars`. `%x` prints capitals, which
is what C prints for `%X`; `CText` is therefore C's text for the format with `X` in
place of `x` (`InC`), and the difference is among the divergences of section 4.

### ToolchainInstall

`Plan` is the sequence of calls in `main`; `step` is where the script is in it,
0 when none runs. What is on the disk survives a `Stop`. Archives and sources
are missing, partial or whole; `config` is `config.gcc` line by line, a line
being the target whose pattern it matches, so that the loop of
`prepare_modified_libgcc` (`ReadConfig`, `SkipLine`, `PatchLine`) is modelled with
its iterator over a list that grows. `configure` and `make` succeed or fail
without anybody looking; `Makeable` is what they need. Every step may fail by
itself or be interrupted, `MaxFailures` times in all runs together; failures
that an earlier one forces are not counted.

### BuildPipeline

A file is described by the version of the sources it was built from. Every
command of `build.py` is an action with its failure, which the script does not
notice; a missing file or directory makes Python raise (`Raises`). `Edit`
changes the sources at any time, `Interrupt` stops the script at any step,
and the runs of both types share the boot directory. `make` is modelled by its
promise: it builds what is older than its sources or, for the kernel, than
libk. `began`, `troubled`, `aborted`, `resumed` and `failures` are history.

## 4. What the runs check

Passing runs:

| Run | Instance | Shows |
|---|---|---|
| `TTY_api` | 2 x 2 cells of 2 x 1 pixels, one spare word a line, two colours, every method with every argument, rows up to 4 | `TypeOK`; `LineLayout`: a line of n characters has exactly the rows it needs; `ClippedOnlyBelow`: nothing is plotted off the screen until the cursor has left the bottom; `PaddingUntouched` |
| `TTY_plain` | 2 x 2 cells of 2 x 2 pixels with a row of pixels to spare, three colours, three glyphs, a screen that may hold leftovers | `Rendered`: pixels are text on background through every change of colour; `ImplementsTerminal` |
| `ExitBoot_margin` | 1 to 3 descriptors of 2 or 3 bytes, growth 2, two events, pools that fail | `MapInBuffer`, `MapAtExit`, `ExitsUnlessRaced` |
| `Kprintf_c` | two conversions with each of the five flags or `-#`, three widths, three precisions and all letters, `X` and its letters among them, and all strings of up to four of six format characters | `MatchesC`; `OverreadsOnlyIfCutOff`; `Terminates` |
| `LoaderPrint_c` | all formats of up to five of four characters, ints of 7 bits, a buffer of 7 characters | `MatchesC` for ints that are not negative, `%x` against C's `%X`; `OverrunsOnlyIfCWould`; `Terminates`, for the least int too |
| `BhavaLoader_failing` | sixteen machines, every call failing or not, reads that store nothing, three or six bytes, both kinds of wild pointers | `KernelLoaded`: unless the program headers were lost, the kernel is entered in pages the loader owns, and every address passed is in them if what it is taken from was read; `HandoffComplete`: what it is passed lacks something only if the call for it failed; `NoOverrun`; `AnsweredSincePrompt`; `Terminates` |
| `LanternBoot_whole` | two machines with two modes, one or two descriptors that gain one, one event, every failure, reads that store three bytes | `KernelAlone`; `ConstructorsInOrder`, for a kernel that was read; `ImplementsLoader` |
| `ToolchainInstall_reruns` | a configuration file of six lines in which two matches follow each other, four failures, both kinds of path | `BuildsFromWholeSources`; `UntroubledRunInstalls`; `RedZoneOnlyIfStopped`; `RetryRecovers` |
| `BuildPipeline_edits` | three versions, two failures, any number of runs of both types | `UntroubledBuildIsCurrent`; `StaleOnlyAfterAbort`; `DebugLostOnlyAfterAbort` |

Three runs find what a comment or a help text says violated (the findings of
`PROJECT.json` quote it):

* `Kprintf_leak`: a conversion without a width gets that of an earlier one.
* `ExitBoot_race`: an event before the exit leaves boot services running.
* `BuildPipeline_debug`: a Debug build in which nothing fails is aborted, since
  it moves the debugging information of the Release build.

Divergences met while modelling that have no run of their own:

* Console. `Puts` ends no line (`tty.h:45` says it does). Text printed in colours
  of its own is not recoloured (`tty.h:33-34`). Below the bottom row `PutChar`
  plots outside the coordinates `PlotPixel` asks for (`tty.h:141`).
* `kprintf`. `%X` prints what `%x` prints: small letters, and `0x` for `#`
  (`tty.cpp:287-301`). A negative number with a precision or a width gets one zero and
  one space too few, its sign counts as a digit and comes behind the zeroes
  (`151`, `159`); `#` is not counted in the width; `%c` and `%s` take no width.
* `print`. `%x` prints capitals (`print.h:53-60`), where C prints small letters. The
  parameter of `itoa` is unsigned, so that no number is negative and the sign of
  `print.h:66` is never written; pointers are cut to an int, and one whose low half
  is negative is printed as its magnitude.
* `ExitBootServices`. A map that gains a third descriptor does not fit, and the
  status that would say so is read by nobody (`main.cpp:348`, `368`).
* Loader. A file that is no ELF file costs a key stroke and is entered all the same
  (`main.cpp:182`, `206`). The font's file handle is used unchecked
  (`main.cpp:513`), and so are the size of a file (`57`, `518`) and, without section
  headers, the constructor tables (`238`, `503`). The rest of a font file is read to
  pages for its glyphs (`99`, `525`). Without `CUSTOM_RESOLUTION` the last mode is
  selected, because the maxima it compares with are never updated (`406-412`).
  `GetDataPageSize` adds a page to exact multiples (`94`). The constructor table is
  looked up at its file offset, right only for a segment loaded from offset 0
  (`307`), and read from memory whether or not the read of the segment brought it
  there (`491`). Both header arrays are read through uninitialised pointers (`223`,
  `246`), and used if they were not read (`226`, `249`).
* Installer. What is skipped as a copy (`install-toolchain.py:23`) may be part of
  one. The test for a patched line (`144`, `149`) compares with a text that has no
  newline and never succeeds; only the extraction before it keeps a rerun from
  patching twice. The exceptions it waits for (`91`, `112`) are never raised. A
  relative `--installpath` is entered twice, at `215` and again at `224`, where it is
  no longer found.

The bounds. Two columns and rows are the fewest with a right margin and a bottom row
that are not the first; four rows let the cursor pass the bottom by more than one;
strings of two and three characters cross the margin inside one call of `Puts` or
end in a newline. The glyphs are two pixels wide where the real ones have ten, with
one pixel in each of the two loops. The memory map gains at most the margin, two
descriptors, in the passing run and in the violated one: there the race alone breaks
the claim. Two events cover one before and one after the map is fetched. A page of 4
bytes with segments of 9 and 63 bytes has a partly filled page and a size no `int`
holds.

An address has one byte (`AddressBytes`), so that the two of the constructors'
table, at offset 2, are the third and the fourth of the six bytes of the segment: a
read that stores three bytes (`Parts`) brings one of them and not the other, one
that stores none brings no table, and a font is cut in its glyphs by the same
numbers.

The constructors of `LanternBoot_whole` are two, so that they have an order. There
every failed read stores three bytes, because the model ends where a kernel that was
not read is entered, and `BhavaLoader_failing` has the others. `Kprintf_c` has the
numbers 0, 9 and 11, without and with a hexadecimal letter, and a negative one. It
needs two conversions for what one leaves to the next and four characters for a
format cut off behind flag, width and precision. In `LoaderPrint_c` the texts of
five characters are longer than the buffer, and 7 bits hold numerals of one to three
digits and every sign. Four failures are enough for an archive, an nrz file, a
configure and a make to fail in one history; two of a build are one in each of two
runs, or a failure and the interrupt that hides it, and three versions are the one
booted, the one built and the one being written.

Fairness is assumed where something must end. In `BhavaLoader` the loader runs on
(one thread that nothing preempts for good), and a user who is asked for a key
eventually types one, without which the loader is meant to wait. In `Kprintf` and
`LoaderPrint` the call runs on: it is the only thread. In `ToolchainInstall`
`WF_vars(Next)` lets the script run on and the user start it again when it has
stopped; that it does not fail for ever is `MaxFailures`, and without either there
is nothing to recover. Safety needs none. Deadlock checking is off where the
modelled code ends: `ExitBoot`, `BhavaLoader`, `LanternBoot`, `Kprintf` and
`LoaderPrint` stop when the function has returned or the kernel has started. The
console always offers some operation, until `MaxPosY` other than printing, and the
scripts can always be run again.

## 5. What is proved

For every screen, font, character set and set of strings that satisfies
`GeometryAssumption` (at least one cell fits; scan lines are as long as the
screen is wide and as a glyph; the framebuffer has at most 2^32 words) and
`DataAssumption`:

* `TypeCorrect`: `Spec => []TypeOK`. `TypeOK` is inductive: its bound on the
  cursor counts the rest of a running `Puts`.
* `LinesAreLaidOut`: `Spec => []LineLayout`. Inductive with `TypeOK`; the work
  is in `RowsStep`, that a line takes a new row exactly when its last one is
  full, and in `FullIsPastTheEnd`, that the unsigned subtraction does not wrap.
* `ClippingIsBelow`: `Spec => []ClippedOnlyBelow`, from `GridFits`: the cells
  together do not exceed the screen.
* `PaddingIsUntouched`: `Spec => PaddingUntouched`, from `CellOnScreen`.
* `TextStaysRendered`: `PlainSpec => []Rendered`. `Rendered` alone is not
  inductive: a `Puts` that runs in colours other than the current ones, or ink from
  a time when the colours were equal, would break it in a later step.
  `PlainInv` adds that a running `Puts` has the current colours and that there is no
  ink before the colours differ.
* `TheConsoleIsATerminal`: `PlainSpec => ImplementsTerminal`. The invariant adds
  `Legible`: the ink in each cell is the glyph of some character. Then a cell can
  be read off (`OnePattern`), and it stays what it was while only another cell is
  drawn, which is `CellsApart`: different pixels of the screen have different
  words. `DrawIsPut` is the step for a character, in or out of `Puts`; `SameText`
  is the one for the setters. Assumed beside the geometry is
  `TerminalAssumption`: glyphs are not narrower than what `PutChar` draws in a cell
  (the font of ten pixels that the repository's README asks for), no two printable
  characters look the same, the space is blank, and the cursor stays above the
  row where offsets wrap to the top of the screen: that row is far below it,
  since 2^32 words are more than any screen has.

For every size of the map and of a descriptor and any number of events:

* `MapStaysInBuffer`: `Spec => [](TypeOK /\ MapInBuffer)` without a bound on
  how the map grows, from `Buffers`: where buffer and size come from.
* `TwoDescriptorsSuffice`: with `MaxGrowth <= 2`,
  `Spec => [](MapAtExit /\ ExitsUnlessRaced)`. The invariant `Margin` weighs
  the map against the size asked for plus what the map gained since, whichever
  step the change falls on; `Fetched` says that a key that is still current
  belongs to a map that still is.

* `TypesHold` and `OnlyRacesKeepServices` single out the two parts that runs
  check.

For every format of `kprintf`, every argument and every `itoa`:

* `ReadsWithinFormat`: `Spec => []OverreadsOnlyIfCutOff`. The invariant says that
  since the last `%` only characters have passed that may precede a
  conversion: of the flags that is one step, of `strtol` it is `NumberFacts`, for
  which `First` provides the first character that is no digit.
* `TypesHold`: `Spec => []TypeOK`, with `DecimalType` and `NumberValue`: what
  `strtol` returns where a digit stands is not negative, so no padding is.
* `PrintsLikeC`: `Spec => []MatchesC`. `TextInv` walks C's reading of the format
  beside kprintf's, one lemma a stage. `Continues` says that what was printed is
  C's text up to a position, whatever arguments are still to come; `Reached` that C
  comes to this position with what was `asked` for before it; `Flagged`, `Padded`
  and `PrecisionKept` that a modifier of the call is the specification's own or was
  asked for before. So a conversion that asks for no less than those before it has
  just its own (`OwnModifiers`), and `NumberPrinted` compares what
  `PrintFormattedWithModifiers` prints for it with C's text. `CFormatAssumption`
  is what this takes of `itoa`, which is libk's: small letters, no minus sign before a
  number that is not negative, no zero before the first digit of a positive one, and
  for a negative one a minus sign before its magnitude (`NegativePrinted`).

For every format of the loader's `print`, every argument and every width of `int`:

* `TypesHold`: `Spec => []TypeOK`. `NumberInv` relates `valcopy` and the digits
  written so far to the numeral of the value: together they are always the whole
  of it, so that the buffer of `itoa` holds it if the longest numeral of an int
  fits (`LoaderPrintAssumption`: ten digits in 24 places).
* `PrintsLikeC`: `Spec => []MatchesC`, for arguments that are not negative as ints,
  and with C's `X` for the loader's `x`.
* `OverrunsAreCs`: `Spec => []OverrunsOnlyIfCWould`, for all arguments. The invariant
  of both is `WrittenInv`: what was written is no longer than C's text up to
  there, and is that text while no negative argument was taken.

For every machine, wherever the firmware puts the pages and whatever fails:

* `OnlyAnswersCount`: `Spec => AnsweredSincePrompt`. `Prompt` is the invariant: a
  key that waits while the loader polls was typed since the reset.
* `ReadsStayInPages`: `Spec => []NoOverrun` for files whose sizes an `int` holds
  (`FileSizes`: `2 * memsz < IntRange`, and no segment has more bytes in the file
  than in memory, as ELF demands). A larger size is cut to its low half, and the
  pages are too few. `PagesInv` adds that no header array is intact before it is
  read and what the stages know of the files; `PagesHold` is the arithmetic.
* `BootImplementsLoader`: `BootSpec => L!Spec`, if the exit may fail. `Handoff`
  relates the two programs: the protocol is open until the loader comes to
  leave, and `ExitBoot` has not begun before.
* `TypesHold` and `BootTypesHold`: `Spec => []TypeOK`, `BootSpec => []BootTypeOK`.
* `KernelIsLoaded`: `Spec => []KernelLoaded`. `Segments` follows the loop over the
  program headers: once one was loaded, entry point and tables are those of the last
  such one. Two hypotheses say what a kernel file is, and nothing of the machine or
  of what fails: `SomeSegmentLoads`, that an ELF file has a segment to load, and
  `KernelIsLinked`, that such a segment has the entry point and the constructors in
  it, starts the file, has the tables within its bytes, and fits in the addresses
  behind its base. The code relies on both, for it takes the kernel to have one
  segment of type `PT_LOAD` (`main.cpp:479`) and its tables to be at their file
  offsets in it. `KernelLoaded` itself excuses what failed: nothing is said if the
  program headers were not read or were overwritten, nothing of the tables if a read
  of the kernel or of the section headers failed or the pool was empty. For what was
  read, `AddressesOf` has the addresses of a table, each of them in the part of the
  image that was.
* `HandoffIsComplete`: `Spec => []HandoffComplete`, in which a kernel without its
  bytes or its tables has a failed read on record, those of the two arrays of
  headers included; from `Segments` and from `Provided`, `Opened` and `Pages` of
  `LoaderInv`: what each stage has got or which failure is recorded, what is open at
  each stage, and that image and free pages together are never more than the
  machine's. `UninitialisedIsNoRecord` keeps the value left on the stack apart from
  a table.
* `ConstructorsAreInOrder`: `BootSpec => []ConstructorsInOrder`, for a kernel that
  was read with its headers, under the first two of these hypotheses, from
  `Segments` carried through the boot.
* `KernelIsAlone`: with `MaxGrowth <= 2`, `BootSpec => []KernelAlone`, from
  `MarginInv` of `ExitBootProofs` carried through the other steps of the boot.

For every configuration file and any number of failures and reruns:

* `UntroubledInstalls`: `Spec => []UntroubledRunInstalls` of the installer.
  `DoneSoFar` says what each finished step of the run has left for the later ones,
  `Extracted` that the run that builds has extracted both sources.
* `WholeSources`: `Spec => BuildsFromWholeSources`. `PatchState` follows the loop that
  patches `config.gcc`: after n lines of the original the list is those n patched
  and the rest as it was, though the list grows under the iterator (`InLoop`).
* `RedZones`: `Spec => []RedZoneOnlyIfStopped`, from `NrzState`: a run that is past an
  nrz file has it on the disk, and it is empty only if its writing was stopped.
* `TypesHold`: `Spec => []TypeOK`, from `DiskInv`, which joins these.

For any number of edits, runs, failures and interrupts of the build:

* `Invariance` and from it `TypeCorrect`, `UntroubledCurrent`, `StaleAfterAbort`
  and `DebugLostAfterAbort`. `IInv` has three parts beside the types: a run that
  ended has moved its files away (`MovedAway`), so what a run finds that does not
  follow an aborted one is new (`NewUnlessResumed`), and so is all that a run
  without failures has built (`NewUnlessTroubled`); nothing is newer than its
  sources (`NotNewer`).

Several of these are about recursive functions (`Decimal`, `Numeral`, `CTextFrom`,
`ConversionsFrom`) and about loops. The library's theorems for induction and for
recursive definitions take an operator as a parameter, which the provers do not
instantiate, so the proofs use that a set of numbers that is not empty
has a least one (`First`, from `WFMin`): a function that satisfies the equation
exists because there is no shortest part of the format for which there is
none (`TextsExist`, `ConversionsExist`, `DecimalsExist`), and with it the
definition's own equation holds (`CTextIs`, `ConversionsAre`).

Only model-checked: liveness, which the prover does not reach. That is `Terminates`
of `BhavaLoader`, `Kprintf` and `LoaderPrint`, and `RetryRecovers` of
`ToolchainInstall`. The three runs that find a violation are TLC's as well.

## 6. What is not modelled

`util/memcpy.h` is called by nothing. The CMake files and `run_qemu.sh` have no
behaviour of their own; the build option `CUSTOM_RESOLUTION` is a constant of
`BhavaLoader`. The unit tests that `build.py` can start belong to namelesslibc, a
submodule, as do `strtol`, `itoa` and the string functions the kernel calls:
they are modelled by what their callers rely on.

The gnuefi headers and OVMF are third party: the firmware is modelled by what the
loader uses of it. The headers under `Vendor/gnuefi` are declarations of
interfaces, constants and structures, without a statement to model, and make up
about nine tenths of the lines of the repository. The project's own code is some
1650 lines in `main.cpp`, `print.h`, `tty.cpp`, `kmain.cpp`, the two scripts
and a few headers; everything in it that has behaviour is modelled, and counted
against all lines of the repository that is still a small share.
