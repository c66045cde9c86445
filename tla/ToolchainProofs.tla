--------------------------- MODULE ToolchainProofs ---------------------------
(***************************************************************************)
(* Proofs about ToolchainInstall for every configuration file and any      *)
(* number of failures and reruns.                                          *)
(***************************************************************************)
EXTENDS ToolchainInstall, SequenceTheorems, WellFoundedInduction, TLAPS

\* The plan by the numbers of its steps.
LEMMA PlanSteps ==
  /\ Len(Plan) = 17
  /\ Plan[1] = Step("download", "gcc", "none")
  /\ Plan[2] = Step("extract", "gcc", "none")
  /\ Plan[3] = Step("download", "binutils", "none")
  /\ Plan[4] = Step("extract", "binutils", "none")
  /\ Plan[5] = Step("chdir", "none", "none")
  /\ Plan[6] = Step("configure", "binutils", Mingw)
  /\ Plan[7] = Step("make", "binutils", Mingw)
  /\ Plan[8] = Step("nrz", "gcc", Mingw)
  /\ Plan[9] = Step("nrz", "gcc", Elf)
  /\ Plan[10] = Step("patch", "gcc", "none")
  /\ Plan[11] = Step("write", "gcc", "none")
  /\ Plan[12] = Step("configure", "gcc", Mingw)
  /\ Plan[13] = Step("make", "gcc", Mingw)
  /\ Plan[14] = Step("configure", "binutils", Elf)
  /\ Plan[15] = Step("make", "binutils", Elf)
  /\ Plan[16] = Step("configure", "gcc", Elf)
  /\ Plan[17] = Step("make", "gcc", Elf)
  BY DEF Plan

\* Which steps an operation is, and for which tool and target.
LEMMA Operations ==
  /\ Doing("download") <=> step \in {1, 3}
  /\ Doing("extract") <=> step \in {2, 4}
  /\ Doing("chdir") <=> step = 5
  /\ Doing("configure") <=> step \in {6, 12, 14, 16}
  /\ Doing("make") <=> step \in {7, 13, 15, 17}
  /\ Doing("nrz") <=> step \in {8, 9}
  /\ Doing("patch") <=> step = 10
  /\ Doing("write") <=> step = 11
  /\ step \in {1, 2, 12, 13, 16, 17} => Tool = "gcc"
  /\ step \in {3, 4, 6, 7, 14, 15} => Tool = "binutils"
  /\ step \in {6, 7, 12, 13} => Target = Mingw
  /\ step \in {14, 15, 16, 17} => Target = Elf
<1>1. step \in 1 .. 17 <=>
        step \in {1, 2, 3, 4, 5, 6, 7, 8, 9, 10, 11, 12, 13, 14, 15, 16, 17}
  OBVIOUS
<1> QED
  BY <1>1, PlanSteps DEF Doing, Tool, Target, Step

-----------------------------------------------------------------------------
(* What the steps before have left for the next one *)

\* From the extraction on there are sources, whatever happens to them later.
Extracted ==
  /\ source \in [Tools -> {"none", "part", "whole"}]
  /\ step > 2 => source["gcc"] = "whole"
  /\ step > 4 => source["binutils"] = "whole"

\* A make finds the directory its configure has left, and what is installed
\* stays: in a run in which nothing failed by itself each step has done what
\* it was to do.
Configured(tool, target) == buildDir[<<tool, target>>] = "configured"
Has(tool, target) == Parts(tool) \X {target} \subseteq installed

DoneSoFar ==
  /\ step = 7 => Configured("binutils", Mingw)
  /\ step = 13 => Configured("gcc", Mingw)
  /\ step = 15 => Configured("binutils", Elf)
  /\ step = 17 => Configured("gcc", Elf)
  /\ step > 7 => Has("binutils", Mingw)
  /\ step > 13 => Has("gcc", Mingw)
  /\ step > 15 => Has("binutils", Elf)
  /\ step > 17 => Has("gcc", Elf)

IInv ==
  /\ step \in 0 .. 18
  /\ buildDir \in [Tools \X Targets -> {"none", "dir", "configured"}]
  /\ installed \subseteq {"gcc", "libgcc", "binutils"} \X Targets
  /\ troubled \in BOOLEAN
  /\ Extracted
  /\ ~ troubled => DoneSoFar

\* A run that has not begun has nothing to show.
LEMMA InitIInv == Init => IInv
<1> SUFFICES ASSUME Init PROVE IInv
  OBVIOUS
<1>1. step = 0 /\ troubled = FALSE /\ installed = {}
  BY DEF Init
<1>2. DoneSoFar
  BY <1>1 DEF DoneSoFar
<1>3. Extracted
  BY <1>1 DEF Extracted, Init
<1>4. buildDir \in [Tools \X Targets -> {"none", "dir", "configured"}]
  BY DEF Init
<1>5. step \in 0 .. 18 /\ installed \subseteq {"gcc", "libgcc", "binutils"} \X Targets
  BY <1>1
<1>6. troubled \in BOOLEAN
  BY <1>1, Zenon
<1> QED
  BY <1>2, <1>3, <1>4, <1>5, <1>6, Zenon DEF IInv

\* A step that stops, or that starts the script again, has nothing to show.
LEMMA AtTheStart ==
  ASSUME IInv, step' \in {0, 1}, troubled' = FALSE,
         source' \in [Tools -> {"none", "part", "whole"}],
         UNCHANGED <<buildDir, installed>>
  PROVE  IInv'
<1>1. /\ step' \in 0 .. 18 /\ ~ (step' > 2)
      /\ step' \notin {7, 13, 15, 17}
  OBVIOUS
<1>2. DoneSoFar'
  BY <1>1 DEF DoneSoFar
<1>3. Extracted'
  BY <1>1 DEF Extracted
<1>4. troubled' \in BOOLEAN
  BY Zenon
<1>5. UNCHANGED <<buildDir, installed, Targets, Tools>>
  BY DEF Targets, Tools
<1> QED
  BY <1>1, <1>2, <1>3, <1>4, <1>5, Zenon DEF IInv

\* A step that is neither an extraction, a configure nor a make.
LEMMA OtherSteps ==
  ASSUME IInv, step' = step \/ (step' = step + 1 /\ step \in {1, 3, 5, 8, 9, 10, 11}),
         UNCHANGED <<source, buildDir, installed, troubled>>
  PROVE  IInv'
  BY DEF IInv, Extracted, DoneSoFar, Configured, Has

\* Each step provides what the later ones of the same run need.
LEMMA ExtractStep ==
  ASSUME IInv, Extract
  PROVE  IInv'
<1>1. /\ step \in {2, 4} /\ step' = step + 1
      /\ step = 2 => Tool = "gcc"
      /\ step = 4 => Tool = "binutils"
      /\ source' = [source EXCEPT ![Tool] = "whole"]
      /\ UNCHANGED <<buildDir, installed, troubled>>
  BY Operations DEF Extract, Advance
<1> QED
  BY <1>1 DEF IInv, Extracted, DoneSoFar, Configured, Has, Tools

\* configure changes its own directory only.
LEMMA ConfigureStep ==
  ASSUME IInv, Configure \/ ConfigureFails
  PROVE  IInv'
<1>1. /\ step \in {6, 12, 14, 16} /\ step' = step + 1
      /\ UNCHANGED <<source, installed>>
  BY Operations DEF Configure, ConfigureFails, Advance
<1>2. /\ step \in {12, 16} => Tool = "gcc"
      /\ step \in {6, 14} => Tool = "binutils"
      /\ step \in {6, 12} => Target = Mingw
      /\ step \in {14, 16} => Target = Elf
  BY Operations
<1>3. <<Tool, Target>> \in Tools \X Targets
  BY <1>1, <1>2 DEF Tools, Targets
<1>4. CASE Configure
  <2>1. /\ buildDir' = [buildDir EXCEPT ![<<Tool, Target>>] = "configured"]
        /\ troubled' = troubled
    BY <1>4 DEF Configure, SetDir
  <2>2. buildDir'[<<Tool, Target>>] = "configured"
    BY <1>3, <2>1 DEF IInv
  <2> QED
    BY <1>1, <1>2, <1>3, <2>1, <2>2
    DEF IInv, Extracted, DoneSoFar, Configured, Has
<1>5. CASE ConfigureFails
  <2>1. /\ buildDir' \in {buildDir, [buildDir EXCEPT ![<<Tool, Target>>] = "dir"]}
        /\ troubled' = TRUE
    BY <1>5 DEF ConfigureFails, SetDir
  <2> QED
    BY <1>1, <2>1 DEF IInv, Extracted
<1> QED
  BY <1>4, <1>5

\* With nothing failed before it, a make finds its sources, its directory and
\* the binutils of its target.
LEMMA MakeFindsAll ==
  ASSUME IInv, Doing("make"), ~ troubled
  PROVE  Makeable
<1>1. step \in {7, 13, 15, 17}
  BY Operations
<1>2. /\ step \in {13, 17} => Tool = "gcc"
      /\ step \in {7, 15} => Tool = "binutils"
      /\ step \in {7, 13} => Target = Mingw
      /\ step \in {15, 17} => Target = Elf
  BY Operations
<1>3. Dir = "configured"
  BY <1>1, <1>2 DEF IInv, DoneSoFar, Configured, Dir
<1>4. source[Tool] # "none"
  BY <1>1, <1>2 DEF IInv, Extracted
<1>5. Tool = "gcc" => <<"binutils", Target>> \in installed
  BY <1>1, <1>2 DEF IInv, DoneSoFar, Has, Parts
<1> QED
  BY <1>3, <1>4, <1>5 DEF Makeable

\* make makes what it is configured for, or nothing.
LEMMA MakeStep ==
  ASSUME IInv, NEW done \in SUBSET Parts(Tool), MakeParts(done)
  PROVE  IInv'
<1>1. /\ step \in {7, 13, 15, 17} /\ step' = step + 1
      /\ installed' = installed \cup (done \X {Target})
      /\ troubled' = (troubled \/ (Makeable /\ done # Parts(Tool)))
      /\ UNCHANGED <<source, buildDir>>
  BY Operations DEF MakeParts, Advance
<1>2. /\ step \in {13, 17} => Tool = "gcc"
      /\ step \in {7, 15} => Tool = "binutils"
      /\ step \in {7, 13} => Target = Mingw
      /\ step \in {15, 17} => Target = Elf
  BY Operations
<1>3. done \subseteq {"gcc", "libgcc", "binutils"} /\ Target \in Targets
  BY <1>1, <1>2 DEF Parts, Targets
<1>4. ~ troubled' => /\ ~ troubled
                     /\ Parts(Tool) \X {Target} \subseteq installed'
  BY <1>1, MakeFindsAll DEF MakeParts, IInv
<1>5. ~ troubled' => DoneSoFar'
  BY <1>1, <1>2, <1>4 DEF IInv, DoneSoFar, Has
<1>6. installed' \subseteq {"gcc", "libgcc", "binutils"} \X Targets
  BY <1>1, <1>3 DEF IInv
<1>7. troubled' \in BOOLEAN
  BY <1>1 DEF IInv
<1> QED
  BY <1>1, <1>5, <1>6, <1>7 DEF IInv, Extracted

\* The invariant is kept by every step.
LEMMA NextIInv == IInv /\ [Next]_vars => IInv'
<1> SUFFICES ASSUME IInv, [Next]_vars PROVE IInv'
  OBVIOUS
<1>1. CASE Start \/ Interrupt
  BY <1>1, AtTheStart DEF Start, Interrupt, Stop, disk, IInv, Extracted
<1>2. CASE DownloadFails \/ WriteNrzStops \/ WriteConfigStops
  BY <1>2, AtTheStart DEF DownloadFails, WriteNrzStops, WriteConfigStops, Stop,
                          IInv, Extracted
<1>3. CASE ExtractFails
  <2>1. source' \in {source, [source EXCEPT ![Tool] = "part"]}
    BY <1>3 DEF ExtractFails
  <2>2. source' \in [Tools -> {"none", "part", "whole"}]
    BY <2>1 DEF IInv, Extracted
  <2> QED
    BY <1>3, <2>2, AtTheStart DEF ExtractFails, Stop
<1>4. CASE ChdirToRoot
  BY <1>4, AtTheStart, OtherSteps, Operations
  DEF ChdirToRoot, Advance, Stop, disk, IInv, Extracted
<1>5. CASE Download \/ WriteNrz
  BY <1>5, OtherSteps, Operations DEF Download, WriteNrz, Advance
<1>6. CASE ReadConfig \/ SkipLine \/ PatchLine \/ PatchEnds \/ WriteConfig
  BY <1>6, OtherSteps, Operations
  DEF ReadConfig, SkipLine, PatchLine, PatchEnds, WriteConfig, Advance, disk
<1>7. CASE Extract
  BY <1>7, ExtractStep
<1>8. CASE Configure \/ ConfigureFails
  BY <1>8, ConfigureStep
<1>9. CASE Make \/ MakeFails
  <2>1. PICK done \in SUBSET Parts(Tool) : MakeParts(done)
    BY <1>9 DEF Make, MakeFails
  <2> QED
    BY <2>1, MakeStep
<1>10. CASE UNCHANGED vars
  BY <1>10 DEF vars, disk, IInv, Extracted, DoneSoFar, Configured, Has
<1> QED
  BY <1>1, <1>2, <1>3, <1>4, <1>5, <1>6, <1>7, <1>8, <1>9, <1>10
  DEF Next, Succeeds, Fails

\* Although the script looks at no result, a run of it that gets to its end
\* has installed everything unless a command failed by itself: no step fails
\* for want of what an earlier one, or an earlier run, was to leave.
THEOREM UntroubledInstalls == Spec => []UntroubledRunInstalls
<1>1. IInv => UntroubledRunInstalls
  BY PlanSteps DEF IInv, DoneSoFar, Has, Parts, UntroubledRunInstalls,
                   AllInstalled, Targets
<1> QED
  BY <1>1, InitIInv, NextIInv, PTL DEF Spec

-----------------------------------------------------------------------------
(* config.gcc, line by line *)

\* A set of numbers that is not empty has a first one.
LEMMA First ==
  ASSUME NEW T \in SUBSET Nat, T # {}
  PROVE  \E n \in T : \A k \in T : n <= k
<1> DEFINE R == OpToRel(<, Nat)
<1>1. \E n \in T : \A k \in T : <<k, n>> \notin R
  BY WFMin, NatLessThanWellFounded
<1>2. \A k, n \in Nat : <<k, n>> \in R <=> k < n
  BY DEF OpToRel
<1> HIDE DEF R
<1>3. PICK n \in T : \A k \in T : <<k, n>> \notin R
  BY <1>1
<1>4. ASSUME NEW k \in T PROVE n <= k
  <2>1. n \in Nat /\ k \in Nat /\ <<k, n>> \notin R
    BY <1>3
  <2>2. ~ (k < n)
    BY <1>2, <2>1
  <2> QED
    BY <2>1, <2>2
<1> QED
  BY <1>3, <1>4

N == Len(Original)

\* What becomes of a line.
Block(n) ==
  IF Original[n].target = "none" THEN <<Original[n]>>
  ELSE <<Original[n], Tmake(Original[n].target)>>

\* The first n lines patched, by recursion.
Patched[n \in 0 .. N] ==
  IF n = 0 THEN <<>> ELSE Patched[n - 1] \o Block(n)

\* The recursion defines a function: by the first k for which none exists.
LEMMA PatchedExists ==
  Patched = [n \in 0 .. N |-> IF n = 0 THEN <<>> ELSE Patched[n - 1] \o Block(n)]
<1> DEFINE UpTo(g, k) ==
      g = [n \in 0 .. k |-> IF n = 0 THEN <<>> ELSE g[n - 1] \o Block(n)]
           Bad == {k \in 0 .. N : \A g : ~ UpTo(g, k)}
<1>1. N \in Nat
  BY ToolchainAssumption DEF N
<1>2. Bad = {}
  <2> SUFFICES ASSUME Bad # {} PROVE FALSE
    OBVIOUS
  <2>1. PICK b \in Bad : \A k \in Bad : b <= k
    <3>1. Bad \in SUBSET Nat
      OBVIOUS
    <3> HIDE DEF Bad
    <3> QED BY <3>1, First
  <2>2. b # 0
    <3>1. UpTo([n \in 0 .. 0 |-> <<>>], 0)
      OBVIOUS
    <3> QED BY <3>1
  <2>3. PICK g : UpTo(g, b - 1)
    <3>1. b - 1 \in 0 .. N /\ ~ (b <= b - 1)
      BY <1>1, <2>2
    <3> HIDE DEF UpTo
    <3> QED
      BY <2>1, <3>1
  <2> DEFINE h == [n \in 0 .. b |-> IF n = b THEN g[b - 1] \o Block(b) ELSE g[n]]
  <2>4. UpTo(h, b)
    <3>1. ASSUME NEW n \in 0 .. b
          PROVE  h[n] = IF n = 0 THEN <<>> ELSE h[n - 1] \o Block(n)
      <4>1. CASE n = b
        <5>1. b - 1 \in 0 .. b /\ b - 1 # b /\ b \in 0 .. b
          BY <1>1, <2>2
        <5>2. h[b - 1] = g[b - 1] /\ h[b] = g[b - 1] \o Block(b)
          BY <5>1
        <5> QED BY <4>1, <5>2, <2>2
      <4>2. CASE n # b
        <5>1. n \in 0 .. b - 1
          BY <4>2, <1>1
        <5>2. g[n] = IF n = 0 THEN <<>> ELSE g[n - 1] \o Block(n)
          BY <2>3, <5>1
        <5> QED BY <5>1, <5>2, <1>1
      <4> QED BY <4>1, <4>2
    <3> QED BY <3>1
  <2> QED
    BY <2>4
<1>3. \E g : UpTo(g, N)
  <2>1. N \in 0 .. N
    BY <1>1
  <2> HIDE DEF UpTo
  <2> QED
    BY <1>2, <2>1
<1> QED
  BY <1>3 DEF Patched

\* The lines of config.gcc and what becomes of each.
LEMMA OriginalLines ==
  /\ N \in Nat \ {0}
  /\ \A n \in 1 .. N : Original[n] \in Lines
  /\ \A n \in 1 .. N : Block(n) \in Seq(Lines)
  /\ \A n \in 1 .. N : Len(Block(n)) = IF Original[n].target = "none" THEN 1 ELSE 2
<1>1. Original \in Seq(Lines) /\ Original # <<>>
  BY ToolchainAssumption
<1>2. N \in Nat \ {0}
  BY <1>1 DEF N
<1>3. ASSUME NEW n \in 1 .. N PROVE Original[n] \in Lines
  BY <1>1, ElementOfSeq DEF N
<1>4. \A t : Tmake(t) \in Lines
  BY DEF Tmake, Lines
<1>5. ASSUME NEW n \in 1 .. N PROVE Block(n) \in Seq(Lines)
  BY <1>3, <1>4 DEF Block
<1>6. ASSUME NEW n \in 1 .. N PROVE Len(Block(n)) = IF Original[n].target = "none" THEN 1 ELSE 2
  BY <1>3, <1>4 DEF Block
<1> QED
  BY <1>2, <1>3, <1>5, <1>6

\* The equations of the recursion, with the predecessor and the successor.
LEMMA PatchedFacts ==
  /\ Patched[0] = <<>>
  /\ \A n \in 1 .. N : Patched[n] = Patched[n - 1] \o Block(n)
  /\ \A n \in 0 .. N - 1 : Patched[n + 1] = Patched[n] \o Block(n + 1)
<1>1. N \in Nat
  BY OriginalLines
<1>2. Patched[0] = <<>>
  BY <1>1, PatchedExists
<1>3. ASSUME NEW n \in 1 .. N PROVE Patched[n] = Patched[n - 1] \o Block(n)
  <2>1. n \in 0 .. N /\ n # 0
    BY <1>1
  <2> QED BY <2>1, PatchedExists
<1>4. ASSUME NEW n \in 0 .. N - 1 PROVE Patched[n + 1] = Patched[n] \o Block(n + 1)
  <2> DEFINE m == n + 1
  <2>1. m \in 1 .. N /\ m - 1 = n
    BY <1>1
  <2>2. Patched[m] = Patched[m - 1] \o Block(m)
    <3> HIDE DEF m
    <3> QED BY <2>1, <1>3
  <2> QED BY <2>1, <2>2, Zenon
<1> QED
  BY <1>2, <1>3, <1>4

\* The lines that match a pattern are those of Original, in the part so far.
PatchedUpTo(n) ==
  /\ Patched[n] \in Seq(Lines)
  /\ \A k \in 1 .. Len(Patched[n]) :
       Patched[n][k].target # "none" =>
         \E m \in 1 .. n : Patched[n][k] = Original[m]

\* This is so of every part: by the first n for which it would not be.
LEMMA PatchedTypes == \A n \in 0 .. N : PatchedUpTo(n)
<1> DEFINE Bad == {n \in 0 .. N : ~ PatchedUpTo(n)}
<1>1. N \in Nat
  BY OriginalLines
<1>2. Bad = {}
  <2> SUFFICES ASSUME Bad # {} PROVE FALSE
    OBVIOUS
  <2>1. PICK b \in Bad : \A k \in Bad : b <= k
    <3>1. Bad \in SUBSET Nat
      OBVIOUS
    <3> HIDE DEF Bad
    <3> QED BY <3>1, First
  <2>2. PatchedUpTo(0)
    BY PatchedFacts, EmptySeq DEF PatchedUpTo
  <2>3. b \in 1 .. N
    BY <1>1, <2>1, <2>2
  <2>4. PatchedUpTo(b - 1)
    <3>1. b - 1 \in 0 .. N /\ ~ (b <= b - 1)
      BY <1>1, <2>3
    <3> QED
      BY <2>1, <3>1
  <2> DEFINE p == Patched[b - 1]
             bl == Block(b)
  <2>5. Patched[b] = p \o bl /\ p \in Seq(Lines) /\ bl \in Seq(Lines)
    BY <2>3, <2>4, PatchedFacts, OriginalLines DEF PatchedUpTo
  <2>6. /\ p \o bl \in Seq(Lines)
        /\ Len(p \o bl) = Len(p) + Len(bl)
        /\ \A k \in 1 .. Len(p) + Len(bl) :
             (p \o bl)[k] = IF k <= Len(p) THEN p[k] ELSE bl[k - Len(p)]
    <3> HIDE DEF p, bl
    <3> QED
      BY <2>5, ConcatProperties
  <2>7. \A k \in 1 .. Len(bl) : bl[k].target # "none" => bl[k] = Original[b]
    BY OriginalLines, <2>3 DEF Block, Tmake
  <2>8. \A k \in 1 .. Len(p) : p[k].target # "none" => \E m \in 1 .. b - 1 : p[k] = Original[m]
    BY <2>4 DEF PatchedUpTo
  <2>9. Len(p) \in Nat /\ Len(bl) \in Nat
    <3> HIDE DEF p, bl
    <3> QED BY <2>5, LenProperties
  <2>10. ASSUME NEW k \in 1 .. Len(Patched[b]), Patched[b][k].target # "none"
         PROVE  \E m \in 1 .. b : Patched[b][k] = Original[m]
    <3> HIDE DEF p, bl
    <3>1. k \in 1 .. Len(p) + Len(bl)
      BY <2>5, <2>6, <2>10
    <3>2. CASE k <= Len(p)
      <4>1. k \in 1 .. Len(p) /\ Patched[b][k] = p[k]
        BY <2>5, <2>6, <2>9, <3>1, <3>2
      <4>2. PICK m \in 1 .. b - 1 : p[k] = Original[m]
        BY <4>1, <2>8, <2>10
      <4>3. m \in 1 .. b
        BY <2>3, <1>1
      <4> QED BY <4>1, <4>2, <4>3
    <3>3. CASE ~ (k <= Len(p))
      <4>1. k - Len(p) \in 1 .. Len(bl) /\ Patched[b][k] = bl[k - Len(p)]
        BY <2>5, <2>6, <2>9, <3>1, <3>3
      <4>2. b \in 1 .. b
        BY <2>3, <1>1
      <4> QED BY <4>1, <4>2, <2>7, <2>10
    <3> QED BY <3>2, <3>3
  <2>11. PatchedUpTo(b)
    BY <2>5, <2>6, <2>10 DEF PatchedUpTo
  <2> QED BY <2>11
<1> QED BY <1>2

\* All lines patched are config.gcc as it should be: the two recursions, of
\* Patched and of FlattenSeq, do not differ at a first place.
LEMMA PatchedConfigIs == PatchedConfig = Patched[N]
<1> DEFINE blocks == [n \in DOMAIN Original |-> Block(n)]
<1>1. N \in Nat \ {0} /\ DOMAIN Original = 1 .. N
  BY OriginalLines, ToolchainAssumption DEF N
<1>2. Len(blocks) = N
  BY <1>1
<1>3. PatchedConfig = FlattenSeq(blocks)
  BY DEF PatchedConfig, Block
<1> DEFINE Flat(f) == f = [i \in 1 .. Len(blocks) |->
                      IF i = 1 THEN blocks[i] ELSE f[i - 1] \o blocks[i]]
           flatten == CHOOSE f : Flat(f)
<1>4. FlattenSeq(blocks) = flatten[N]
  <2> HIDE DEF blocks
  <2> QED BY <1>1, <1>2 DEF FlattenSeq
<1> DEFINE g == [i \in 1 .. N |-> Patched[i]]
<1>5. Flat(g)
  <2>1. ASSUME NEW i \in 1 .. N
        PROVE g[i] = IF i = 1 THEN blocks[i] ELSE g[i - 1] \o blocks[i]
    <3>1. Patched[i] = Patched[i - 1] \o blocks[i]
      BY <1>1, <2>1, PatchedFacts
    <3>2. CASE i = 1
      <4>1. blocks[1] \in Seq(Lines)
        BY <1>1, <3>2, OriginalLines
      <4>2. <<>> \o blocks[1] = blocks[1]
        <5> HIDE DEF blocks
        <5> QED BY <4>1, ConcatEmptySeq
      <4>3. Patched[1] = blocks[1]
        <5>1. 1 \in 1 .. N
          BY <1>1
        <5>2. Patched[1] = Patched[0] \o Block(1)
          <6>1. 0 \in 0 .. N - 1 /\ 0 + 1 = 1
            BY <1>1
          <6> QED BY <6>1, PatchedFacts, Zenon
        <5>3. blocks[1] = Block(1)
          BY <1>1, <5>1
        <5> HIDE DEF blocks
        <5> QED BY <4>2, <5>2, <5>3, PatchedFacts
      <4>4. g[1] = Patched[1]
        BY <1>1
      <4> HIDE DEF g, blocks
      <4> QED BY <3>2, <4>3, <4>4
    <3>3. CASE i # 1
      <4>1. i - 1 \in 1 .. N
        BY <1>1, <3>3
      <4> QED BY <3>1, <3>3, <4>1
    <3> QED BY <3>2, <3>3
  <2> HIDE DEF blocks
  <2> QED BY <2>1, <1>2
<1>6. Flat(flatten)
  <2> HIDE DEF Flat
  <2> QED BY <1>5
<1> DEFINE Bad == {i \in 1 .. N : flatten[i] # Patched[i]}
<1>7. Bad = {}
  <2> SUFFICES ASSUME Bad # {} PROVE FALSE
    OBVIOUS
  <2> HIDE DEF flatten
  <2>1. PICK b \in Bad : \A k \in Bad : b <= k
    <3>1. Bad \in SUBSET Nat
      OBVIOUS
    <3> HIDE DEF Bad
    <3> QED BY <3>1, First
  <2>2. b \in 1 .. N /\ flatten[b] # Patched[b]
    BY <2>1
  <2>3. flatten[b] = IF b = 1 THEN blocks[b] ELSE flatten[b - 1] \o blocks[b]
    <3> HIDE DEF blocks
    <3> QED BY <1>2, <1>6, <2>2
  <2>4. g[b] = IF b = 1 THEN blocks[b] ELSE g[b - 1] \o blocks[b]
    <3> HIDE DEF blocks, g
    <3> QED BY <1>2, <1>5, <2>2
  <2>5. CASE b = 1
    BY <2>2, <2>3, <2>4, <2>5
  <2>6. CASE b # 1
    <3>1. b - 1 \in 1 .. N /\ ~ (b <= b - 1)
      BY <1>1, <2>2, <2>6
    <3>2. flatten[b - 1] = Patched[b - 1]
      BY <3>1, <2>1
    <3>3. g[b - 1] = Patched[b - 1] /\ g[b] = Patched[b]
      BY <3>1, <2>2
    <3> HIDE DEF g, blocks
    <3> QED BY <2>2, <2>3, <2>4, <2>6, <3>2, <3>3
  <2> QED BY <2>5, <2>6
<1>8. flatten[N] = Patched[N]
  <2> HIDE DEF flatten
  <2> QED BY <1>1, <1>7
<1> QED BY <1>3, <1>4, <1>8

\* The lines that are not patched yet.
Rest(n) == SubSeq(Original, n + 1, N)

\* What is left begins with the next line.
LEMMA RestFacts ==
  ASSUME NEW n \in 0 .. N
  PROVE  /\ Rest(n) \in Seq(Lines) /\ Len(Rest(n)) = N - n
         /\ n < N => Rest(n) = <<Original[n + 1]>> \o Rest(n + 1)
<1>1. Original \in Seq(Lines) /\ N \in Nat /\ Len(Original) = N
  BY ToolchainAssumption, OriginalLines DEF N
<1>2. \A i \in n + 1 .. N : Original[i] \in Lines
  BY OriginalLines
<1>3. /\ SubSeq(Original, n + 1, N) \in Seq(Lines)
      /\ Len(SubSeq(Original, n + 1, N)) = IF n + 1 <= N THEN N - (n + 1) + 1 ELSE 0
  BY <1>1, <1>2, SubSeqProperties
<1>4. ASSUME n < N
      PROVE  Rest(n) = <<Original[n + 1]>> \o Rest(n + 1)
  <2>1. n + 1 \in 1 .. Len(Original) /\ N \in n + 1 .. Len(Original)
    BY <1>1, <1>4
  <2>2. SubSeq(Original, n + 1, N) = <<Original[n + 1]>> \o SubSeq(Original, n + 1 + 1, N)
    BY <1>1, <2>1, SubSeqRecursiveFirst
  <2> QED
    BY <2>2 DEF Rest
<1> QED
  BY <1>1, <1>3, <1>4 DEF Rest

\* The line the loop comes to is the next one of Original.
LEMMA NextLine ==
  ASSUME NEW n \in 0 .. N - 1
  PROVE  /\ (Patched[n] \o Rest(n)) \in Seq(Lines)
         /\ Len(Patched[n]) \in Nat
         /\ Len(Patched[n] \o Rest(n)) = Len(Patched[n]) + N - n
         /\ (Patched[n] \o Rest(n))[Len(Patched[n]) + 1] = Original[n + 1]
         /\ \A k \in 1 .. Len(Patched[n]) : (Patched[n] \o Rest(n))[k] = Patched[n][k]
<1>1. N \in Nat /\ n \in 0 .. N /\ n < N
  BY OriginalLines
<1>2. Patched[n] \in Seq(Lines) /\ Len(Patched[n]) \in Nat
  BY <1>1, PatchedTypes, LenProperties DEF PatchedUpTo
<1>3. Rest(n) \in Seq(Lines) /\ Len(Rest(n)) = N - n
  BY <1>1, RestFacts
<1>4. /\ (Patched[n] \o Rest(n)) \in Seq(Lines)
      /\ Len(Patched[n] \o Rest(n)) = Len(Patched[n]) + Len(Rest(n))
      /\ \A i \in 1 .. Len(Patched[n]) + Len(Rest(n)) : (Patched[n] \o Rest(n))[i] =
              IF i <= Len(Patched[n]) THEN Patched[n][i] ELSE Rest(n)[i - Len(Patched[n])]
  BY <1>2, <1>3, ConcatProperties
<1>5. Rest(n)[1] = Original[n + 1]
  <2>1. \A i \in n + 1 .. N : Original[i] \in Lines
    BY OriginalLines
  <2>2. \A i \in 1 .. N - (n + 1) + 1 :
           SubSeq(Original, n + 1, N)[i] = Original[n + 1 + i - 1]
    BY <1>1, <2>1, SubSeqProperties
  <2>3. 1 \in 1 .. N - (n + 1) + 1 /\ n + 1 + 1 - 1 = n + 1
    BY <1>1
  <2>4. SubSeq(Original, n + 1, N)[1] = Original[n + 1 + 1 - 1]
    BY <2>2, <2>3, Zenon
  <2> QED
    BY <2>3, <2>4, Zenon DEF Rest
<1>6. /\ Len(Patched[n]) + 1 \in 1 .. Len(Patched[n]) + Len(Rest(n))
      /\ ~ (Len(Patched[n]) + 1 <= Len(Patched[n]))
      /\ Len(Patched[n]) + 1 - Len(Patched[n]) = 1
  BY <1>1, <1>2, <1>3
<1>7. (Patched[n] \o Rest(n))[Len(Patched[n]) + 1] = Original[n + 1]
  <2> DEFINE pos == Len(Patched[n]) + 1
             all == Patched[n] \o Rest(n)
  <2>1. /\ pos \in 1 .. Len(Patched[n]) + Len(Rest(n))
        /\ ~ (pos <= Len(Patched[n])) /\ pos - Len(Patched[n]) = 1
    BY <1>6
  <2>2. all[pos] = IF pos <= Len(Patched[n]) THEN Patched[n][pos]
                   ELSE Rest(n)[pos - Len(Patched[n])]
    <3> HIDE DEF pos
    <3> QED BY <1>4, <2>1
  <2> HIDE DEF pos, all
  <2>3. all[pos] = Rest(n)[1]
    BY <2>1, <2>2
  <2> QED BY <1>5, <2>3 DEF pos, all
<1>8. ASSUME NEW k \in 1 .. Len(Patched[n])
      PROVE  (Patched[n] \o Rest(n))[k] = Patched[n][k]
  BY <1>1, <1>2, <1>3, <1>4
<1> QED
  BY <1>1, <1>2, <1>3, <1>4, <1>7, <1>8

\* A line without a pattern goes from the rest to the part that is patched.
LEMMA SkippedLine ==
  ASSUME NEW n \in 0 .. N - 1, Original[n + 1].target = "none"
  PROVE  /\ Patched[n + 1] \o Rest(n + 1) = Patched[n] \o Rest(n)
         /\ Len(Patched[n + 1]) = Len(Patched[n]) + 1
<1> DEFINE p == Patched[n]
           o == Original[n + 1]
           r == Rest(n + 1)
<1>1. N \in Nat /\ n \in 0 .. N /\ n < N /\ n + 1 \in 1 .. N /\ n + 1 \in 0 .. N
  BY OriginalLines
<1>2. Patched[n + 1] = p \o <<o>>
  BY PatchedFacts, Zenon DEF Block
<1>3. p \in Seq(Lines) /\ r \in Seq(Lines) /\ o \in Lines
  BY <1>1, PatchedTypes, RestFacts, OriginalLines DEF PatchedUpTo
<1>4. Rest(n) = <<o>> \o r
  BY <1>1, RestFacts
<1> HIDE DEF p, o, r
<1>5. <<o>> \in Seq(Lines) /\ Len(<<o>>) = 1
  BY <1>3
<1>6. (p \o <<o>>) \o r = p \o (<<o>> \o r) /\ Len(p \o <<o>>) = Len(p) + Len(<<o>>)
  BY <1>3, <1>5, ConcatAssociative, ConcatProperties
<1> QED
  BY <1>2, <1>4, <1>5, <1>6 DEF p, o, r

\* What InsertAt does, with the definition's own parentheses.
LEMMA Inserted ==
  \A s, i, e :
    InsertAt(s, i, e) = (SubSeq(s, 1, i - 1) \o <<e>>) \o SubSeq(s, i, Len(s))
  BY DEF InsertAt

\* To insert the tmake line behind a line that matches patches that line.
LEMMA PatchedLine ==
  ASSUME NEW n \in 0 .. N - 1, Original[n + 1].target # "none"
  PROVE  /\ InsertAt(Patched[n] \o Rest(n), Len(Patched[n]) + 2,
                     Tmake(Original[n + 1].target)) = Patched[n + 1] \o Rest(n + 1)
         /\ Len(Patched[n + 1]) = Len(Patched[n]) + 2
<1> DEFINE p == Patched[n]
           line == Original[n + 1]
           t == Tmake(line.target)
           r == Rest(n + 1)
           all == p \o Rest(n)
<1>1. N \in Nat /\ n \in 0 .. N /\ n < N /\ n + 1 \in 1 .. N /\ n + 1 \in 0 .. N
  BY OriginalLines
<1>3. Patched[n + 1] = Patched[n] \o Block(n + 1)
  BY PatchedFacts, Zenon
<1>4. Patched[n + 1] = p \o <<line, t>>
  BY <1>3, Zenon DEF Block
<1>5. /\ p \in Seq(Lines) /\ r \in Seq(Lines) /\ line \in Lines /\ t \in Lines
      /\ Len(r) = N - (n + 1)
  BY <1>1, PatchedTypes, RestFacts, OriginalLines DEF PatchedUpTo, Tmake, Lines
<1>6. all = p \o (<<line>> \o r)
  BY <1>1, RestFacts
<1> HIDE DEF p, line, t, r
<1>7. Len(p) \in Nat /\ Len(r) \in Nat
  BY <1>5, LenProperties
<1>8. <<line>> \in Seq(Lines) /\ <<t>> \in Seq(Lines) /\ <<line, t>> \in Seq(Lines)
      /\ Len(<<line>>) = 1 /\ Len(<<line, t>>) = 2 /\ <<line, t>> = <<line>> \o <<t>>
  <2>1. <<line, t>> \in Seq(Lines) /\ Len(<<line, t>>) = 2
    BY <1>5
  <2>2. <<line>> \in Seq(Lines) /\ <<t>> \in Seq(Lines)
        /\ Len(<<line>>) = 1 /\ Len(<<t>>) = 1
    BY <1>5
  <2>3. /\ <<line>> \o <<t>> \in Seq(Lines) /\ Len(<<line>> \o <<t>>) = 2
        /\ \A k \in 1 .. 2 : (<<line>> \o <<t>>)[k] = <<line, t>>[k]
    BY <2>2, ConcatProperties
  <2>4. <<line, t>> = <<line>> \o <<t>>
    BY <2>1, <2>3, SeqEqual
  <2> QED BY <2>1, <2>2, <2>4
<1>9. all = (p \o <<line>>) \o r
  BY <1>5, <1>6, <1>8, ConcatAssociative
<1> DEFINE po == p \o <<line>>
<1>10. po \in Seq(Lines) /\ Len(po) = Len(p) + 1
  BY <1>5, <1>8, ConcatProperties
<1> HIDE DEF po, all
<1>11. all = po \o r
  BY <1>9 DEF po
<1>12. Len(all) = Len(po) + Len(r) /\ all \in Seq(Lines)
  BY <1>5, <1>10, <1>11, ConcatProperties
<1>13. SubSeq(all, 1, Len(po)) = po
  <2>1. 1 \in 1 .. Len(po) /\ Len(po) \in 1 .. Len(po)
    BY <1>7, <1>10
  <2>2. SubSeq(po \o r, 1, Len(po)) = SubSeq(po, 1, Len(po))
    BY <1>5, <1>10, <2>1, SubSeqOfConcat1
  <2>3. SubSeq(po, 1, Len(po)) = po
    BY <1>10, SubSeqFull
  <2> QED BY <1>11, <2>2, <2>3
<1>14. SubSeq(all, Len(po) + 1, Len(all)) = r
  <2>1. CASE Len(r) = 0
    <3>1. r = <<>>
      BY <1>5, <2>1, EmptySeq
    <3>2. Len(all) \in Int /\ Len(po) + 1 \in Int /\ Len(all) < Len(po) + 1
      BY <1>7, <1>10, <1>12, <2>1
    <3> QED
      BY <3>1, <3>2, SubSeqEmpty
  <2>2. CASE Len(r) # 0
    <3>1. /\ Len(po) + 1 \in Len(po) + 1 .. Len(po) + Len(r)
          /\ Len(all) \in Len(po) + 1 .. Len(po) + Len(r)
          /\ Len(po) + 1 - Len(po) = 1 /\ Len(all) - Len(po) = Len(r)
      BY <1>7, <1>10, <1>12, <2>2
    <3>2. SubSeq(po \o r, Len(po) + 1, Len(all))
            = SubSeq(r, Len(po) + 1 - Len(po), Len(all) - Len(po))
      BY <1>5, <1>10, <3>1, SubSeqOfConcat2
    <3>3. SubSeq(r, 1, Len(r)) = r
      BY <1>5, SubSeqFull
    <3> QED
      BY <1>11, <3>1, <3>2, <3>3, Zenon
  <2> QED BY <2>1, <2>2
<1>15. (Len(p) + 2) - 1 = Len(po) /\ Len(p) + 2 = Len(po) + 1
  BY <1>7, <1>10
<1>16. InsertAt(all, Len(p) + 2, t) = (po \o <<t>>) \o r
  <2>1. SubSeq(all, 1, (Len(p) + 2) - 1) = po /\ SubSeq(all, Len(p) + 2, Len(all)) = r
    BY <1>13, <1>14, <1>15, Zenon
  <2>2. InsertAt(all, Len(p) + 2, t)
          = (SubSeq(all, 1, (Len(p) + 2) - 1) \o <<t>>) \o SubSeq(all, Len(p) + 2, Len(all))
    BY Inserted, Zenon
  <2> QED
    BY <2>1, <2>2, Zenon
<1>17. po \o <<t>> = p \o <<line, t>>
  BY <1>5, <1>8, ConcatAssociative DEF po
<1>18. InsertAt(all, Len(p) + 2, t) = Patched[n + 1] \o r
  BY <1>4, <1>16, <1>17 DEF p, line, t
<1>19. Len(Patched[n + 1]) = Len(p) + 2
  <2>1. Len(p \o <<line, t>>) = Len(p) + Len(<<line, t>>)
    BY <1>5, <1>8, ConcatProperties
  <2> QED BY <1>4, <1>8, <2>1 DEF p, line, t
<1> QED
  BY <1>18, <1>19 DEF p, line, t, r, all

-----------------------------------------------------------------------------
(* Where the script is in config.gcc *)

\* The loop has patched the first n lines and has the others before it.
InLoop(n) == /\ file_lines = Patched[n] \o Rest(n)
             /\ file_iter = Len(Patched[n])

PatchState ==
  /\ config \in {<<>>, Original, PatchedConfig}
  /\ step \in 3 .. 11 => config = Original
  /\ step > 11 => config = PatchedConfig
  /\ \/ file_lines = <<>> /\ file_iter = 0 /\ step # 11
     \/ step = 10 /\ \E n \in 0 .. N : InLoop(n)
     \/ step = 11 /\ InLoop(N)

\* Once a target's nrz file had its turn in this run, it exists.
NrzState ==
  /\ nrz \in [Targets -> {"none", "empty", "whole"}]
  /\ redZone \subseteq Targets
  /\ step > 8 => nrz[Mingw] # "none"
  /\ step > 9 => nrz[Elf] # "none"
  /\ RedZoneOnlyIfStopped

DiskInv ==
  /\ archive \in [Tools -> {"none", "part", "whole"}]
  /\ path \in {"absolute", "relative"}
  /\ failures \in 0 .. MaxFailures
  /\ IInv
  /\ PatchState
  /\ NrzState

\* The ends of the loop: nothing is patched, and everything.
LEMMA LoopEnds ==
  /\ Patched[0] \o Rest(0) = Original /\ Len(Patched[0]) = 0
  /\ Patched[N] \o Rest(N) = PatchedConfig
  /\ PatchedConfig \in Seq(Lines)
<1>1. Original \in Seq(Lines) /\ N \in Nat /\ Len(Original) = N
  BY ToolchainAssumption, OriginalLines DEF N
<1>2. Rest(0) = Original
  <2>1. SubSeq(Original, 1, Len(Original)) = Original
    BY <1>1, SubSeqFull
  <2> QED BY <1>1, <2>1 DEF Rest
<1>3. Patched[0] = <<>> /\ Len(Patched[0]) = 0
  BY PatchedFacts
<1>4. <<>> \o Original = Original
  BY <1>1, ConcatEmptySeq
<1>5. Patched[N] \in Seq(Lines)
  BY <1>1, PatchedTypes DEF PatchedUpTo
<1>6. Rest(N) = <<>>
  BY <1>1, SubSeqEmpty DEF Rest
<1>7. Patched[N] \o <<>> = Patched[N]
  BY <1>5, ConcatEmptySeq
<1> QED
  BY <1>2, <1>3, <1>4, <1>5, <1>6, <1>7, PatchedConfigIs

\* The loop is at an end of the list only when no line is left.
LEMMA LoopLengths ==
  ASSUME NEW n \in 0 .. N
  PROVE  /\ (Patched[n] \o Rest(n)) \in Seq(Lines)
         /\ Len(Patched[n]) \in Nat
         /\ Len(Patched[n] \o Rest(n)) = Len(Patched[n]) + (N - n)
         /\ Patched[n] \o Rest(n) # <<>>
<1>1. N \in Nat \ {0}
  BY OriginalLines
<1>2. Patched[n] \in Seq(Lines) /\ Len(Patched[n]) \in Nat
  BY PatchedTypes, LenProperties DEF PatchedUpTo
<1>3. Rest(n) \in Seq(Lines) /\ Len(Rest(n)) = N - n
  BY RestFacts
<1>4. /\ (Patched[n] \o Rest(n)) \in Seq(Lines)
      /\ Len(Patched[n] \o Rest(n)) = Len(Patched[n]) + Len(Rest(n))
  BY <1>2, <1>3, ConcatProperties
<1>5. n = N => Patched[n] # <<>>
  <2> SUFFICES ASSUME n = N PROVE Patched[N] # <<>>
    OBVIOUS
  <2>1. Patched[N] = Patched[N - 1] \o Block(N) /\ N - 1 \in 0 .. N /\ N \in 1 .. N
    BY <1>1, PatchedFacts
  <2>2. Patched[N - 1] \in Seq(Lines) /\ Block(N) \in Seq(Lines) /\ Len(Block(N)) > 0
    <3>1. Patched[N - 1] \in Seq(Lines)
      BY <2>1, PatchedTypes, Zenon DEF PatchedUpTo
    <3>2. Block(N) \in Seq(Lines)
      BY <2>1, OriginalLines
    <3>3. Len(Block(N)) > 0
      BY <2>1, OriginalLines
    <3> QED BY <3>1, <3>2, <3>3
  <2>3. Len(Patched[N]) = Len(Patched[N - 1]) + Len(Block(N))
    BY <2>1, <2>2, ConcatProperties
  <2>4. Len(Patched[N]) > 0
    BY <2>2, <2>3, LenProperties
  <2> QED
    BY <2>4
<1>6. Patched[n] \o Rest(n) # <<>>
  <2>1. Len(Patched[n] \o Rest(n)) > 0
    <3>1. CASE n = N
      <4>1. Len(Patched[n]) # 0
        BY <1>2, <1>5, <3>1, EmptySeq
      <4> QED BY <1>2, <1>3, <1>4, <4>1
    <3>2. CASE n # N
      BY <1>1, <1>2, <1>3, <1>4, <3>2
    <3> QED BY <3>1, <3>2
  <2> QED BY <2>1
<1> QED
  BY <1>2, <1>3, <1>4, <1>6

\* The loop finds the line it is at where it is: an equal line before it would
\* be an equal line of Original.
LEMMA LineFound ==
  ASSUME NEW n \in 0 .. N - 1, InLoop(n), Line.target # "none"
  PROVE  (CHOOSE m \in DOMAIN file_lines :
            /\ file_lines[m] = Line
            /\ \A k \in 1 .. m - 1 : file_lines[k] # Line)
         = Len(Patched[n]) + 1
<1> DEFINE at == Len(Patched[n]) + 1
           Found(m) == /\ file_lines[m] = Line
                       /\ \A k \in 1 .. m - 1 : file_lines[k] # Line
<1>1. N \in Nat /\ n \in 0 .. N /\ n + 1 \in 1 .. N /\ Len(Patched[n]) \in Nat
  BY OriginalLines, NextLine
<1>2. Line = Original[n + 1] /\ Line = file_lines[at]
  BY NextLine DEF InLoop, Line
<1>3. at \in DOMAIN file_lines
  <2>1. file_lines \in Seq(Lines) /\ Len(file_lines) = Len(Patched[n]) + N - n
    BY NextLine DEF InLoop
  <2> QED
    BY <1>1, <2>1
<1>4. ASSUME NEW k \in 1 .. Len(Patched[n]) PROVE file_lines[k] # Line
  <2> SUFFICES ASSUME Patched[n][k] = Original[n + 1] PROVE FALSE
    BY <1>2, NextLine DEF InLoop
  <2>1. Patched[n][k].target # "none"
    BY <1>2
  <2>2. PICK m \in 1 .. n : Patched[n][k] = Original[m]
    BY <1>1, <2>1, PatchedTypes DEF PatchedUpTo
  <2>3. m \in DOMAIN Original /\ n + 1 \in DOMAIN Original /\ m # n + 1
    BY <1>1, ToolchainAssumption DEF N
  <2> QED
    BY <1>2, <2>2, <2>3, ToolchainAssumption
<1>5. Found(at)
  <2>1. at - 1 = Len(Patched[n])
    BY <1>1
  <2> QED BY <1>2, <1>4, <2>1
<1>6. ASSUME NEW m \in DOMAIN file_lines, Found(m) PROVE m = at
  <2>1. m \in 1 .. Len(file_lines) /\ Len(file_lines) \in Nat
    BY NextLine DEF InLoop
  <2>2. ~ (m <= Len(Patched[n]))
    BY <1>1, <1>4, <1>6, <2>1
  <2>3. ~ (at <= m - 1)
    <3> SUFFICES ASSUME at <= m - 1 PROVE FALSE
      OBVIOUS
    <3>1. at \in 1 .. m - 1
      BY <1>1, <2>1
    <3> HIDE DEF at
    <3> QED BY <1>2, <1>6, <3>1
  <2> QED
    BY <1>1, <2>1, <2>2, <2>3
<1> HIDE DEF at, Found
<1>7. (CHOOSE m \in DOMAIN file_lines : Found(m)) = at
  BY <1>3, <1>5, <1>6
<1> QED
  BY <1>7, Zenon DEF Found, at

\* A step of the loop patches the line it is at.
LEMMA LineStep ==
  ASSUME NEW n \in 0 .. N, InLoop(n), SkipLine \/ PatchLine
  PROVE  n \in 0 .. N - 1 /\ InLoop(n + 1)'
<1>1. N \in Nat \ {0} /\ Len(Patched[n]) \in Nat
      /\ Len(file_lines) = Len(Patched[n]) + (N - n)
  BY OriginalLines, LoopLengths DEF InLoop
<1>2. file_iter = Len(Patched[n]) /\ file_iter < Len(file_lines)
  BY <1>1 DEF InLoop, SkipLine, PatchLine
<1>3. n \in 0 .. N - 1
  BY <1>1, <1>2
<1>4. Line = Original[n + 1]
  BY <1>3, NextLine DEF InLoop, Line
<1>5. CASE SkipLine
  <2>1. Original[n + 1].target = "none"
    BY <1>4, <1>5 DEF SkipLine
  <2>2. /\ Patched[n + 1] \o Rest(n + 1) = Patched[n] \o Rest(n)
        /\ Len(Patched[n + 1]) = Len(Patched[n]) + 1
    BY <1>3, <2>1, SkippedLine
  <2>3. file_lines' = file_lines /\ file_iter' = file_iter + 1
    BY <1>5 DEF SkipLine
  <2>4. file_lines' = Patched[n + 1] \o Rest(n + 1) /\ file_iter' = Len(Patched[n + 1])
    BY <2>2, <2>3 DEF InLoop
  <2> QED
    BY <1>3, <2>4, Zenon DEF InLoop
<1>6. CASE PatchLine
  <2>1. Original[n + 1].target # "none" /\ Line.target # "none"
    BY <1>4, <1>6 DEF PatchLine
  <2>2. /\ InsertAt(Patched[n] \o Rest(n), Len(Patched[n]) + 2,
                    Tmake(Original[n + 1].target)) = Patched[n + 1] \o Rest(n + 1)
        /\ Len(Patched[n + 1]) = Len(Patched[n]) + 2
    BY <1>3, <2>1, PatchedLine
  <2>3. file_lines' = InsertAt(file_lines, (Len(Patched[n]) + 1) + 1, Tmake(Line.target))
    BY <1>3, <1>6, <2>1, LineFound, Zenon DEF PatchLine
  <2>4. (Len(Patched[n]) + 1) + 1 = Len(Patched[n]) + 2
    BY <1>1
  <2>5. file_lines' = InsertAt(Patched[n] \o Rest(n), Len(Patched[n]) + 2,
                               Tmake(Original[n + 1].target))
    BY <1>4, <2>3, <2>4, Zenon DEF InLoop
  <2>6. file_iter' = file_iter + 2
    BY <1>6 DEF PatchLine
  <2>7. file_lines' = Patched[n + 1] \o Rest(n + 1) /\ file_iter' = Len(Patched[n + 1])
    BY <2>2, <2>5, <2>6 DEF InLoop
  <2> QED
    BY <1>3, <2>7, Zenon DEF InLoop
<1> QED
  BY <1>5, <1>6

\* What the loop leaves is PatchedConfig: no line twice, no line left out.
LEMMA LoopSteps ==
  ASSUME PatchState, ReadConfig \/ SkipLine \/ PatchLine \/ PatchEnds
  PROVE  PatchState'
<1>1. step = 10 /\ config' = config /\ config = Original
  BY Operations DEF ReadConfig, SkipLine, PatchLine, PatchEnds, disk, PatchState
<1>2. N \in Nat \ {0}
  BY OriginalLines
<1>3. CASE ReadConfig
  <2>1. file_lines' = Original /\ file_iter' = 0 /\ step' = 10
    BY <1>1, <1>3 DEF ReadConfig
  <2>2. InLoop(0)'
    BY <2>1, LoopEnds DEF InLoop
  <2>3. 0 \in 0 .. N
    BY <1>2
  <2>4. step' = 10 /\ \E n \in 0 .. N : InLoop(n)'
    BY <2>1, <2>2, <2>3
  <2> QED
    BY <1>1, <2>4 DEF PatchState
<1>4. CASE SkipLine \/ PatchLine
  <2>1. ~ (file_lines = <<>> /\ file_iter = 0) /\ step' = 10
    BY <1>1, <1>4 DEF SkipLine, PatchLine
  <2>2. PICK n \in 0 .. N : InLoop(n)
    BY <1>1, <1>4, <2>1 DEF PatchState
  <2>3. n \in 0 .. N - 1 /\ InLoop(n + 1)'
    BY <1>4, <2>2, LineStep
  <2>4. n + 1 \in 0 .. N
    BY <1>2, <2>3
  <2>5. \E k \in 0 .. N : InLoop(k)'
    BY <2>3, <2>4, Zenon
  <2> QED
    BY <1>1, <2>1, <2>5 DEF PatchState
<1>5. CASE PatchEnds
  <2>1. /\ step' = 11 /\ file_lines' = file_lines /\ file_iter' = file_iter
        /\ file_lines # <<>> /\ file_iter = Len(file_lines)
    BY <1>1, <1>5 DEF PatchEnds, Advance, patching
  <2>2. PICK n \in 0 .. N : InLoop(n)
    BY <1>1, <2>1 DEF PatchState
  <2>3. n = N
    BY <1>2, <2>1, <2>2, LoopLengths DEF InLoop
  <2>4. InLoop(N)'
    BY <2>1, <2>2, <2>3 DEF InLoop
  <2> QED
    BY <1>1, <2>1, <2>4 DEF PatchState
<1> QED
  BY <1>3, <1>4, <1>5

\* Any other step that goes on.
LEMMA PatchOther ==
  ASSUME PatchState, step \in 0 .. 18, UNCHANGED <<config, file_lines, file_iter>>,
         \/ step' = step + 1 /\ step \notin {0, 2, 10, 11, 18}
         \/ step' = step
         \/ step' = 1 /\ step \in {0, 18}
  PROVE  PatchState'
<1>1. CASE step' = step
  BY <1>1 DEF PatchState, InLoop
<1>2. CASE step' # step
  <2>1. file_lines = <<>> /\ file_iter = 0
    BY <1>2 DEF PatchState
  <2>2. step' # 11 /\ file_lines' = <<>> /\ file_iter' = 0
    BY <1>2, <2>1
  <2>3. /\ config' \in {<<>>, Original, PatchedConfig}
        /\ step' \in 3 .. 11 => config' = Original
        /\ step' > 11 => config' = PatchedConfig
    BY <1>2 DEF PatchState
  <2> QED
    BY <2>2, <2>3 DEF PatchState
<1> QED
  BY <1>1, <1>2

\* A step that stops leaves nothing but the disk.
LEMMA PatchStop ==
  ASSUME config' \in {<<>>, Original, PatchedConfig}, Stop
  PROVE  PatchState'
  BY DEF PatchState, Stop

-----------------------------------------------------------------------------
(* The invariant of the disk *)

\* The nrz files, by what a step does to them.
LEMMA NrzOther ==
  ASSUME NrzState, step \in 0 .. 18, UNCHANGED <<nrz, redZone>>,
         \/ step' = step + 1 /\ step \notin {8, 9}
         \/ step' \in {0, 1, step}
  PROVE  NrzState'
  BY DEF NrzState, RedZoneOnlyIfStopped, Targets

\* Writing an nrz file, or stopping in it, keeps what is known of the red zones.
LEMMA NrzSteps ==
  ASSUME NrzState, WriteNrz \/ WriteNrzStops
  PROVE  NrzState'
<1>1. /\ (step = 8 /\ Target = Mingw) \/ (step = 9 /\ Target = Elf)
      /\ redZone' = redZone
  <2>1. step \in {8, 9} /\ redZone' = redZone
    BY Operations DEF WriteNrz, WriteNrzStops
  <2>2. Plan[8].target = Mingw /\ Plan[9].target = Elf
    BY PlanSteps DEF Step
  <2>3. step = 8 => Target = Mingw
    BY <2>2, Zenon DEF Target
  <2>4. step = 9 => Target = Elf
    BY <2>2, Zenon DEF Target
  <2> QED
    BY <2>1, <2>3, <2>4
<1>2. Target \in Targets /\ nrz \in [Targets -> {"none", "empty", "whole"}]
  BY <1>1 DEF Targets, NrzState
<1>3. CASE WriteNrz
  <2>1. /\ nrz' = (IF nrz[Target] = "none" THEN [nrz EXCEPT ![Target] = "whole"] ELSE nrz)
        /\ step' = step + 1
    BY <1>3 DEF WriteNrz, Advance
  <2>2. /\ nrz' \in [Targets -> {"none", "empty", "whole"}]
        /\ nrz'[Target] # "none"
        /\ \A t \in Targets : nrz[t] # "none" => nrz'[t] = nrz[t]
    <3> HIDE DEF Target, Targets
    <3> QED BY <1>2, <2>1
  <2>3. \A t \in redZone' : nrz'[t] = "empty"
    BY <1>1, <2>2 DEF NrzState, RedZoneOnlyIfStopped
  <2> QED
    BY <1>1, <2>1, <2>2, <2>3 DEF NrzState, RedZoneOnlyIfStopped, Targets
<1>4. CASE WriteNrzStops
  <2>1. nrz' = [nrz EXCEPT ![Target] = "empty"] /\ step' = 0
    BY <1>4 DEF WriteNrzStops, Stop
  <2>2. /\ nrz' \in [Targets -> {"none", "empty", "whole"}]
        /\ \A t \in Targets : nrz'[t] \in {nrz[t], "empty"}
    BY <1>2, <2>1
  <2>3. \A t \in redZone' : nrz'[t] = "empty"
    BY <1>1, <2>2 DEF NrzState, RedZoneOnlyIfStopped
  <2> QED
    BY <1>1, <2>1, <2>2, <2>3 DEF NrzState, RedZoneOnlyIfStopped
<1> QED
  BY <1>3, <1>4

\* A libgcc is built when config.gcc is patched and the nrz file was written or
\* found: it has its red zone only from a file that was found cut short.
LEMMA NrzMake ==
  ASSUME NrzState, PatchState, NEW done \in SUBSET Parts(Tool), MakeParts(done)
  PROVE  NrzState'
<1>1. /\ step \in {7, 13, 15, 17} /\ step' = step + 1 /\ nrz' = nrz
      /\ redZone' = IF "libgcc" \notin done THEN redZone
                    ELSE IF nrz[Target] = "whole" /\ config = PatchedConfig
                         THEN redZone \ {Target} ELSE redZone \cup {Target}
  BY Operations DEF MakeParts, Advance
<1>2. "libgcc" \in done => step \in {13, 17}
  BY <1>1, Operations DEF Parts
<1>3. step \in {13, 17} => /\ config = PatchedConfig
                           /\ Target \in Targets /\ nrz[Target] # "none"
  BY Operations DEF PatchState, NrzState, Targets
<1>4. step \in {13, 17} => nrz[Target] \in {"empty", "whole"}
  BY <1>3 DEF NrzState
<1>5. redZone' \subseteq Targets
  BY <1>1, <1>2, <1>3 DEF NrzState
<1>6. \A t \in redZone' : nrz'[t] = "empty"
  BY <1>1, <1>2, <1>3, <1>4 DEF NrzState, RedZoneOnlyIfStopped
<1> QED
  BY <1>1, <1>5, <1>6 DEF NrzState, RedZoneOnlyIfStopped

\* The invariant at the start.
LEMMA InitDisk == Init => DiskInv
<1> SUFFICES ASSUME Init PROVE DiskInv
  OBVIOUS
<1>1. step = 0 /\ redZone = {} /\ config = <<>> /\ file_lines = <<>> /\ file_iter = 0
  BY DEF Init
<1>2. PatchState
  BY <1>1 DEF PatchState
<1>3. NrzState
  BY <1>1 DEF NrzState, RedZoneOnlyIfStopped, Init
<1>4. failures = 0 /\ MaxFailures \in Nat
  BY ToolchainAssumption DEF Init
<1>5. archive \in [Tools -> {"none", "part", "whole"}]
  BY DEF Init
<1>6. path \in {"absolute", "relative"}
  BY ToolchainAssumption DEF Init
<1> QED
  BY <1>2, <1>3, <1>4, <1>5, <1>6, InitIInv DEF DiskInv

\* Every step keeps the state of config.gcc.
LEMMA NextPatch == DiskInv /\ [Next]_vars => PatchState'
<1> SUFFICES ASSUME DiskInv, [Next]_vars PROVE PatchState'
  OBVIOUS
<1> USE DEF patching
<1>0. step \in 0 .. 18 /\ PatchState /\ config \in {<<>>, Original, PatchedConfig}
  BY DEF DiskInv, IInv, PatchState
<1>1. CASE Start
  BY <1>0, <1>1, PatchOther, PlanSteps DEF Start, disk
<1>2. CASE Interrupt \/ DownloadFails \/ WriteNrzStops \/ WriteConfigStops
  BY <1>0, <1>2, PatchStop
  DEF Interrupt, DownloadFails, WriteNrzStops, WriteConfigStops, disk
<1>3. CASE ExtractFails
  BY <1>0, <1>3, PatchStop DEF ExtractFails
<1>4. CASE ChdirToRoot
  BY <1>0, <1>4, PatchOther, PatchStop, Operations DEF ChdirToRoot, Advance, disk
<1>5. CASE Download \/ WriteNrz
  BY <1>0, <1>5, PatchOther, Operations DEF Download, WriteNrz, Advance
<1>6. CASE ReadConfig \/ SkipLine \/ PatchLine \/ PatchEnds
  BY <1>0, <1>6, LoopSteps
<1>7. CASE WriteConfig
  <2>1. step = 11 /\ step' = 12 /\ config' = file_lines
        /\ file_lines' = <<>> /\ file_iter' = 0
    BY <1>7, Operations DEF WriteConfig
  <2>2. config' = PatchedConfig
    BY <1>0, <2>1, LoopEnds DEF PatchState, InLoop
  <2> QED
    BY <2>1, <2>2 DEF PatchState
<1>8. CASE Extract
  <2>1. step \in {2, 4} /\ step' = step + 1
        /\ config' = (IF Tool = "gcc" THEN Original ELSE config)
        /\ file_lines' = file_lines /\ file_iter' = file_iter
    BY <1>8, Operations DEF Extract, Advance
  <2>2. step' \in {3, 5} /\ config' = Original
    BY <1>0, <2>1, Operations DEF PatchState
  <2> QED
    BY <1>0, <2>1, <2>2 DEF PatchState
<1>9. CASE Configure \/ ConfigureFails
  BY <1>0, <1>9, PatchOther, Operations DEF Configure, ConfigureFails, Advance
<1>10. CASE Make \/ MakeFails
  BY <1>0, <1>10, PatchOther, Operations DEF Make, MakeFails, MakeParts, Advance
<1>11. CASE UNCHANGED vars
  BY <1>0, <1>11, PatchOther DEF vars, disk
<1> QED
  BY <1>1, <1>2, <1>3, <1>4, <1>5, <1>6, <1>7, <1>8, <1>9, <1>10, <1>11
  DEF Next, Succeeds, Fails

\* Every step keeps the state of the nrz files.
LEMMA NextNrz == DiskInv /\ [Next]_vars => NrzState'
<1> SUFFICES ASSUME DiskInv, [Next]_vars PROVE NrzState'
  OBVIOUS
<1>0. step \in 0 .. 18 /\ PatchState /\ NrzState
  BY DEF DiskInv, IInv
<1>1. CASE Start \/ Interrupt
  BY <1>0, <1>1, NrzOther DEF Start, Interrupt, Stop, disk
<1>2. CASE DownloadFails \/ ExtractFails \/ WriteConfigStops
  BY <1>0, <1>2, NrzOther DEF DownloadFails, ExtractFails, WriteConfigStops, Stop
<1>3. CASE ChdirToRoot
  BY <1>0, <1>3, NrzOther, Operations DEF ChdirToRoot, Advance, Stop, disk
<1>4. CASE Download \/ Extract \/ Configure \/ ConfigureFails
  BY <1>0, <1>4, NrzOther, Operations
  DEF Download, Extract, Configure, ConfigureFails, Advance
<1>5. CASE ReadConfig \/ SkipLine \/ PatchLine \/ PatchEnds \/ WriteConfig
  BY <1>0, <1>5, NrzOther, Operations
  DEF ReadConfig, SkipLine, PatchLine, PatchEnds, WriteConfig, Advance, disk
<1>6. CASE WriteNrz \/ WriteNrzStops
  BY <1>0, <1>6, NrzSteps
<1>7. CASE Make \/ MakeFails
  <2>1. PICK done \in SUBSET Parts(Tool) : MakeParts(done)
    BY <1>7 DEF Make, MakeFails
  <2> QED
    BY <1>0, <2>1, NrzMake
<1>8. CASE UNCHANGED vars
  BY <1>0, <1>8, NrzOther DEF vars, disk
<1> QED
  BY <1>1, <1>2, <1>3, <1>4, <1>5, <1>6, <1>7, <1>8
  DEF Next, Succeeds, Fails

\* No step of the script and no stop of it breaks DiskInv.
LEMMA NextDisk == DiskInv /\ [Next]_vars => DiskInv'
<1> SUFFICES ASSUME DiskInv, [Next]_vars PROVE DiskInv'
  OBVIOUS
<1>1. IInv' /\ PatchState' /\ NrzState'
  BY NextIInv, NextPatch, NextNrz DEF DiskInv
<1>2. path' = path
  BY DEF Next, Succeeds, Fails, vars, disk, Stop, Advance, Start, Interrupt,
         Download, DownloadFails, Extract, ExtractFails, ChdirToRoot, Configure,
         ConfigureFails, Make, MakeFails, MakeParts, WriteNrz, WriteNrzStops,
         ReadConfig, SkipLine, PatchLine, PatchEnds, WriteConfig, WriteConfigStops
<1>3. failures' \in 0 .. MaxFailures
  <2>1. failures' = failures \/ (failures < MaxFailures /\ failures' = failures + 1)
    BY DEF Next, vars
  <2> QED
    BY <2>1, ToolchainAssumption DEF DiskInv
<1>4. archive' \in [Tools -> {"none", "part", "whole"}]
  <2>1. CASE Download \/ DownloadFails
    <3>1. archive' \in {archive, [archive EXCEPT ![Tool] = "part"],
                        [archive EXCEPT ![Tool] = "whole"]}
      BY <2>1 DEF Download, DownloadFails
    <3> HIDE DEF Tool
    <3> QED
      BY <3>1 DEF DiskInv
  <2>2. CASE ~ (Download \/ DownloadFails)
    <3>1. archive' = archive
      BY <2>2
      DEF Next, Succeeds, Fails, vars, disk, Start, Interrupt,
          Extract, ExtractFails, ChdirToRoot, Configure,
          ConfigureFails, Make, MakeFails, MakeParts, WriteNrz, WriteNrzStops,
          ReadConfig, SkipLine, PatchLine, PatchEnds, WriteConfig, WriteConfigStops
    <3> QED
      BY <3>1 DEF DiskInv
  <2> QED
    BY <2>1, <2>2
<1> QED
  BY <1>1, <1>2, <1>3, <1>4 DEF DiskInv

\* What is on the disk is as DiskInv says, through all runs.
LEMMA DiskAlways == Spec => []DiskInv
  BY InitDisk, NextDisk, PTL DEF Spec

\* The types, which rest on the whole invariant: what is in config.gcc, and
\* where the loop is in it, are known up to the line.
THEOREM TypesHold == Spec => []TypeOK
<1>1. ASSUME DiskInv PROVE TypeOK
  <2>1. config \in Seq(Lines)
    <3>1. config \in {<<>>, Original, PatchedConfig}
      BY <1>1 DEF DiskInv, PatchState
    <3>2. Original \in Seq(Lines) /\ PatchedConfig \in Seq(Lines) /\ <<>> \in Seq(Lines)
      BY LoopEnds, ToolchainAssumption, EmptySeq
    <3> QED BY <3>1, <3>2
  <2>2. file_lines \in Seq(Lines) /\ file_iter \in 0 .. Len(file_lines)
    <3>1. CASE file_lines = <<>> /\ file_iter = 0
      BY <3>1
    <3>2. ASSUME NEW n \in 0 .. N, InLoop(n)
          PROVE  file_lines \in Seq(Lines) /\ file_iter \in 0 .. Len(file_lines)
      BY <3>2, LoopLengths, OriginalLines DEF InLoop
    <3>3. N \in 0 .. N
      BY OriginalLines
    <3> QED
      BY <1>1, <3>1, <3>2, <3>3 DEF DiskInv, PatchState
  <2>3. step \in 0 .. Len(Plan) + 1
    BY <1>1, PlanSteps DEF DiskInv, IInv
  <2> QED
    BY <1>1, <2>1, <2>2, <2>3, Zenon DEF DiskInv, IInv, Extracted, NrzState, TypeOK
<1> QED
  BY <1>1, DiskAlways, PTL

\* However often the script is stopped and started again, a target's libgcc
\* has a red zone only when its nrz file was left empty by a run that was
\* stopped while it wrote it.
THEOREM RedZones == Spec => []RedZoneOnlyIfStopped
<1>1. DiskInv => RedZoneOnlyIfStopped
  BY DEF DiskInv, NrzState
<1> QED
  BY <1>1, DiskAlways, PTL

\* Whatever the lines of config.gcc are and whatever earlier runs were
\* interrupted in: each make of a run finds sources that were extracted in
\* whole, and the makes of gcc a config.gcc in which each matching line has
\* its tmake line exactly once.
THEOREM WholeSources == Spec => BuildsFromWholeSources
<1>1. ASSUME DiskInv
      PROVE  \A tool \in Tools : Doing("make") /\ Tool = tool =>
               /\ source[tool] = "whole"
               /\ tool = "gcc" => config = PatchedConfig
  <2> SUFFICES ASSUME Doing("make")
               PROVE  /\ source[Tool] = "whole"
                      /\ Tool = "gcc" => config = PatchedConfig
    OBVIOUS
  <2>1. step \in {7, 13, 15, 17}
    BY Operations
  <2>2. Tool = IF step \in {13, 17} THEN "gcc" ELSE "binutils"
    BY <2>1, Operations
  <2> QED
    BY <1>1, <2>1, <2>2 DEF DiskInv, IInv, Extracted, PatchState
<1> QED
  BY <1>1, DiskAlways, PTL DEF Spec, BuildsFromWholeSources

=============================================================================
