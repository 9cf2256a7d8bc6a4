---------------------------- MODULE PipelineProofs ----------------------------
(***************************************************************************)
(* Proofs about Pipeline: a run of a deploy script implements the         *)
(* coordinator of spec 4.6 (PipelineAbstract) under the refinement        *)
(* mapping of Pipeline.                                                    *)
(***************************************************************************)
EXTENDS Pipeline, TLAPS

\* The stage counter stays within the platform's stage list, whose
\* platform never changes.
StageInv ==
    /\ ctx.platform \in Platforms
    /\ phase \in {"prepare", "package", "done", "failed"}
    /\ stage \in 1..Len(StagesOf(ctx.platform))

\* The names the stage lists use.
StageNames ==
    {"install", "resolve", "strip", "perms", "remove", "buildinfo", "sign"}

\* Each platform's stage list is a non-empty sequence of stage names.
LEMMA StagesType ==
    ASSUME NEW p \in Platforms
    PROVE  StagesOf(p) \in Seq(StageNames) /\ Len(StagesOf(p)) >= 1
<1>1. p \in {"mac", "windows", "posix_windows"}
  BY PlatformsAssumption
<1>2. CASE p = "mac"
  <2>1. StagesOf(p) = MacStages
    BY <1>2 DEF StagesOf
  <2>2. MacStages \in Seq(StageNames) /\ Len(MacStages) >= 1
    BY DEF MacStages, StageNames
  <2>3. QED
    BY <2>1, <2>2
<1>3. CASE p = "windows"
  <2>1. StagesOf(p) = WindowsStages
    BY <1>3 DEF StagesOf
  <2>2. WindowsStages \in Seq(StageNames) /\ Len(WindowsStages) >= 1
    BY DEF WindowsStages, StageNames
  <2>3. QED
    BY <2>1, <2>2
<1>4. CASE p = "posix_windows"
  <2>1. StagesOf(p) = PosixWindowsStages
    BY <1>4 DEF StagesOf
  <2>2. PosixWindowsStages \in Seq(StageNames) /\ Len(PosixWindowsStages) >= 1
    BY DEF PosixWindowsStages, StageNames
  <2>3. QED
    BY <2>1, <2>2
<1>5. QED
  BY <1>1, <1>2, <1>3, <1>4

\* Each platform's stage list names each sub-stage once, puts every
\* stage after those the spec requires before it, and contains the
\* mandatory ones: it is one of the orders the abstract coordinator allows.
LEMMA PlanOrder ==
    ASSUME NEW p \in Platforms
    PROVE  LET P == StagesOf(p)
           IN  /\ \A i, j \in 1..Len(P) : i # j => P[i] # P[j]
               /\ \A i, k \in 1..Len(P) :
                     <<P[i], P[k]>> \in Abstract!Requires => i < k
               /\ Abstract!Mandatory \subseteq StageSet(p)
               /\ StageSet(p) \subseteq Abstract!SubStages
<1>1. p \in {"mac", "windows", "posix_windows"}
  BY PlatformsAssumption
<1>2. CASE p = "mac"
  BY <1>2 DEF StagesOf, MacStages, StageSet, Abstract!Requires,
              Abstract!TreeStages, Abstract!Mandatory, Abstract!SubStages
<1>3. CASE p = "windows"
  BY <1>3 DEF StagesOf, WindowsStages, StageSet, Abstract!Requires,
              Abstract!TreeStages, Abstract!Mandatory, Abstract!SubStages
<1>4. CASE p = "posix_windows"
  BY <1>4 DEF StagesOf, PosixWindowsStages, StageSet, Abstract!Requires,
              Abstract!TreeStages, Abstract!Mandatory, Abstract!SubStages
<1>5. QED
  BY <1>1, <1>2, <1>3, <1>4

\* Every step of prepare() runs in the prepare phase, leaves the context
\* and the package alone, and either advances the stage counter or fails.
LEMMA PrepareStep ==
    ASSUME MakeInstall \/ ResolveTarget \/ StripSymbols \/ ResetFilePermissions
             \/ RemoveUnneededFiles \/ WriteBuildInfo \/ SignPackage
    PROVE  /\ phase = "prepare"
           /\ ctx' = ctx /\ package' = package
           /\ Advance \/ \E e : Fail(e)
<1>1. CASE MakeInstall
  BY <1>1 DEF MakeInstall
<1>2. CASE ResolveTarget
  BY <1>2 DEF ResolveTarget
<1>3. CASE StripSymbols
  BY <1>3 DEF StripSymbols
<1>4. CASE ResetFilePermissions
  BY <1>4 DEF ResetFilePermissions
<1>5. CASE RemoveUnneededFiles
  BY <1>5 DEF RemoveUnneededFiles
<1>6. CASE WriteBuildInfo
  <2>1. PICK tools \in HostTools :
          LET r == WriterOf(ctx.platform, tools)
          IN  IF r.error = "none" THEN Advance /\ UNCHANGED error
              ELSE Fail(r.error)
    BY <1>6 DEF WriteBuildInfo
  <2>2. Advance \/ \E e : Fail(e)
    BY <2>1, Zenon
  <2>3. QED
    BY <1>6, <2>2 DEF WriteBuildInfo
<1>7. CASE SignPackage
  BY <1>7 DEF SignPackage
<1>8. QED
  BY <1>1, <1>2, <1>3, <1>4, <1>5, <1>6, <1>7

LEMMA StageInit == Init => StageInv
<1> SUFFICES ASSUME Init PROVE StageInv
  OBVIOUS
<1>1. ctx.platform \in Platforms
  BY DEF Init
<1>2. Len(StagesOf(ctx.platform)) >= 1
  BY <1>1, StagesType
<1>3. QED
  BY <1>1, <1>2 DEF Init, StageInv

\* A stage of prepare() that returns completes the sub-stage the stage
\* counter points at: it has not run, and the stages the spec requires
\* before it are the earlier ones of the list.
LEMMA AdvanceRefines ==
    ASSUME StageInv, phase = "prepare", Advance, ctx' = ctx, package' = package
    PROVE  Abstract!CompleteStage /\ StageInv'
<1> DEFINE P == StagesOf(ctx.platform)
           D == {P[i] : i \in 1..(stage - 1)}
           s == P[stage]
<1>1. /\ stage \in 1..Len(P) /\ ctx.platform \in Platforms
      /\ P \in Seq(StageNames) /\ Len(P) >= 1
  BY StagesType DEF StageInv
<1>2. /\ \A i, j \in 1..Len(P) : i # j => P[i] # P[j]
      /\ \A i, k \in 1..Len(P) : <<P[i], P[k]>> \in Abstract!Requires => i < k
  BY <1>1, PlanOrder
<1>3. DoneStages = D /\ AbstractState = "Preparing"
  BY DEF DoneStages, AbstractState
<1>4. s \in StageSet(ctx.platform) \ D
  BY <1>1, <1>2 DEF StageSet
<1>5. \A a \in StageSet(ctx.platform) : <<a, s>> \in Abstract!Requires => a \in D
  BY <1>1, <1>2 DEF StageSet
<1>6. D \cup {s} = {P[i] : i \in 1..stage}
  BY <1>1
<1>7. CASE stage = Len(P)
  <2>1. phase' = "package" /\ stage' = stage
    BY <1>7 DEF Advance
  <2>2. DoneStages' = D \cup {s} /\ AbstractState' = "Packaging"
    BY <1>6, <1>7, <2>1 DEF DoneStages, AbstractState, StageSet
  <2>3. D \cup {s} = StageSet(ctx.platform)
    BY <1>6, <1>7 DEF StageSet
  <2>4. QED
    BY <1>1, <1>3, <1>4, <1>5, <2>1, <2>2, <2>3
       DEF Abstract!CompleteStage, Abstract!Ready, StageInv
<1>8. CASE stage # Len(P)
  <2>1. phase' = "prepare" /\ stage' = stage + 1
    BY <1>8 DEF Advance
  <2>2. DoneStages' = D \cup {s} /\ AbstractState' = "Preparing"
    <3>1. DoneStages' = {StagesOf(ctx'.platform)[i] : i \in 1..(stage' - 1)}
      BY <2>1 DEF DoneStages
    <3>2. stage' - 1 = stage
      BY <1>1, <2>1
    <3>3. QED
      BY <1>6, <2>1, <3>1, <3>2 DEF AbstractState
  <2>3. P[Len(P)] \in StageSet(ctx.platform) \ (D \cup {s})
    BY <1>1, <1>2, <1>8 DEF StageSet
  <2>4. QED
    BY <1>1, <1>3, <1>4, <1>5, <1>8, <2>1, <2>2, <2>3
       DEF Abstract!CompleteStage, Abstract!Ready, StageInv
<1>9. QED
  BY <1>7, <1>8

\* An exception out of a stage of prepare() is the coordinator's failure
\* exit: the completed sub-stages stay those before the failing one.
LEMMA FailRefines ==
    ASSUME StageInv, phase = "prepare", NEW e, Fail(e), ctx' = ctx,
           package' = package
    PROVE  Abstract!Fail /\ StageInv'
<1>1. phase' = "failed" /\ stage' = stage
  BY DEF Fail
<1>2. DoneStages' = DoneStages
  BY <1>1 DEF DoneStages
<1>3. AbstractState = "Preparing" /\ AbstractState' = "Failed"
  BY <1>1 DEF AbstractState
<1>4. QED
  BY <1>1, <1>2, <1>3 DEF Abstract!Fail, StageInv

\* The packaging call is the step from Packaging to Done.
LEMMA PackageRefines ==
    ASSUME StageInv, Package
    PROVE  Abstract!Finish /\ StageInv'
<1>1. phase = "package" /\ phase' = "done" /\ UNCHANGED <<ctx, stage>>
  BY DEF Package
<1>2. DoneStages' = DoneStages
  BY <1>1 DEF DoneStages
<1>3. AbstractState = "Packaging" /\ AbstractState' = "Done"
  BY <1>1 DEF AbstractState
<1>4. QED
  BY <1>1, <1>2, <1>3 DEF Abstract!Finish, StageInv

\* Every step of a run is a step of the coordinator or leaves its state
\* alone, and keeps the stage counter in range.
LEMMA RefinementStep ==
    StageInv /\ [Next]_vars => [Abstract!Next]_Abstract!vars /\ StageInv'
<1> SUFFICES ASSUME StageInv, [Next]_vars
             PROVE  [Abstract!Next]_Abstract!vars /\ StageInv'
  OBVIOUS
<1>1. CASE MakeInstall \/ ResolveTarget \/ StripSymbols \/ ResetFilePermissions
             \/ RemoveUnneededFiles \/ WriteBuildInfo \/ SignPackage
  <2>1. /\ phase = "prepare"
        /\ ctx' = ctx /\ package' = package
        /\ Advance \/ \E e : Fail(e)
    BY <1>1, PrepareStep
  <2>2. CASE Advance
    BY <2>1, <2>2, AdvanceRefines DEF Abstract!Next
  <2>3. CASE \E e : Fail(e)
    BY <2>1, <2>3, FailRefines DEF Abstract!Next
  <2>4. QED
    BY <2>1, <2>2, <2>3
<1>2. CASE Package
  BY <1>2, PackageRefines DEF Abstract!Next
<1>3. CASE UNCHANGED vars
  BY <1>3 DEF vars, Abstract!vars, DoneStages, AbstractState, StageInv
<1>4. QED
  BY <1>1, <1>2, <1>3 DEF Next

\* The stage sequence of prepare() and the packaging call implement the
\* coordinator of spec 4.6 (the run's ImplementsAbstract), for every set
\* of platforms, files and environments.
THEOREM Refinement == Spec => ImplementsAbstract
<1>1. Init => Abstract!Init
  <2> SUFFICES ASSUME Init PROVE Abstract!Init
    OBVIOUS
  <2>1. ctx.platform \in Platforms /\ phase = "prepare" /\ stage = 1
    BY DEF Init
  <2>2. DoneStages = {}
    BY <2>1 DEF DoneStages
  <2>3. package = NoTree
    BY DEF Init
  <2>4. Abstract!Mandatory \subseteq StageSet(ctx.platform)
        /\ StageSet(ctx.platform) \subseteq Abstract!SubStages
    BY <2>1, PlanOrder
  <2>5. QED
    BY <2>1, <2>2, <2>3, <2>4 DEF Abstract!Init, AbstractState
<1>2. QED
  BY <1>1, StageInit, RefinementStep, PTL
     DEF Spec, ImplementsAbstract, Abstract!Spec

(***************************************************************************)
(* Stripped binaries.  Once the strip stage has completed every binary in *)
(* the staging tree is stripped, since no later stage adds a binary: make *)
(* install comes before the strip stage in every plan, and build-info.txt *)
(* is a data file.                                                         *)
(***************************************************************************)
BinariesStripped(files, done) ==
    \A f \in files : Kind[f] \in BinaryKinds => f \in done

StripDone ==
    \/ phase \in {"package", "done"}
    \/ \E j \in 1..(stage - 1) : StagesOf(ctx.platform)[j] = "strip"

StripInv == StripDone => BinariesStripped(staged, stripped)

PackageInv == BinariesStripped(package.files, package.stripped)

PInv == StageInv /\ StripInv /\ PackageInv

\* In every plan nothing before make install strips, and the strip stage
\* is not the last one.
LEMMA PlanFacts ==
    ASSUME NEW p \in Platforms
    PROVE  LET P == StagesOf(p)
           IN  /\ \A i \in 1..Len(P) :
                     P[i] = "install" => \A j \in 1..i : P[j] # "strip"
               /\ \E j \in 1..(Len(P) - 1) : P[j] = "strip"
<1>1. p \in {"mac", "windows", "posix_windows"}
  BY PlatformsAssumption
<1>2. CASE p = "mac"
  BY <1>2 DEF StagesOf, MacStages
<1>3. CASE p = "windows"
  BY <1>3 DEF StagesOf, WindowsStages
<1>4. CASE p = "posix_windows"
  BY <1>4 DEF StagesOf, PosixWindowsStages
<1>5. QED
  BY <1>1, <1>2, <1>3, <1>4

\* A stage of prepare() that returns completes the strip stage only if it
\* is the strip stage.
LEMMA AdvanceStripDone ==
    ASSUME StageInv, phase = "prepare", Advance, ctx' = ctx
    PROVE  StripDone' => StripDone \/ StagesOf(ctx.platform)[stage] = "strip"
<1> DEFINE P == StagesOf(ctx.platform)
<1>1. stage \in 1..Len(P) /\ ctx.platform \in Platforms
  BY DEF StageInv
<1>2. CASE stage = Len(P)
  <2>1. PICK j \in 1..(Len(P) - 1) : P[j] = "strip"
    BY <1>1, PlanFacts
  <2>2. QED
    BY <1>1, <1>2, <2>1 DEF StripDone
<1>3. CASE stage # Len(P)
  <2>1. phase' = "prepare" /\ stage' = stage + 1
    BY <1>3 DEF Advance
  <2>2. QED
    BY <1>1, <2>1 DEF StripDone
<1>4. QED
  BY <1>2, <1>3

\* A failing stage completes nothing.
LEMMA FailStripDone ==
    ASSUME NEW e, Fail(e), ctx' = ctx
    PROVE  StripDone' => StripDone
BY DEF Fail, StripDone

\* A stage that is not the strip stage completes the strip stage only if
\* it had completed already.
LEMMA OtherStripDone ==
    ASSUME StageInv, phase = "prepare", ctx' = ctx,
           Advance \/ \E e : Fail(e),
           StagesOf(ctx.platform)[stage] # "strip"
    PROVE  StripDone' => StripDone
BY AdvanceStripDone, FailStripDone

\* A stage other than the strip stage that adds no file but build-info.txt
\* and strips nothing keeps the staged binaries stripped.
LEMMA KeepsStripInv ==
    ASSUME StageInv, StripInv, phase = "prepare", ctx' = ctx,
           Advance \/ \E e : Fail(e),
           StagesOf(ctx.platform)[stage] # "strip",
           stripped' = stripped,
           staged' \subseteq staged \cup {BuildInfoFile}
    PROVE  StripInv'
<1>1. StripDone' => StripDone
  BY OtherStripDone
<1>2. Kind[BuildInfoFile] \notin BinaryKinds
  BY FilesAssumption DEF BinaryKinds
<1>3. QED
  BY <1>1, <1>2 DEF StripInv, BinariesStripped

\* Every step keeps the staged binaries stripped once the strip stage has
\* completed, and a package holds only stripped binaries.
LEMMA StripStep == PInv /\ [Next]_vars => PInv'
<1> SUFFICES ASSUME PInv, [Next]_vars PROVE PInv'
  OBVIOUS
<1> DEFINE P == StagesOf(ctx.platform)
<1>0. StageInv' /\ StageInv /\ StripInv /\ PackageInv
  BY RefinementStep DEF PInv
<1>1. CASE MakeInstall
  <2>1. /\ phase = "prepare" /\ ctx' = ctx /\ package' = package
        /\ Advance \/ \E e : Fail(e)
    BY <1>1, PrepareStep
  <2>2. P[stage] = "install" /\ stage \in 1..Len(P) /\ ctx.platform \in Platforms
    BY <1>0, <1>1 DEF MakeInstall, CurrentStage, StageInv
  <2>3. \A j \in 1..stage : P[j] # "strip"
    BY <2>2, PlanFacts
  <2>4. ~StripDone
    BY <2>1, <2>2, <2>3 DEF StripDone
  <2>5. ~StripDone'
    <3>1. P[stage] # "strip"
      BY <2>2
    <3>2. QED
      BY <1>0, <2>1, <2>4, <3>1, OtherStripDone
  <2>6. QED
    BY <1>0, <2>1, <2>5 DEF PInv, StripInv, PackageInv
<1>2. CASE ResolveTarget \/ ResetFilePermissions \/ SignPackage
  <2>1. /\ phase = "prepare" /\ ctx' = ctx /\ package' = package
        /\ Advance \/ \E e : Fail(e)
    BY <1>2, PrepareStep
  <2>2. P[stage] # "strip" /\ staged' = staged /\ stripped' = stripped
    BY <1>2 DEF ResolveTarget, ResetFilePermissions, SignPackage, CurrentStage
  <2>3. StripInv'
    BY <1>0, <2>1, <2>2, KeepsStripInv
  <2>4. QED
    BY <1>0, <2>1, <2>3 DEF PInv, PackageInv
<1>3. CASE RemoveUnneededFiles \/ WriteBuildInfo
  <2>1. /\ phase = "prepare" /\ ctx' = ctx /\ package' = package
        /\ Advance \/ \E e : Fail(e)
    BY <1>3, PrepareStep
  <2>2. P[stage] # "strip" /\ stripped' = stripped
        /\ staged' \subseteq staged \cup {BuildInfoFile}
    BY <1>3 DEF RemoveUnneededFiles, WriteBuildInfo, CurrentStage
  <2>3. StripInv'
    BY <1>0, <2>1, <2>2, KeepsStripInv
  <2>4. QED
    BY <1>0, <2>1, <2>3 DEF PInv, PackageInv
<1>4. CASE StripSymbols
  <2>1. /\ phase = "prepare" /\ ctx' = ctx /\ package' = package
        /\ Advance \/ \E e : Fail(e)
    BY <1>4, PrepareStep
  <2>2. CASE stripped' = stripped \cup {f \in staged : Kind[f] \in BinaryKinds}
    BY <1>0, <1>4, <2>1, <2>2 DEF StripSymbols, PInv, StripInv, PackageInv,
                                  BinariesStripped
  <2>3. CASE ~(stripped' = stripped \cup {f \in staged : Kind[f] \in BinaryKinds})
    <3>1. UNCHANGED <<staged, stripped>> /\ \E e : Fail(e)
      BY <1>4, <2>3 DEF StripSymbols
    <3>2. StripDone' => StripDone
      BY <2>1, <3>1, FailStripDone
    <3>3. QED
      BY <1>0, <2>1, <3>1, <3>2 DEF PInv, StripInv, PackageInv
  <2>4. QED
    BY <2>2, <2>3
<1>5. CASE Package
  <2>1. phase = "package" /\ UNCHANGED <<staged, stripped>>
        /\ (package' = Tree \/ package' = package)
    BY <1>5 DEF Package
  <2>2. BinariesStripped(staged, stripped)
    BY <1>0, <2>1 DEF StripInv, StripDone
  <2>3. PackageInv'
    BY <1>0, <2>1, <2>2 DEF PackageInv, Tree
  <2>4. QED
    BY <1>0, <2>1, <2>2, <2>3 DEF PInv, StripInv
<1>6. CASE UNCHANGED vars
  BY <1>0, <1>6 DEF vars, PInv, StripInv, PackageInv, StripDone,
                    BinariesStripped
<1>7. QED
  BY <1>1, <1>2, <1>3, <1>4, <1>5, <1>6 DEF Next

\* The installer never packages an unstripped binary (the run's
\* PackagedBinariesStripped), for every set of platforms and staged files:
\* prepare() strips after make install and adds no binary afterwards.
THEOREM StrippedPackages == Spec => []PackagedBinariesStripped
<1>1. Init => PInv
  <2> SUFFICES ASSUME Init PROVE PInv
    OBVIOUS
  <2>1. StageInv
    BY StageInit
  <2>2. ~StripDone
    BY DEF Init, StripDone
  <2>3. package = NoTree
    BY DEF Init
  <2>4. QED
    BY <2>1, <2>2, <2>3 DEF PInv, StripInv, PackageInv, NoTree,
                            BinariesStripped
<1>2. PInv => PackagedBinariesStripped
  BY DEF PInv, PackageInv, BinariesStripped, PackagedBinariesStripped
<1>3. QED
  BY <1>1, <1>2, StripStep, PTL DEF Spec

=============================================================================
