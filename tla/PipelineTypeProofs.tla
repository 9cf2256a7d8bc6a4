-------------------------- MODULE PipelineTypeProofs --------------------------
(***************************************************************************)
(* Type correctness of Pipeline.  The one part that takes an argument is   *)
(* build-info.txt: whatever the environment, git and the host tools do,   *)
(* and wherever writeBuildInfo raises, the file holds a sequence of the    *)
(* lines the writers produce and the exception is one they can raise.     *)
(***************************************************************************)
EXTENDS PipelineTreeProofs

\* A writer result: lines of build-info.txt and one of the writers'
\* exceptions (or "none").
Typed(r) == r.lines \in Seq(LineRecords) /\ r.error \in Errors

\* A block that runs after another, or is skipped by its exception, yields
\* a typed result when both are typed.
LEMMA ThenTyped ==
    ASSUME NEW r, NEW b, Typed(r), Typed(b)
    PROVE  Typed(Then(r, b))
<1>1. CASE r.error # "none"
  BY <1>1 DEF Then
<1>2. CASE r.error = "none"
  <2>1. Then(r, b) = Result(r.lines \o b.lines, b.error)
    BY <1>2 DEF Then
  <2>2. r.lines \o b.lines \in Seq(LineRecords)
    BY ConcatProperties DEF Typed
  <2>3. QED
    BY <2>1, <2>2 DEF Typed, Result
<1>3. QED
  BY <1>1, <1>2

\* Lines without a build-log line, with no exception, are typed.
LEMMA NoUrlTyped ==
    ASSUME NEW t, NoUrl(t)
    PROVE  Typed(Result(t, "none"))
BY DEF NoUrl, Typed, Result, Errors

\* An exception before anything is written.
LEMMA RaiseTyped ==
    ASSUME NEW e \in Errors
    PROVE  Typed(Result(<< >>, e))
<1>1. << >> \in Seq(LineRecords)
  BY EmptySeq
<1>2. QED
  BY <1>1 DEF Typed, Result

\* The repository block: the commit line alone when the AppVeyor lookup
\* raises KeyError, the whole block otherwise.
LEMMA RepositoryTyped ==
    ASSUME NEW git \in GitOutcomes, NEW env \in CIEnvs
    PROVE  Typed(RepositoryInfo(git, env))
<1>1. CASE BuildLogUrl(env) = "KeyError"
  <2>1. Line("commit", CommitHashOf(git)) \in LineRecords
    BY DEF Line, LineRecords, CommitHashOf
  <2>2. << Line("commit", CommitHashOf(git)) >> \in Seq(LineRecords)
    BY <2>1
  <2>3. RepositoryInfo(git, env)
          = Result(<< Line("commit", CommitHashOf(git)) >>, "KeyError")
    BY <1>1 DEF RepositoryInfo
  <2>4. QED
    BY <2>2, <2>3 DEF Typed, Result, Errors
<1>2. CASE BuildLogUrl(env) # "KeyError"
  <2>1. RepositoryInfo(git, env).error = "none"
    BY <1>2 DEF RepositoryInfo, Result
  <2>2. RepositoryInfo(git, env).lines \in Seq(LineRecords)
    BY <2>1, RepositoryFacts
  <2>3. QED
    BY <2>1, <2>2 DEF Typed, Errors
<1>3. QED
  BY <1>1, <1>2

\* Each script's writeBuildInfo, whether it returns or raises part-way,
\* leaves lines the writers produce and raises one of their exceptions.
LEMMA WriterTyped ==
    ASSUME NEW p \in Platforms, NEW tools \in HostTools,
           ctx.git \in GitOutcomes, ctx.env \in CIEnvs
    PROVE  Typed(WriterOf(p, tools))
<1> DEFINE R == RepositoryInfo(ctx.git, ctx.env)
<1>0. Typed(R)
  BY RepositoryTyped
<1>1. p \in {"mac", "windows", "posix_windows"}
  BY PlatformsAssumption
<1>2. CASE p = "windows"
  BY <1>0, <1>2 DEF WriterOf, WriteBuildInfoWindows
<1>3. CASE p = "mac"
  <2>1. WriterOf(p, tools) = Then(R, SysInfoMac(tools))
    BY <1>3 DEF WriterOf, WriteBuildInfoMac
  <2>2. Typed(SysInfoMac(tools))
    <3>1. CASE tools.swVers = "missing"
      BY <3>1, RaiseTyped DEF SysInfoMac, Errors
    <3>2. CASE tools.swVers # "missing"
      <4>1. SysInfoMac(tools) = HostInfo(tools.swVers)
        BY <3>2 DEF SysInfoMac
      <4>2. HostInfo(tools.swVers) = Result(HostInfo(tools.swVers).lines, "none")
        BY DEF HostInfo, Result
      <4>3. QED
        BY <4>1, <4>2, HostInfoNoUrl, NoUrlTyped
    <3>3. QED
      BY <3>1, <3>2
  <2>3. QED
    BY <1>0, <2>1, <2>2, ThenTyped
<1>4. CASE p = "posix_windows"
  <2> DEFINE H == HostInfo(tools.release)
             W == IF tools.wine = "missing" THEN Result(<< >>, "NoWine")
                  ELSE Result(<< Line("wine", IF tools.wineVer = "ver"
                                              THEN "ver" ELSE ""),
                                 Line("winver", IF tools.winVer = "ver"
                                                THEN "ver" ELSE "Unknown"),
                                 Blank >>, "none")
  <2>1. WriterOf(p, tools) = Then(Then(R, H), W)
    BY <1>4 DEF WriterOf, WriteBuildInfoPosixWindows, H, W
  <2>2. Typed(H)
    <3>1. H = Result(H.lines, "none")
      BY DEF H, HostInfo, Result
    <3>2. QED
      BY <3>1, HostInfoNoUrl, NoUrlTyped DEF H
  <2>3. Typed(W)
    <3>1. CASE tools.wine = "missing"
      BY <3>1, RaiseTyped DEF W, Errors
    <3>2. CASE tools.wine # "missing"
      <4>1. NoUrl(<< Line("wine", IF tools.wineVer = "ver" THEN "ver" ELSE ""),
                     Line("winver", IF tools.winVer = "ver"
                                    THEN "ver" ELSE "Unknown"),
                     Blank >>)
        BY WineNoUrl
      <4>2. QED
        BY <3>2, <4>1, NoUrlTyped DEF W
    <3>3. QED
      BY <3>1, <3>2
  <2>4. QED
    BY <1>0, <2>1, <2>2, <2>3, ThenTyped
<1>5. QED
  BY <1>1, <1>2, <1>3, <1>4

\* TypeOK contains the stage invariant of PipelineProofs.
LEMMA TypeStageInv == TypeOK => StageInv /\ CtxType
BY DEF TypeOK, StageInv, CtxType

\* Every step of a run keeps the state well typed.
LEMMA TypeStep == TypeOK /\ [Next]_vars => TypeOK'
<1> SUFFICES ASSUME TypeOK, [Next]_vars PROVE TypeOK'
  OBVIOUS
<1>0. /\ StageInv' /\ ctx' = ctx
      /\ ctx.platform \in Platforms
      /\ ctx.git \in GitOutcomes /\ ctx.env \in CIEnvs
  <2>1. StageInv /\ CtxType
    BY TypeStageInv
  <2>2. StageInv'
    BY <2>1, RefinementStep
  <2>3. ctx' = ctx
    BY PrepareStep DEF Next, Package, vars
  <2>4. QED
    BY <2>1, <2>2, <2>3, EnvAssumption DEF CtxType
\* What every action must re-establish beyond the stage counter.
<1> DEFINE Rest ==
      /\ staged \subseteq Files /\ stripped \subseteq Files
      /\ reset \subseteq Files
      /\ buildInfo \in Seq(LineRecords)
      /\ error \in Errors \cup {"MakeFailed", "StripFailed", "NoCodesign"}
      /\ targetDir \in {"unset", "@ApplicationsDir@", "@ApplicationsDirX86@",
                        "@ApplicationsDirX64@"}
<1>1. Rest
  BY DEF TypeOK, Rest, LineRecords
<1> SUFFICES Rest'
  BY <1>0 DEF TypeOK, StageInv, Rest, LineRecords
<1>2. CASE MakeInstall
  BY <1>1, <1>2 DEF MakeInstall, Fail, Files, Rest
<1>3. CASE ResolveTarget
  BY <1>1, <1>3 DEF ResolveTarget, AppsDir, Rest
<1>4. CASE StripSymbols
  BY <1>1, <1>4 DEF StripSymbols, Fail, Rest
<1>5. CASE ResetFilePermissions
  BY <1>1, <1>5 DEF ResetFilePermissions, Rest
<1>6. CASE RemoveUnneededFiles
  BY <1>1, <1>6 DEF RemoveUnneededFiles, Rest
<1>7. CASE WriteBuildInfo
  <2>1. PICK tools \in HostTools :
          LET r == WriterOf(ctx.platform, tools)
          IN  /\ staged' = staged \cup {BuildInfoFile}
              /\ buildInfo' = r.lines
              /\ IF r.error = "none"
                 THEN Advance /\ UNCHANGED error
                 ELSE Fail(r.error)
    BY <1>7 DEF WriteBuildInfo
  <2>2. Typed(WriterOf(ctx.platform, tools))
    BY <1>0, WriterTyped
  <2>3. error' \in Errors \cup {error}
    BY <2>1, <2>2 DEF Typed, Fail
  <2>4. QED
    BY <1>1, <1>7, <2>1, <2>2, <2>3 DEF WriteBuildInfo, Typed, Files, Rest
<1>8. CASE SignPackage
  BY <1>1, <1>8 DEF SignPackage, Fail, Rest
<1>9. CASE Package
  BY <1>1, <1>9 DEF Package, Rest
<1>10. CASE UNCHANGED vars
  BY <1>1, <1>10 DEF vars, Rest
<1>11. QED
  BY <1>2, <1>3, <1>4, <1>5, <1>6, <1>7, <1>8, <1>9, <1>10 DEF Next

\* Every reachable state of a run is well typed (the run's TypeOK), for
\* every set of platforms, files, environments and Qt IFW versions: in
\* particular build-info.txt holds writer lines whether writeBuildInfo
\* returns or raises part-way, and the run ends on one of the exceptions
\* the stages raise.
THEOREM PipelineTypeCorrect == Spec => []TypeOK
<1>1. Init => TypeOK
  <2> SUFFICES ASSUME Init PROVE TypeOK
    OBVIOUS
  <2>1. StageInv
    BY StageInit
  <2>2. << >> \in Seq(LineRecords)
    BY EmptySeq
  <2>3. QED
    BY <2>1, <2>2 DEF Init, TypeOK, StageInv, Files, LineRecords, Errors
<1>2. QED
  BY <1>1, TypeStep, PTL DEF Spec

=============================================================================
