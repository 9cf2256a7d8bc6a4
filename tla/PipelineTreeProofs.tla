-------------------------- MODULE PipelineTreeProofs --------------------------
(***************************************************************************)
(* Proofs about the tree a run packages: the Windows scripts package no   *)
(* build-only file, and on macOS the signed bundle is the packaged one.   *)
(* Both rest on where a stage sits in its platform's plan, as the         *)
(* stripped-binaries proof of PipelineProofs does.                        *)
(***************************************************************************)
EXTENDS PipelineProofs, SequenceTheorems, FiniteSetTheorems

(***************************************************************************)
(* Build-only files.  Once removeUnneededFiles has run on a Windows tree,  *)
(* the tree holds no build-only file: make install comes before it, and    *)
(* the only later stage adds build-info.txt, a data file.                  *)
(***************************************************************************)
NoBuildOnly(files) == \A f \in files : Kind[f] \notin BuildOnlyKinds

\* The stage called name has returned: it lies before the stage counter,
\* or prepare() has returned.
StageDone(name) ==
    \/ phase \in {"package", "done"}
    \/ \E j \in 1..(stage - 1) : StagesOf(ctx.platform)[j] = name

RemoveDone == StageDone("remove")

RemoveInv == (ctx.platform # "mac" /\ RemoveDone) => NoBuildOnly(staged)

PackagedInv == package # NoTree => package = Tree /\ phase = "done"

RInv == StageInv /\ RemoveInv /\ PackagedInv

(***************************************************************************)
(* The signature.  Until prepare() returns nothing is signed; codesign is  *)
(* the last stage of the macOS plan, so the tree it signed is the tree as  *)
(* it stays.                                                               *)
(***************************************************************************)
SignInv ==
    /\ phase = "prepare" => signature = NoTree
    /\ signature # NoTree => signature = Tree

SInv == StageInv /\ SignInv /\ PackagedInv

(***************************************************************************)
(* Provenance.  Once writeBuildInfo has returned, the staging tree holds   *)
(* build-info.txt, and the file opens with the commit line and has one     *)
(* build-log line exactly when a CI configuration is active; no later      *)
(* stage rewrites or removes it.                                           *)
(***************************************************************************)
Provenance(info) ==
    /\ Len(info) > 0
    /\ info[1] = Line("commit", CommitHashOf(ctx.git))
    /\ Cardinality(UrlLines(info)) = IF CIConfigured(ctx.env) THEN 1 ELSE 0


\* The context the detection fixed before prepare() ran.
CtxType ==
    ctx \in [platform : Platforms, env : CIEnvChoices, git : GitOutcomes,
            arch : {"32bit", "64bit"}, ifw : IFWVersions]


\* The lines writeBuildInfo can write.
LineRecords ==
    [key : {"commit", "url", "blank", "host", "wine", "winver"},
     val : {"hash", "Unknown", "travis", "appveyor", "info", "ver", ""}]

\* Lines after which no build-log line follows.
NoUrl(t) == t \in Seq(LineRecords) /\ \A i \in 1..Len(t) : t[i].key # "url"

\* Appending lines without a build-log line keeps the first line and the
\* build-log lines of what was written before.
LEMMA UrlConcat ==
    ASSUME NEW s \in Seq(LineRecords), NEW t, NoUrl(t)
    PROVE  /\ s \o t \in Seq(LineRecords)
           /\ UrlLines(s \o t) = UrlLines(s)
           /\ Len(s) > 0 => Len(s \o t) > 0 /\ (s \o t)[1] = s[1]
<1>1. t \in Seq(LineRecords) /\ \A i \in 1..Len(t) : t[i].key # "url"
  BY DEF NoUrl
<1>2. /\ s \o t \in Seq(LineRecords)
      /\ Len(s \o t) = Len(s) + Len(t)
      /\ \A i \in 1..Len(s) + Len(t) :
            (s \o t)[i] = IF i <= Len(s) THEN s[i] ELSE t[i - Len(s)]
  BY <1>1, ConcatProperties
<1>3. QED
  BY <1>1, <1>2 DEF UrlLines

\* The build-log URL is written exactly when a CI configuration is active,
\* unless the AppVeyor lookup raised.
LEMMA UrlIffConfigured ==
    ASSUME NEW env \in CIEnvs, BuildLogUrl(env) # "KeyError"
    PROVE  /\ BuildLogUrl(env) \in {"", "travis", "appveyor"}
           /\ BuildLogUrl(env) = "" <=> ~CIConfigured(env)
<1>1. env.travis \in {"unset", "empty", "set"}
      /\ env.account \in {"unset", "set"} /\ env.project \in {"unset", "set"}
      /\ env.job \in {"unset", "set"}
  BY DEF CIEnvs
<1>2. CASE env.travis = "set"
  BY <1>2 DEF BuildLogUrl, CIConfigured
<1>3. CASE env.travis = "empty"
  BY <1>3 DEF BuildLogUrl, CIConfigured
<1>4. CASE env.travis = "unset"
  <2>1. CASE env.account = "set" /\ env.project = "set" /\ env.job = "set"
    BY <1>4, <2>1 DEF BuildLogUrl, CIConfigured
  <2>2. CASE ~(env.account = "set" /\ env.project = "set" /\ env.job = "set")
    BY <1>4, <2>2 DEF BuildLogUrl, CIConfigured
  <2>3. QED
    BY <2>1, <2>2
<1>5. QED
  BY <1>1, <1>2, <1>3, <1>4

\* The commit line followed by at most one build-log line: the first line
\* is the commit line, and the build-log line, if any, is line 2.
LEMMA CommitThenUrl ==
    ASSUME NEW c \in LineRecords, c.key # "url",
           NEW U \in Seq(LineRecords), Len(U) \in {0, 1},
           \A i \in 1..Len(U) : U[i].key = "url"
    PROVE  /\ << c >> \o U \in Seq(LineRecords)
           /\ Len(<< c >> \o U) > 0 /\ (<< c >> \o U)[1] = c
           /\ UrlLines(<< c >> \o U) = IF Len(U) = 0 THEN {} ELSE {2}
<1>1. << c >> \in Seq(LineRecords) /\ Len(<< c >>) = 1 /\ << c >>[1] = c
  OBVIOUS
<1>2. /\ << c >> \o U \in Seq(LineRecords)
      /\ Len(<< c >> \o U) = Len(<< c >>) + Len(U)
      /\ \A i \in 1..(Len(<< c >>) + Len(U)) :
            (<< c >> \o U)[i] = IF i <= Len(<< c >>) THEN << c >>[i]
                                ELSE U[i - Len(<< c >>)]
  BY <1>1, ConcatProperties
<1>3. QED
  BY <1>1, <1>2 DEF UrlLines

\* The repository block, when it returns: the commit line, the build-log
\* line at position 2 exactly when a CI configuration is active, a blank.
LEMMA RepositoryFacts ==
    ASSUME NEW git \in GitOutcomes, NEW env \in CIEnvs,
           RepositoryInfo(git, env).error = "none"
    PROVE  LET L == RepositoryInfo(git, env).lines
           IN  /\ L \in Seq(LineRecords)
               /\ Len(L) > 0
               /\ L[1] = Line("commit", CommitHashOf(git))
               /\ UrlLines(L) = IF CIConfigured(env) THEN {2} ELSE {}
<1>1. BuildLogUrl(env) # "KeyError"
  BY DEF RepositoryInfo, Result
<1>2. /\ BuildLogUrl(env) \in {"", "travis", "appveyor"}
      /\ BuildLogUrl(env) = "" <=> ~CIConfigured(env)
  BY <1>1, UrlIffConfigured
<1>3. /\ Line("commit", CommitHashOf(git)) \in LineRecords
      /\ Line("commit", CommitHashOf(git)).key = "commit"
      /\ Blank \in LineRecords /\ Blank.key = "blank"
  BY DEF CommitHashOf, Line, LineRecords, GitOutcomes, Blank
<1>4. NoUrl(<< Blank >>)
  <2>1. << Blank >> \in Seq(LineRecords)
    BY <1>3
  <2>2. \A i \in 1..Len(<< Blank >>) : << Blank >>[i].key # "url"
    BY <1>3
  <2>3. QED
    BY <2>1, <2>2 DEF NoUrl
<1>5. CASE BuildLogUrl(env) = ""
  <2>1. RepositoryInfo(git, env).lines
          = (<< Line("commit", CommitHashOf(git)) >> \o << >>) \o << Blank >>
    BY <1>1, <1>5 DEF RepositoryInfo, Result
  <2>2. << >> \in Seq(LineRecords) /\ Len(<< >>) = 0
    BY EmptySeq
  <2> DEFINE A == << Line("commit", CommitHashOf(git)) >> \o << >>
  <2>3. /\ Line("commit", CommitHashOf(git)).key # "url"
        /\ Len(<< >>) \in {0, 1}
        /\ \A i \in 1..Len(<< >>) : << >>[i].key = "url"
    BY <1>3, <2>2
  <2>4. /\ A \in Seq(LineRecords) /\ Len(A) > 0
        /\ A[1] = Line("commit", CommitHashOf(git))
        /\ UrlLines(A) = IF Len(<< >>) = 0 THEN {} ELSE {2}
    BY <1>3, <2>2, <2>3, CommitThenUrl, Zenon DEF A
  <2>5. UrlLines(A) = {}
    BY <2>2, <2>4
  <2>6. /\ A \o << Blank >> \in Seq(LineRecords)
        /\ UrlLines(A \o << Blank >>) = UrlLines(A)
        /\ Len(A \o << Blank >>) > 0 /\ (A \o << Blank >>)[1] = A[1]
    BY <1>4, <2>4, UrlConcat
  <2>7. QED
    BY <1>2, <1>5, <2>1, <2>4, <2>5, <2>6
<1>6. CASE BuildLogUrl(env) # ""
  <2>1. RepositoryInfo(git, env).lines
          = (<< Line("commit", CommitHashOf(git)) >>
             \o << Line("url", BuildLogUrl(env)) >>) \o << Blank >>
    BY <1>1, <1>6 DEF RepositoryInfo, Result
  <2>2. /\ Line("url", BuildLogUrl(env)) \in LineRecords
        /\ Line("url", BuildLogUrl(env)).key = "url"
    BY <1>2, <1>6 DEF Line, LineRecords
  <2>3. /\ << Line("url", BuildLogUrl(env)) >> \in Seq(LineRecords)
        /\ Len(<< Line("url", BuildLogUrl(env)) >>) = 1
        /\ << Line("url", BuildLogUrl(env)) >>[1].key = "url"
    BY <2>2
  <2> DEFINE A == << Line("commit", CommitHashOf(git)) >>
                  \o << Line("url", BuildLogUrl(env)) >>
  <2>4. /\ Line("commit", CommitHashOf(git)).key # "url"
        /\ Len(<< Line("url", BuildLogUrl(env)) >>) \in {0, 1}
        /\ \A i \in 1..Len(<< Line("url", BuildLogUrl(env)) >>) :
              << Line("url", BuildLogUrl(env)) >>[i].key = "url"
    BY <1>3, <2>3
  <2>5. /\ A \in Seq(LineRecords) /\ Len(A) > 0
        /\ A[1] = Line("commit", CommitHashOf(git))
        /\ UrlLines(A) =
              IF Len(<< Line("url", BuildLogUrl(env)) >>) = 0 THEN {} ELSE {2}
    BY <1>3, <2>3, <2>4, CommitThenUrl, Zenon DEF A
  <2>6. UrlLines(A) = {2}
    BY <2>3, <2>5
  <2>7. /\ A \o << Blank >> \in Seq(LineRecords)
        /\ UrlLines(A \o << Blank >>) = UrlLines(A)
        /\ Len(A \o << Blank >>) > 0 /\ (A \o << Blank >>)[1] = A[1]
    BY <1>4, <2>5, UrlConcat
  <2>8. QED
    BY <1>2, <1>6, <2>1, <2>7, <2>5, <2>6
<1>7. QED
  BY <1>5, <1>6

\* The lines of a written build-info.txt as far as provenance goes: the
\* commit line first, the build-log line at position 2 exactly when a CI
\* configuration is active, and no build-log line after it.
Recorded(L) ==
    /\ L \in Seq(LineRecords)
    /\ Len(L) > 0
    /\ L[1] = Line("commit", CommitHashOf(ctx.git))
    /\ UrlLines(L) = IF CIConfigured(ctx.env) THEN {2} ELSE {}

ProvInv ==
    StageDone("buildinfo") => BuildInfoFile \in staged /\ Recorded(buildInfo)

QInv == StageInv /\ CtxType /\ ProvInv /\ PackagedInv

\* A block that runs after a block that returned: the lines of both, and
\* the exception of the second.
LEMMA ThenFacts ==
    ASSUME NEW r, NEW b, Then(r, b).error = "none"
    PROVE  /\ r.error = "none" /\ b.error = "none"
           /\ Then(r, b).lines = r.lines \o b.lines
BY DEF Then, Result

\* Lines without a build-log line, put together.
LEMMA NoUrlConcat ==
    ASSUME NEW s, NEW t, NoUrl(s), NoUrl(t)
    PROVE  NoUrl(s \o t)
<1>1. s \in Seq(LineRecords) /\ t \in Seq(LineRecords)
  BY DEF NoUrl
<1>2. /\ s \o t \in Seq(LineRecords)
      /\ Len(s \o t) = Len(s) + Len(t)
      /\ \A i \in 1..Len(s) + Len(t) :
            (s \o t)[i] = IF i <= Len(s) THEN s[i] ELSE t[i - Len(s)]
  BY <1>1, ConcatProperties
<1>3. QED
  BY <1>1, <1>2 DEF NoUrl

\* One line that is not a build-log line, and no line at all.
LEMMA NoUrlSingle ==
    ASSUME NEW x \in LineRecords, x.key # "url"
    PROVE  NoUrl(<< x >>) /\ NoUrl(<< >>)
<1>1. << >> \in Seq(LineRecords) /\ Len(<< >>) = 0
  BY EmptySeq
<1>2. QED
  BY <1>1 DEF NoUrl

\* What the host tools add to build-info.txt has no build-log line.
LEMMA HostInfoNoUrl ==
    ASSUME NEW output
    PROVE  NoUrl(HostInfo(output).lines)
<1>1. /\ Line("host", "info") \in LineRecords /\ Line("host", "info").key # "url"
      /\ Blank \in LineRecords /\ Blank.key # "url"
  BY DEF Line, LineRecords, Blank
<1>2. NoUrl(IF output = "lines" THEN << Line("host", "info") >> ELSE << >>)
  BY <1>1, NoUrlSingle
<1>3. NoUrl(<< Blank >>)
  BY <1>1, NoUrlSingle
<1>4. QED
  BY <1>2, <1>3, NoUrlConcat DEF HostInfo, Result

\* Appending lines without a build-log line keeps what Recorded says.
LEMMA RecordedConcat ==
    ASSUME NEW L, NEW t, Recorded(L), NoUrl(t)
    PROVE  Recorded(L \o t)
BY UrlConcat DEF Recorded

\* The repository block records provenance when it returns.
LEMMA RepositoryRecorded ==
    ASSUME ctx.git \in GitOutcomes, ctx.env \in CIEnvs,
           RepositoryInfo(ctx.git, ctx.env).error = "none"
    PROVE  Recorded(RepositoryInfo(ctx.git, ctx.env).lines)
BY RepositoryFacts DEF Recorded

\* The positions of a sequence of length 3.
LEMMA ThreePositions ==
    ASSUME NEW i \in 1..3
    PROVE  i = 1 \/ i = 2 \/ i = 3
OBVIOUS

\* Three elements of S make a sequence of S of length 3.
LEMMA TripleSeq ==
    ASSUME NEW S, NEW a \in S, NEW b \in S, NEW c \in S
    PROVE  << a, b, c >> \in Seq(S) /\ Len(<< a, b, c >>) = 3
<1>1. << a, b, c >> \in [1..3 -> S]
  <2>1. DOMAIN << a, b, c >> = 1..3
    OBVIOUS
  <2>2. ASSUME NEW i \in 1..3 PROVE << a, b, c >>[i] \in S
    <3>1. i = 1 \/ i = 2 \/ i = 3
      OBVIOUS
    <3>2. QED
      BY <3>1
  <2>3. QED
    BY <2>1, <2>2
<1>2. QED
  BY <1>1, LenProperties

\* The posix_windows wine block, when wine is there: two lines and a blank.
LEMMA WineNoUrl ==
    ASSUME NEW w \in {"ver", ""}, NEW v \in {"ver", "Unknown"}
    PROVE  NoUrl(<< Line("wine", w), Line("winver", v), Blank >>)
<1>1. /\ Line("wine", w) \in LineRecords /\ Line("wine", w).key = "wine"
      /\ Line("winver", v) \in LineRecords /\ Line("winver", v).key = "winver"
      /\ Blank \in LineRecords /\ Blank.key = "blank"
  BY DEF Line, LineRecords, Blank
<1>2. /\ << Line("wine", w), Line("winver", v), Blank >> \in Seq(LineRecords)
      /\ Len(<< Line("wine", w), Line("winver", v), Blank >>) = 3
  BY <1>1, TripleSeq
<1>3. ASSUME NEW i \in 1..3
      PROVE  << Line("wine", w), Line("winver", v), Blank >>[i].key # "url"
  <2>1. i = 1 \/ i = 2 \/ i = 3
    BY ThreePositions
  <2>2. CASE i = 1
    BY <1>1, <2>2
  <2>3. CASE i = 2
    BY <1>1, <2>3
  <2>4. CASE i = 3
    BY <1>1, <2>4
  <2>5. QED
    BY <2>1, <2>2, <2>3, <2>4
<1>4. QED
  BY <1>2, <1>3 DEF NoUrl

\* Each script's writeBuildInfo, when it returns, has recorded the commit
\* and the build-log URL: macOS and posix_windows append host information
\* after the repository block, and none of it is a build-log line.
LEMMA WriterFacts ==
    ASSUME NEW p \in Platforms, NEW tools \in HostTools,
           ctx.git \in GitOutcomes, ctx.env \in CIEnvs,
           WriterOf(p, tools).error = "none"
    PROVE  Recorded(WriterOf(p, tools).lines)
<1> DEFINE R == RepositoryInfo(ctx.git, ctx.env)
<1>1. p \in {"mac", "windows", "posix_windows"}
  BY PlatformsAssumption
<1>2. CASE p = "windows"
  <2>1. WriterOf(p, tools) = R
    BY <1>2 DEF WriterOf, WriteBuildInfoWindows
  <2>2. QED
    BY <2>1, RepositoryRecorded
<1>3. CASE p = "mac"
  <2>1. WriterOf(p, tools) = Then(R, SysInfoMac(tools))
    BY <1>3 DEF WriterOf, WriteBuildInfoMac
  <2>2. /\ R.error = "none" /\ SysInfoMac(tools).error = "none"
        /\ WriterOf(p, tools).lines = R.lines \o SysInfoMac(tools).lines
    BY <2>1, ThenFacts
  <2>3. SysInfoMac(tools) = HostInfo(tools.swVers)
    BY <2>2 DEF SysInfoMac, Result
  <2>4. QED
    BY <2>2, <2>3, RepositoryRecorded, HostInfoNoUrl, RecordedConcat
<1>4. CASE p = "posix_windows"
  <2> DEFINE H == HostInfo(tools.release)
             W == IF tools.wine = "missing" THEN Result(<< >>, "NoWine")
                  ELSE Result(<< Line("wine", IF tools.wineVer = "ver"
                                              THEN "ver" ELSE ""),
                                 Line("winver", IF tools.winVer = "ver"
                                                THEN "ver" ELSE "Unknown"),
                                 Blank >>, "none")
  <2>1. WriterOf(p, tools) = Then(Then(R, H), W)
    BY <1>4 DEF WriterOf, WriteBuildInfoPosixWindows, H, W
  <2>2. /\ Then(R, H).error = "none" /\ W.error = "none"
        /\ WriterOf(p, tools).lines = Then(R, H).lines \o W.lines
    BY <2>1, ThenFacts
  <2>3. /\ R.error = "none"
        /\ Then(R, H).lines = R.lines \o H.lines
    BY <2>2, ThenFacts
  <2>4. NoUrl(W.lines)
    <3>1. tools.wine # "missing"
      BY <2>2 DEF W, Result
    <3>2. QED
      BY <3>1, WineNoUrl DEF W, Result
  <2>5. Recorded(R.lines \o H.lines)
    BY <2>3, RepositoryRecorded, HostInfoNoUrl, RecordedConcat DEF H
  <2>6. QED
    BY <2>2, <2>3, <2>4, <2>5, RecordedConcat
<1>5. QED
  BY <1>1, <1>2, <1>3, <1>4

\* Where make install, removeUnneededFiles, codesign and writeBuildInfo sit
\* in the plans: no removal before make install, the removal is never the
\* last stage of a Windows plan, signing is the last stage wherever it
\* occurs, and every plan writes build-info.txt exactly once.
LEMMA TreePlanFacts ==
    ASSUME NEW p \in Platforms
    PROVE  LET P == StagesOf(p)
           IN  /\ \A i \in 1..Len(P) :
                     P[i] = "install" => \A j \in 1..i : P[j] # "remove"
               /\ p # "mac" => \E j \in 1..(Len(P) - 1) : P[j] = "remove"
               /\ \A i \in 1..Len(P) : P[i] = "sign" => i = Len(P)
               /\ \E j \in 1..Len(P) : P[j] = "buildinfo"
               /\ \A i \in 1..Len(P) :
                     P[i] = "buildinfo" => \A j \in 1..(i - 1) : P[j] # "buildinfo"
<1>1. p \in {"mac", "windows", "posix_windows"}
  BY PlatformsAssumption
<1>2. CASE p = "mac"
  BY <1>2 DEF StagesOf, MacStages
<1>3. CASE p = "windows"
  BY <1>3 DEF StagesOf, WindowsStages
<1>4. CASE p = "posix_windows"
  BY <1>4 DEF StagesOf, PosixWindowsStages
<1>5. QED
  BY <1>1, <1>2, <1>3, <1>4

\* A stage of prepare() other than the one called name, where name occurs
\* in the plan, completes that stage only if it had completed already.
LEMMA OtherStageDone ==
    ASSUME NEW name, StageInv, phase = "prepare", ctx' = ctx,
           Advance \/ \E e : Fail(e),
           StagesOf(ctx.platform)[stage] # name,
           \E j \in 1..Len(StagesOf(ctx.platform)) :
               StagesOf(ctx.platform)[j] = name
    PROVE  StageDone(name)' => StageDone(name)
<1> DEFINE P == StagesOf(ctx.platform)
<1>1. stage \in 1..Len(P)
  BY DEF StageInv
<1>2. CASE \E e : Fail(e)
  BY <1>2 DEF Fail, StageDone
<1>3. CASE Advance /\ stage = Len(P)
  BY <1>1, <1>3 DEF StageDone
<1>4. CASE Advance /\ stage # Len(P)
  <2>1. phase' = "prepare" /\ stage' = stage + 1
    BY <1>4 DEF Advance
  <2>2. QED
    BY <1>1, <2>1 DEF StageDone
<1>5. QED
  BY <1>2, <1>3, <1>4

\* A package, once made, is the tree as it stands, and the run is over.
LEMMA PackagedStep ==
    StageInv /\ PackagedInv /\ [Next]_vars => PackagedInv'
<1> SUFFICES ASSUME StageInv, PackagedInv, [Next]_vars PROVE PackagedInv'
  OBVIOUS
<1>1. CASE MakeInstall \/ ResolveTarget \/ StripSymbols \/ ResetFilePermissions
             \/ RemoveUnneededFiles \/ WriteBuildInfo \/ SignPackage
  <2>1. phase = "prepare" /\ package' = package
    BY <1>1, PrepareStep
  <2>2. QED
    BY <2>1 DEF PackagedInv
<1>2. CASE Package
  <2>1. phase = "package" /\ phase' = "done"
        /\ UNCHANGED <<staged, stripped, reset, buildInfo>>
        /\ (package' = Tree \/ package' = package)
    BY <1>2 DEF Package
  <2>2. package = NoTree
    BY <2>1 DEF PackagedInv
  <2>3. QED
    BY <2>1, <2>2 DEF PackagedInv, Tree
<1>3. CASE UNCHANGED vars
  BY <1>3 DEF vars, PackagedInv, Tree
<1>4. QED
  BY <1>1, <1>2, <1>3 DEF Next

\* Every step keeps a Windows tree free of build-only files once the
\* removal has run.
LEMMA RemoveStep == RInv /\ [Next]_vars => RInv'
<1> SUFFICES ASSUME RInv, [Next]_vars PROVE RInv'
  OBVIOUS
<1> DEFINE P == StagesOf(ctx.platform)
<1>0. /\ StageInv' /\ StageInv /\ RemoveInv
      /\ PackagedInv'
      /\ ctx' = ctx
  <2>1. StageInv' /\ StageInv /\ RemoveInv
    BY RefinementStep DEF RInv
  <2>2. PackagedInv'
    BY PackagedStep DEF RInv
  <2>3. ctx' = ctx
    BY PrepareStep DEF Next, Package, vars
  <2>4. QED
    BY <2>1, <2>2, <2>3
<1> SUFFICES ASSUME ctx.platform # "mac", RemoveDone'
             PROVE  NoBuildOnly(staged')
  BY <1>0 DEF RInv, RemoveInv
<1>1. /\ ctx.platform \in Platforms /\ stage \in 1..Len(P)
      /\ \E j \in 1..(Len(P) - 1) : P[j] = "remove"
  BY <1>0, TreePlanFacts DEF StageInv
<1>2. CASE MakeInstall
  <2>1. phase = "prepare" /\ (Advance \/ \E e : Fail(e))
    BY <1>2, PrepareStep
  <2>2. \A j \in 1..stage : P[j] # "remove"
    BY <1>1, <1>2, TreePlanFacts DEF MakeInstall, CurrentStage
  <2>3. ~RemoveDone
    BY <1>1, <2>1, <2>2 DEF RemoveDone, StageDone
  <2>4. P[stage] # "remove"
    BY <1>1, <2>2
  <2>5. QED
    BY <1>0, <1>1, <2>1, <2>3, <2>4, OtherStageDone DEF RemoveDone
<1>3. CASE ResolveTarget \/ StripSymbols \/ ResetFilePermissions
             \/ SignPackage \/ WriteBuildInfo
  <2>1. phase = "prepare" /\ (Advance \/ \E e : Fail(e))
    BY <1>3, PrepareStep
  <2>2. P[stage] # "remove" /\ staged' \subseteq staged \cup {BuildInfoFile}
    BY <1>3 DEF ResolveTarget, StripSymbols, ResetFilePermissions,
                SignPackage, WriteBuildInfo, CurrentStage
  <2>3. NoBuildOnly(staged)
    BY <1>0, <1>1, <2>1, <2>2, OtherStageDone DEF RemoveDone, RemoveInv
  <2>4. Kind[BuildInfoFile] \notin BuildOnlyKinds
    BY FilesAssumption DEF BuildOnlyKinds
  <2>5. QED
    BY <2>2, <2>3, <2>4 DEF NoBuildOnly
<1>4. CASE RemoveUnneededFiles
  BY <1>4 DEF RemoveUnneededFiles, UnneededKinds, BuildOnlyKinds, NoBuildOnly
<1>5. CASE Package
  <2>1. phase = "package" /\ staged' = staged
    BY <1>5 DEF Package
  <2>2. QED
    BY <1>0, <2>1 DEF RemoveInv, RemoveDone, StageDone
<1>6. CASE UNCHANGED vars
  BY <1>0, <1>6 DEF vars, RemoveInv, RemoveDone, StageDone
<1>7. QED
  BY <1>2, <1>3, <1>4, <1>5, <1>6 DEF Next

\* The Windows installers never carry a static library, static .prl,
\* debug database or import library (the run's PackageHasNoBuildOnlyFiles),
\* for every set of staged files: removeUnneededFiles runs after make
\* install, and only build-info.txt is added after it.
THEOREM NoBuildOnlyPackages == Spec => []PackageHasNoBuildOnlyFiles
<1>1. Init => RInv
  <2> SUFFICES ASSUME Init PROVE RInv
    OBVIOUS
  <2>1. StageInv
    BY StageInit
  <2>2. ~RemoveDone
    BY DEF Init, RemoveDone, StageDone
  <2>3. package = NoTree
    BY DEF Init
  <2>4. QED
    BY <2>1, <2>2, <2>3 DEF RInv, RemoveInv, PackagedInv
<1>2. RInv => PackageHasNoBuildOnlyFiles
  BY DEF RInv, RemoveInv, PackagedInv, RemoveDone, StageDone, Tree, NoTree,
         NoBuildOnly, PackageHasNoBuildOnlyFiles
<1>3. QED
  BY <1>1, <1>2, RemoveStep, PTL DEF Spec

\* Every step keeps the signed tree equal to the staged tree, and nothing
\* is signed while prepare() runs.
LEMMA SignStep == SInv /\ [Next]_vars => SInv'
<1> SUFFICES ASSUME SInv, [Next]_vars PROVE SInv'
  OBVIOUS
<1> DEFINE P == StagesOf(ctx.platform)
<1>0. StageInv' /\ StageInv /\ SignInv /\ PackagedInv'
  BY RefinementStep, PackagedStep DEF SInv
<1> SUFFICES SignInv'
  BY <1>0 DEF SInv
<1>1. CASE MakeInstall \/ ResolveTarget \/ StripSymbols \/ ResetFilePermissions
             \/ RemoveUnneededFiles \/ WriteBuildInfo
  <2>1. phase = "prepare" /\ signature' = signature
    BY <1>1, PrepareStep DEF MakeInstall, ResolveTarget, StripSymbols,
                             ResetFilePermissions, RemoveUnneededFiles,
                             WriteBuildInfo
  <2>2. QED
    BY <1>0, <2>1 DEF SignInv
<1>2. CASE SignPackage
  <2>1. /\ ctx.platform \in Platforms /\ stage \in 1..Len(P)
        /\ P[stage] = "sign"
    BY <1>0, <1>2 DEF StageInv, SignPackage, CurrentStage
  <2>2. stage = Len(P)
    BY <2>1, TreePlanFacts
  <2>3. phase = "prepare" /\ signature = NoTree
    BY <1>0, <1>2 DEF SignPackage, SignInv
  <2>4. UNCHANGED <<staged, stripped, reset, buildInfo>>
    BY <1>2 DEF SignPackage
  <2>5. CASE signature' = Tree /\ Advance
    <3>1. phase' = "package"
      BY <2>2, <2>5 DEF Advance
    <3>2. QED
      BY <2>4, <2>5, <3>1 DEF SignInv, Tree
  <2>6. CASE ~(signature' = Tree /\ Advance)
    <3>1. signature' = signature
      BY <1>2, <2>6 DEF SignPackage
    <3>2. QED
      BY <2>3, <3>1 DEF SignInv
  <2>7. QED
    BY <2>5, <2>6
<1>3. CASE Package
  <2>1. phase' = "done" /\ UNCHANGED <<signature, staged, stripped, reset,
                                       buildInfo>>
    BY <1>3 DEF Package
  <2>2. QED
    BY <1>0, <2>1 DEF SignInv, Tree
<1>4. CASE UNCHANGED vars
  BY <1>0, <1>4 DEF vars, SignInv, Tree
<1>5. QED
  BY <1>1, <1>2, <1>3, <1>4 DEF Next

\* On macOS a signed bundle is packaged exactly as codesign signed it (the
\* run's SignatureCoversPackage), for every staged tree: signing is the
\* last stage of prepare() and packaging changes nothing in the tree.
THEOREM SignedPackages == Spec => []SignatureCoversPackage
<1>1. Init => SInv
  <2> SUFFICES ASSUME Init PROVE SInv
    OBVIOUS
  <2>1. StageInv
    BY StageInit
  <2>2. signature = NoTree /\ package = NoTree
    BY DEF Init
  <2>3. QED
    BY <2>1, <2>2 DEF SInv, SignInv, PackagedInv
<1>2. SInv => SignatureCoversPackage
  BY DEF SInv, SignInv, PackagedInv, SignatureCoversPackage
<1>3. QED
  BY <1>1, <1>2, SignStep, PTL DEF Spec

\* Once writeBuildInfo has returned, build-info.txt stays in the tree with
\* the provenance it recorded; every step keeps the context.
LEMMA ProvStep == QInv /\ [Next]_vars => QInv'
<1> SUFFICES ASSUME QInv, [Next]_vars PROVE QInv'
  OBVIOUS
<1> DEFINE P == StagesOf(ctx.platform)
<1>0. /\ StageInv' /\ StageInv /\ CtxType /\ ProvInv /\ PackagedInv'
      /\ ctx' = ctx
  <2>1. StageInv' /\ StageInv /\ CtxType /\ ProvInv
    BY RefinementStep DEF QInv
  <2>2. PackagedInv'
    BY PackagedStep DEF QInv
  <2>3. ctx' = ctx
    BY PrepareStep DEF Next, Package, vars
  <2>4. QED
    BY <2>1, <2>2, <2>3
<1>1. CtxType'
  BY <1>0 DEF CtxType
<1> SUFFICES ProvInv'
  BY <1>0, <1>1 DEF QInv
<1>2. /\ ctx.platform \in Platforms /\ stage \in 1..Len(P)
      /\ \E j \in 1..Len(P) : P[j] = "buildinfo"
      /\ ctx.git \in GitOutcomes /\ ctx.env \in CIEnvs
  BY <1>0, TreePlanFacts, EnvAssumption DEF StageInv, CtxType
<1>3. Kind[BuildInfoFile] \notin UnneededKinds
  BY FilesAssumption DEF UnneededKinds
<1>4. CASE MakeInstall \/ ResolveTarget \/ StripSymbols \/ ResetFilePermissions
             \/ RemoveUnneededFiles \/ SignPackage
  <2>1. phase = "prepare" /\ (Advance \/ \E e : Fail(e))
    BY <1>4, PrepareStep
  <2>2. /\ P[stage] # "buildinfo" /\ buildInfo' = buildInfo
        /\ BuildInfoFile \in staged => BuildInfoFile \in staged'
    BY <1>3, <1>4 DEF MakeInstall, ResolveTarget, StripSymbols,
                      ResetFilePermissions, RemoveUnneededFiles, SignPackage,
                      CurrentStage
  <2>3. StageDone("buildinfo")' => StageDone("buildinfo")
    BY <1>0, <1>2, <2>1, <2>2, OtherStageDone
  <2>4. QED
    BY <1>0, <2>2, <2>3 DEF ProvInv, Recorded
<1>5. CASE WriteBuildInfo
  <2>1. phase = "prepare" /\ P[stage] = "buildinfo"
    BY <1>5 DEF WriteBuildInfo, CurrentStage
  <2>2. PICK tools \in HostTools :
          LET r == WriterOf(ctx.platform, tools)
          IN  /\ staged' = staged \cup {BuildInfoFile}
              /\ buildInfo' = r.lines
              /\ IF r.error = "none"
                 THEN Advance /\ UNCHANGED error
                 ELSE Fail(r.error)
    BY <1>5 DEF WriteBuildInfo
  <2>3. CASE WriterOf(ctx.platform, tools).error = "none"
    <3>1. Recorded(WriterOf(ctx.platform, tools).lines)
      BY <1>2, <2>3, WriterFacts
    <3>2. QED
      BY <1>0, <2>2, <2>3, <3>1 DEF ProvInv, Recorded
  <2>4. CASE WriterOf(ctx.platform, tools).error # "none"
    <3>1. phase' = "failed" /\ stage' = stage
      BY <2>2, <2>4 DEF Fail
    <3>2. \A j \in 1..(stage - 1) : P[j] # "buildinfo"
      BY <1>2, <2>1, TreePlanFacts
    <3>3. ~StageDone("buildinfo")'
      BY <1>0, <3>1, <3>2 DEF StageDone
    <3>4. QED
      BY <3>3 DEF ProvInv
  <2>5. QED
    BY <2>3, <2>4
<1>6. CASE Package
  <2>1. phase = "package" /\ UNCHANGED <<staged, buildInfo>>
    BY <1>6 DEF Package
  <2>2. QED
    BY <1>0, <2>1 DEF ProvInv, StageDone, Recorded
<1>7. CASE UNCHANGED vars
  BY <1>0, <1>7 DEF vars, ProvInv, StageDone, Recorded
<1>8. QED
  BY <1>4, <1>5, <1>6, <1>7 DEF Next

\* The build-log line count of recorded lines: one or none.
LEMMA RecordedProvenance ==
    ASSUME NEW L, Recorded(L)
    PROVE  Provenance(L)
<1>1. CASE CIConfigured(ctx.env)
  <2>1. UrlLines(L) = {2}
    BY <1>1 DEF Recorded
  <2>2. Cardinality({2}) = 1
    BY FS_Singleton
  <2>3. QED
    BY <1>1, <2>1, <2>2 DEF Recorded, Provenance
<1>2. CASE ~CIConfigured(ctx.env)
  <2>1. UrlLines(L) = {}
    BY <1>2 DEF Recorded
  <2>2. QED
    BY <1>2, <2>1, FS_EmptySet DEF Recorded, Provenance
<1>3. QED
  BY <1>1, <1>2

\* A packaged tree holds build-info.txt, opening with the commit hash or
\* "Unknown" and with one build-log line exactly when a CI configuration is
\* active (the run's ProvenanceRecorded), for every environment, git
\* outcome and host: every plan writes build-info.txt before packaging,
\* writeBuildInfo returns only with those lines, and no later stage
\* touches the file.
THEOREM ProvenanceOfPackages == Spec => []ProvenanceRecorded
<1>1. Init => QInv
  <2> SUFFICES ASSUME Init PROVE QInv
    OBVIOUS
  <2>1. StageInv
    BY StageInit
  <2>2. ~StageDone("buildinfo")
    BY DEF Init, StageDone
  <2>3. package = NoTree /\ CtxType
    BY DEF Init, CtxType
  <2>4. QED
    BY <2>1, <2>2, <2>3 DEF QInv, ProvInv, PackagedInv
<1>2. QInv => ProvenanceRecorded
  <2> SUFFICES ASSUME QInv, package # NoTree PROVE ProvenanceRecorded
    BY DEF ProvenanceRecorded
  <2>1. package = Tree /\ phase = "done"
    BY DEF QInv, PackagedInv
  <2>2. BuildInfoFile \in staged /\ Recorded(buildInfo)
    BY <2>1 DEF QInv, ProvInv, StageDone
  <2>3. Provenance(buildInfo)
    BY <2>2, RecordedProvenance
  <2>4. QED
    BY <2>1, <2>2, <2>3 DEF Provenance, ProvenanceRecorded, Tree,
                            CommitHashOf
<1>3. QED
  BY <1>1, <1>2, ProvStep, PTL DEF Spec

=============================================================================
