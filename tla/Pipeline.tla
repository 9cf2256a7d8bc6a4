----------------------------- MODULE Pipeline ------------------------------
(***************************************************************************)
(* One run of a deploy script: Deploy.prepare() of the platform, stage by *)
(* stage, then the packaging stage, which the driver (outside this         *)
(* repository) runs only when prepare() returned.  Any exception out of a *)
(* stage ends the run.                                                     *)
(*                                                                         *)
(* The staged tree is abstracted to the set of files in it, with the      *)
(* files whose symbols were stripped and whose permissions were reset;    *)
(* build-info.txt is one more file, whose content BuildInfo computes.  A   *)
(* package is a snapshot of the tree the installer tool read.              *)
(***************************************************************************)
EXTENDS Naturals, Sequences, FiniteSets, BuildInfo

CONSTANTS
    Platforms,      \* the deploy scripts: "mac", "windows", "posix_windows"
    BuildFiles,     \* the files `make install` puts in the staging tree
    Kind,           \* Kind[f]: the suffix class of file f
    BuildInfoFile,  \* share/build-info.txt (Contents/Resources on macOS)
    CIEnvChoices,   \* the CI environments the runs range over
    IFWVersions     \* detected Qt IFW versions: <<>> for '' or <<major, minor>>

Kinds == {"exe", "dll", "a", "static.prl", "pdb", "lib", "data"}

\* What stripSymbols works on.
BinaryKinds == {"exe", "dll"}

ProgramName == "AkVirtualCamera"

ASSUME PlatformsAssumption ==
    Platforms \subseteq {"mac", "windows", "posix_windows"}
ASSUME FilesAssumption ==
    /\ BuildInfoFile \notin BuildFiles
    /\ Kind \in [BuildFiles \cup {BuildInfoFile} -> Kinds]
    /\ Kind[BuildInfoFile] = "data"
ASSUME EnvAssumption ==
    /\ CIEnvChoices \subseteq CIEnvs
    /\ IFWVersions \subseteq {<<>>} \cup (Nat \X Nat)

Files == BuildFiles \cup {BuildInfoFile}

VARIABLES
    ctx,         \* the DeploymentContext fixed before prepare() runs
    phase,       \* "prepare", "package", "done" or "failed"
    stage,       \* the index of the next stage of prepare()
    staged,      \* the files in the staging tree
    stripped,    \* the files stripSymbols has processed
    reset,       \* the files resetFilePermissions has processed
    buildInfo,   \* the lines of build-info.txt
    signature,   \* the tree codesign signed, or NoTree
    targetDir,   \* installerTargetDir's placeholder token, or "unset"
    outPackage,  \* the outPackage file name, or "unset"
    error,       \* the exception that ended the run, or "none"
    package      \* the tree the installer packaged, or NoTree

vars == <<ctx, phase, stage, staged, stripped, reset, buildInfo, signature,
          targetDir, outPackage, error, package>>

NoTree == [files |-> {}, stripped |-> {}, reset |-> {}, info |-> <<>>]

Tree == [files |-> staged, stripped |-> stripped, reset |-> reset,
         info |-> buildInfo]

(***************************************************************************)
(* The stages of each prepare(), in the order the code calls them.        *)
(***************************************************************************)
\* Mutant: signing before writing build-info.txt.
MacStagesSignEarly == <<"install", "strip", "perms", "sign", "buildinfo">>

\* deploy_mac.py prepare()
MacStages == <<"install", "strip", "perms", "buildinfo", "sign">>

\* Mutant: stripping before make install.
WindowsStagesStripFirst ==
    <<"resolve", "strip", "install", "remove", "buildinfo">>

\* deploy_windows.py prepare()
WindowsStages == <<"install", "resolve", "strip", "remove", "buildinfo">>

\* deploy_posix_windows.py prepare(): no make install here.
PosixWindowsStages == <<"resolve", "strip", "remove", "buildinfo">>

StagesOf(p) ==
    CASE p = "mac" -> MacStages
      [] p = "windows" -> WindowsStages
      [] p = "posix_windows" -> PosixWindowsStages

CurrentStage == StagesOf(ctx.platform)[stage]

\* Mutant: an off-by-one in the end-of-prepare test.
AdvancePastEnd ==
    IF stage > Len(StagesOf(ctx.platform))
    THEN phase' = "package" /\ stage' = stage
    ELSE phase' = phase /\ stage' = stage + 1

\* After a stage that returned: the next one, or the packaging stage.
Advance ==
    IF stage = Len(StagesOf(ctx.platform))
    THEN phase' = "package" /\ stage' = stage
    ELSE phase' = phase /\ stage' = stage + 1

Fail(e) == phase' = "failed" /\ error' = e /\ UNCHANGED stage

(***************************************************************************)
(* The installer target and output name (InstallerTargetResolver).         *)
(***************************************************************************)
\* `if self.qtIFWVersion == '' or int(self.qtIFWVersion.split('.')[0]) < 3`
AppsDir(ifw, arch) ==
    IF ifw = <<>> \/ ifw[1] < 3 THEN "@ApplicationsDir@"
    ELSE IF arch = "32bit" THEN "@ApplicationsDirX86@"
    ELSE "@ApplicationsDirX64@"

ArchTag(arch) == IF arch = "32bit" THEN "win32" ELSE "win64"

\* deploy_windows.py: 'webcamoid-{}-{}.exe'.format(version, arch)
WindowsOutPackage(arch) == [name |-> "webcamoid", arch |-> ArchTag(arch)]

\* deploy_posix_windows.py: '{}-{}-{}.exe'.format(programName, ...)
PosixWindowsOutPackage(arch) == [name |-> ProgramName, arch |-> ArchTag(arch)]

\* deploy_mac.py __init__: '{}-{}.dmg'.format(programName, version)
MacOutPackage == [name |-> ProgramName, arch |-> "none"]

(***************************************************************************)
(* The run.  Detection (__init__, detectTargetArch, detectQtIFWVersion)   *)
(* fixes the context; on macOS __init__ already sets the installer target *)
(* and the package name.  The posix_windows tree was installed by the     *)
(* build before the script runs; the other two install it themselves.     *)
(***************************************************************************)
Init ==
    /\ ctx \in [platform : Platforms, env : CIEnvChoices, git : GitOutcomes,
                arch : {"32bit", "64bit"}, ifw : IFWVersions]
    /\ phase = "prepare"
    /\ stage = 1
    /\ staged = IF ctx.platform = "posix_windows" THEN BuildFiles ELSE {}
    /\ stripped = {}
    /\ reset = {}
    /\ buildInfo = <<>>
    /\ signature = NoTree
    /\ targetDir = IF ctx.platform = "mac" THEN "@ApplicationsDir@" ELSE "unset"
    /\ outPackage = IF ctx.platform = "mac" THEN MacOutPackage ELSE "unset"
    /\ error = "none"
    /\ package = NoTree

\* self.makeInstall(...): a failed install aborts the run.
MakeInstall ==
    /\ phase = "prepare" /\ CurrentStage = "install"
    /\ \/ /\ staged' = staged \cup BuildFiles
          /\ Advance
          /\ UNCHANGED error
       \/ /\ Fail("MakeFailed")
          /\ UNCHANGED staged
    /\ UNCHANGED <<ctx, stripped, reset, buildInfo, signature, targetDir,
                   outPackage, package>>

\* appsDir, installerTargetDir, arch and outPackage in prepare().
ResolveTarget ==
    /\ phase = "prepare" /\ CurrentStage = "resolve"
    /\ targetDir' = AppsDir(ctx.ifw, ctx.arch)
    /\ outPackage' = IF ctx.platform = "windows"
                     THEN WindowsOutPackage(ctx.arch)
                     ELSE PosixWindowsOutPackage(ctx.arch)
    /\ Advance
    /\ UNCHANGED <<ctx, staged, stripped, reset, buildInfo, signature, error,
                   package>>

\* self.binarySolver.stripSymbols(self.installDir): every binary of the
\* tree; a failure inside the tool is surfaced.
StripSymbols ==
    /\ phase = "prepare" /\ CurrentStage = "strip"
    /\ \/ /\ stripped' = stripped \cup {f \in staged : Kind[f] \in BinaryKinds}
          /\ Advance
          /\ UNCHANGED error
       \/ /\ Fail("StripFailed")
          /\ UNCHANGED stripped
    /\ UNCHANGED <<ctx, staged, reset, buildInfo, signature, targetDir,
                   outPackage, package>>

\* self.binarySolver.resetFilePermissions(rootInstallDir, binaryInstallDir)
ResetFilePermissions ==
    /\ phase = "prepare" /\ CurrentStage = "perms"
    /\ reset' = staged
    /\ Advance
    /\ UNCHANGED <<ctx, staged, stripped, buildInfo, signature, targetDir,
                   outPackage, error, package>>

\* Mutant: the .pdb suffix left out of the test.
UnneededKindsNoPdb == {"a", "static.prl", "lib"}

UnneededKinds == {"a", "static.prl", "pdb", "lib"}

\* removeUnneededFiles(self.installDir): every file ending in .a,
\* .static.prl, .pdb or .lib, anywhere in the tree.
RemoveUnneededFiles ==
    /\ phase = "prepare" /\ CurrentStage = "remove"
    /\ staged' = {f \in staged : Kind[f] \notin UnneededKinds}
    /\ Advance
    /\ UNCHANGED <<ctx, stripped, reset, buildInfo, signature, targetDir,
                   outPackage, error, package>>

WriterOf(p, tools) ==
    CASE p = "mac" -> WriteBuildInfoMac(ctx.git, ctx.env, tools)
      [] p = "windows" -> WriteBuildInfoWindows(ctx.git, ctx.env, tools)
      [] p = "posix_windows" ->
            WriteBuildInfoPosixWindows(ctx.git, ctx.env, tools)

\* self.writeBuildInfo(): the file is (re)created even when the call
\* raises part-way.
WriteBuildInfo ==
    /\ phase = "prepare" /\ CurrentStage = "buildinfo"
    /\ \E tools \in HostTools :
          LET r == WriterOf(ctx.platform, tools)
          IN  /\ staged' = staged \cup {BuildInfoFile}
              /\ buildInfo' = r.lines
              /\ IF r.error = "none"
                 THEN Advance /\ UNCHANGED error
                 ELSE Fail(r.error)
    /\ UNCHANGED <<ctx, stripped, reset, signature, targetDir, outPackage,
                   package>>

\* signPackage(appBundleDir): codesign's exit status is ignored; only a
\* missing codesign (Popen raising) ends the run.
SignPackage ==
    /\ phase = "prepare" /\ CurrentStage = "sign"
    /\ \/ /\ signature' = Tree
          /\ Advance
          /\ UNCHANGED error
       \/ /\ Advance
          /\ UNCHANGED <<signature, error>>
       \/ /\ Fail("NoCodesign")
          /\ UNCHANGED signature
    /\ UNCHANGED <<ctx, staged, stripped, reset, buildInfo, targetDir,
                   outPackage, package>>

\* Mutant: packaging without waiting for prepare() to return.
PackageEarly ==
    /\ phase \in {"prepare", "package"}
    /\ \/ package' = Tree
       \/ UNCHANGED package
    /\ phase' = "done"
    /\ UNCHANGED <<ctx, stage, staged, stripped, reset, buildInfo, signature,
                   targetDir, outPackage, error>>

\* package(): the installer tool packages the tree as it is now, or
\* produces nothing (no Qt IFW, or createInstaller failed).
Package ==
    /\ phase = "package"
    /\ \/ package' = Tree
       \/ UNCHANGED package
    /\ phase' = "done"
    /\ UNCHANGED <<ctx, stage, staged, stripped, reset, buildInfo, signature,
                   targetDir, outPackage, error>>

Next ==
    \/ MakeInstall
    \/ ResolveTarget
    \/ StripSymbols
    \/ ResetFilePermissions
    \/ RemoveUnneededFiles
    \/ WriteBuildInfo
    \/ SignPackage
    \/ Package

\* A run ends in "done" or "failed": the script exits.
Spec == Init /\ [][Next]_vars

TypeOK ==
    /\ ctx \in [platform : Platforms, env : CIEnvChoices, git : GitOutcomes,
                arch : {"32bit", "64bit"}, ifw : IFWVersions]
    /\ phase \in {"prepare", "package", "done", "failed"}
    /\ stage \in 1..Len(StagesOf(ctx.platform))
    /\ staged \subseteq Files /\ stripped \subseteq Files /\ reset \subseteq Files
    /\ buildInfo \in Seq([key : {"commit", "url", "blank", "host", "wine",
                                 "winver"},
                          val : {"hash", "Unknown", "travis", "appveyor",
                                 "info", "ver", ""}])
    /\ error \in Errors \cup {"MakeFailed", "StripFailed", "NoCodesign"}
    /\ targetDir \in {"unset", "@ApplicationsDir@", "@ApplicationsDirX86@",
                      "@ApplicationsDirX64@"}

(***************************************************************************)
(* Properties of the tree a run packages.                                  *)
(***************************************************************************)
\* prepare() strips after the tree is installed and adds no binary after
\* stripping: every binary the installer packages has been stripped.
PackagedBinariesStripped ==
    \A f \in package.files : Kind[f] \in BinaryKinds => f \in package.stripped

\* The Windows scripts package no static library, static .prl, debug
\* database or import library: removeUnneededFiles ran over the whole tree
\* after everything that adds files to it but build-info.txt.
BuildOnlyKinds == {"a", "static.prl", "pdb", "lib"}

PackageHasNoBuildOnlyFiles ==
    ctx.platform # "mac" =>
        \A f \in package.files : Kind[f] \notin BuildOnlyKinds

\* On macOS, when codesign signed the bundle, nothing in it changed between
\* the signing and the packaging: the package carries a valid signature.
SignatureCoversPackage ==
    (ctx.platform = "mac" /\ package # NoTree /\ signature # NoTree)
        => signature = package

\* A CI build-log configuration is active: the direct URL variable with a
\* value, or, when the direct variable is absent, the AppVeyor triple.
CIConfigured(env) ==
    \/ env.travis = "set"
    \/ /\ env.travis = "unset"
       /\ env.account = "set" /\ env.project = "set" /\ env.job = "set"

UrlLines(info) == {i \in 1..Len(info) : info[i].key = "url"}

\* writeBuildInfo (spec 4.4 and 8): a packaged tree holds build-info.txt,
\* opening with the commit hash or "Unknown", with exactly one build-log
\* line when a CI URL or the AppVeyor triple is in the environment and
\* none otherwise.
ProvenanceRecorded ==
    package # NoTree =>
        /\ BuildInfoFile \in package.files
        /\ Len(package.info) > 0
        /\ package.info[1] =
              Line("commit", IF ctx.git = "hash" THEN "hash" ELSE "Unknown")
        /\ Cardinality(UrlLines(package.info)) =
              IF CIConfigured(ctx.env) THEN 1 ELSE 0

\* Spec 4.2: after resetFilePermissions every file of the macOS bundle has
\* the installer-safe permissions, whatever the umask.
PackageTreePermissionsReset ==
    (ctx.platform = "mac" /\ package # NoTree)
        => package.files \subseteq package.reset

\* Spec 4.4: build-info.txt records the host system (Windows: the
\* interpreter's version string or generic platform text).
HostInfoRecorded ==
    package # NoTree =>
        \E i \in 1..Len(package.info) : package.info[i].key = "host"

\* Spec 4.5: the package file is named after the program.
OutPackageNamedAfterProgram ==
    package # NoTree => outPackage.name = ProgramName

\* Spec 4.4 and 7: missing optional data (CI variables, host tools) never
\* fails the run.
NoFailureOnOptionalData ==
    error \notin {"KeyError", "NoSwVers", "NoWine"}

(***************************************************************************)
(* Refinement: a run of the scripts is a run of the coordinator of spec   *)
(* 4.6.  The abstract state is the phase; the plan is the set of stages   *)
(* the platform's prepare() calls; the completed sub-stages are the ones  *)
(* before the stage counter (all of them once prepare() has returned).    *)
(* The order is not mapped: the abstract spec allows only the orders the  *)
(* spec's stage contracts permit, so the mapping holds only if the        *)
(* script's list is one of them.                                           *)
(***************************************************************************)
AbstractState ==
    CASE phase = "prepare" -> "Preparing"
      [] phase = "package" -> "Packaging"
      [] phase = "done" -> "Done"
      [] phase = "failed" -> "Failed"

StageSet(p) == {StagesOf(p)[i] : i \in 1..Len(StagesOf(p))}

DoneStages ==
    IF phase \in {"package", "done"} THEN StageSet(ctx.platform)
    ELSE {StagesOf(ctx.platform)[i] : i \in 1..(stage - 1)}

Abstract == INSTANCE PipelineAbstract
    WITH state <- AbstractState,
         plan <- StageSet(ctx.platform),
         done <- DoneStages,
         packaged <- (package # NoTree)

\* The stage sequence of prepare() and the packaging call of the driver
\* implement the coordinator of spec 4.6: every stage the script calls
\* runs once and after the stages the spec requires before it (make
\* install before the stages that work on the tree, every change to the
\* tree before signing), packaging follows the last one, and an exception
\* skips the rest.
ImplementsAbstract == Abstract!Spec

=============================================================================
