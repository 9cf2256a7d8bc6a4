# TLA+ models of the akvirtualcamera deploy scripts

This directory holds TLA+ models of the three deploy scripts under
`src/ports/deploy/`: `deploy_mac.py`, `deploy_windows.py` and
`deploy_posix_windows.py`. It also holds the TLC configurations that
model-check the models, and TLAPS proofs about the packaging stage.
`PROJECT.json` lists the components, runs, mutants, source map, findings,
hazards and theorems in machine-readable form.

## 1. The system

A deploy script is a class `Deploy` with two entry points. A driver outside
this repository calls `prepare()` and, if it returns, `package()`.

| Part (spec name) | Code | What it does |
|---|---|---|
| InstallTreeBuilder | `prepare()`, `removeUnneededFiles()` | Runs `make install` into a staging tree (not in posix_windows, whose tree the build installs), then deletes `.a`, `.static.prl`, `.pdb` and `.lib` files (Windows scripts only). |
| BinaryHardener | `prepare()` calling `binarySolver.stripSymbols` / `resetFilePermissions` | Strips every binary. On macOS it also resets file modes. |
| InstallerTargetResolver | `prepare()` (Windows), `__init__` (macOS) | Chooses the `@ApplicationsDir…@` token from the Qt IFW major version and the architecture, and the output file name. |
| ProvenanceWriter | `writeBuildInfo()`, `commitHash()`, `sysInfo()` | Writes `build-info.txt`: the commit hash or `Unknown`, the CI build-log URL when one is configured, and host information. posix_windows also writes the wine versions. |
| PackageSigner | `signPackage()` (macOS) | Runs `codesign --force --sign -` on the bundle. It ignores the exit status. |
| PackagingCoordinator | `package()`, `createAppInstaller()`, `printPackageInfo()`, `hrSize()` | Starts one thread per detected installer back-end and joins them all. Each thread builds a package and prints a report under a shared `threading.Lock`. |

How the parts interact:
- The stages of `prepare()` run in sequence on one thread. An exception in
  any stage ends the run.
- Packaging reads the staged tree that `prepare()` left behind.
- The packaging threads share only the console, the mutex and the
  packages directory.

Not modelled:
- `removeDebugs()` (windows 85-98) and `dirSize()` (mac 181-192): no code
  calls them.
- The collaborators outside `src/` (`deploy_base`, `tools.*`, the installer
  back-end). They appear only as the outcomes they can have: success,
  failure, a produced file of some size, or nothing.

## 2. Modules

| Module | Models | State / operators |
|---|---|---|
| `Packaging` | `package`, `createAppInstaller`, `printPackageInfo`, `hrSize` (windows 187-237; the same code in the other two scripts) | See below. |
| `PackagingProofs` | TLAPS proofs about `Packaging`: types, the mutex, non-interleaving | |
| `PackagingReportProofs` | TLAPS proofs that reports come out whole and in order | |
| `BuildInfo` | `writeBuildInfo`, `commitHash`, `sysInfo` of all three scripts | See below. |
| `Pipeline` | `prepare()` of each script and the packaging stage as seen from the tree | See below. |
| `HrSize` | `hrSize` (windows 187-197) as pure operators | See below. |
| `HrSizeCheck` | `hrSize` over a set of sizes, against spec §8 | `size`, `result` |
| `PipelineAbstract` | the coordinator of spec §4.6: Preparing → Packaging → Done / Failed, with the stage order the spec's contracts require | `state`, `plan`, `done`, `packaged` |
| `PipelineProofs` | TLAPS proofs about `Pipeline`: the refinement, stripped binaries | |
| `PipelineTreeProofs` | TLAPS proofs about the packaged tree: build-only files, signature, provenance | |
| `PipelineTypeProofs` | TLAPS proof of `Pipeline`'s `TypeOK` | |
| `MCPackaging`, `MCPipeline` | model values and instances for TLC | |

**Packaging.**
- Variables:
  - `threads`: the back-ends detected.
  - `started`, `mainPc`: the start and join loops.
  - `pc[b]`: where thread `b` is in `createAppInstaller`.
  - `lock`: the holder of the mutex.
  - `files`: the size of each path, or `Absent`.
  - `out`: the console, one record per printed line.
- One action per statement that changes state: `StartThread`, `AllStarted`,
  `JoinAll`, `CreateInstaller`, `Acquire`, `PrintCreated`,
  `PrintPackageInfo`, `PrintSha`, `Release`.
- `PrintPackageInfo` has three disjuncts:
  - the file is missing: print FAILED;
  - `hrSize` raises on a zero-byte file: the thread dies holding the lock;
  - otherwise: print the size line.
- `Init` allows any files already in the packages directory, since nothing
  clears it between runs.

**BuildInfo.**
- Pure operators. Each maps an environment (`CIEnvs`: each CI variable
  absent, empty or set), a git outcome and the host tools' behaviour to
  `[lines, error]`: the lines of `build-info.txt` and the exception the call
  raises.
- The `if/elif` chain for `buildLogUrl` is `BuildLogUrl`. It includes the
  `APPVEYOR_PROJECT_SLUG` lookup that raises `KeyError`. It is a nested
  `IF`/`ELSE IF`, as the Python chain is. An earlier version used a `CASE`,
  and its guards overlapped: an empty `TRAVIS_BUILD_WEB_URL` together with
  the AppVeyor triple satisfied two arms. A TLA+ `CASE` with overlapping
  guards picks an arm arbitrarily, so the model did not say that the Travis
  test wins. The provenance proof could not go through, and that is how the
  mistake was found.
- `Then` sequences blocks the way consecutive Python statements do: an
  exception skips the rest.

**Pipeline.**
- Variables:
  - `ctx`: platform, CI environment, git outcome, architecture, Qt IFW
    version.
  - `phase`, `stage`: the position in the script's stage list
    (`MacStages`, `WindowsStages`, `PosixWindowsStages`, in the order the
    code calls them).
  - `staged`, `stripped`, `reset`: sets of files.
  - `buildInfo`: from `BuildInfo`.
  - `signature`: the tree codesign signed.
  - `targetDir`, `outPackage`.
  - `error`.
  - `package`: the snapshot of the tree that was packaged.
- Actions:
  - `MakeInstall` and `StripSymbols` either succeed or fail.
  - `ResolveTarget`, `ResetFilePermissions`, `RemoveUnneededFiles`.
  - `WriteBuildInfo` takes any host-tool behaviour. The file is created even
    when the call raises part-way.
  - `SignPackage`: signed, failed with the status ignored, or codesign
    missing.
  - `Package`: a package of the current tree, or none.

**HrSize.**
- `LogQuotientFloor` is `int(math.log(size) // math.log(1024))` as IEEE
  doubles compute it. Below 2^31 it equals the exact exponent `Log1024`
  except at `1024**3`, where the quotient is 2.9999999999999996 and the
  floor is 2. This was measured in CPython, and it is the only data in the
  project that was not derived from reading the code.
- `Hundredths(n, d)` is `'{:.2f}'.format(n / d)` in hundredths. `n / d` is
  exact because `d` is a power of two, and `.2f` rounds half to even.
- `HrSize` raises `ValueError` on 0 and `IndexError` past TiB. `Packaging`
  uses it (`HrSizeRaises`) to decide which printed sizes kill a thread.
- `SpecHrSize` is what spec §8 asks for. It is a reference, not code.

**PipelineAbstract and the refinement.** `PipelineAbstract` is written from
`spec.md` alone and names no script. Its `plan` is a set of sub-stages
(`SubStages`), which must contain `strip` and `buildinfo` (`Mandatory`).
This is because §3 says packaging needs a stripped, provenance-stamped
tree. A sub-stage may complete only once every stage that `Requires` puts
before it has completed, if the plan contains that stage. `Requires` has
two parts:
- `install` comes before every stage that works on the staged tree
  (§4.1–4.4).
- Every stage that changes the tree (`strip`, `perms`, `remove`,
  `buildinfo`) comes before `sign`. A signature covers the bundle only if
  nothing in it changes afterwards (§4.3).

Spec §2's overview lists the signer before the provenance writer. That
listing is not taken as a requirement, because following it would break
the signature; the code signs last.

`Pipeline` ends with the mapping `Abstract == INSTANCE PipelineAbstract
WITH ...`:
- `state` is the phase;
- `plan` is the set of stages the platform's `prepare()` calls
  (`StageSet`);
- `done` is the set of those before the stage counter (`DoneStages`);
- `packaged` records whether a package exists.

The order of the script's list is deliberately not mapped. The property
`ImplementsAbstract == Abstract!Spec` therefore holds only if each
script's own list is one of the orders the spec allows. It says that:
- each stage runs once, after the stages the spec requires before it;
- every plan strips and writes `build-info.txt`;
- `package()` runs only after the last stage;
- nothing changes once a run has failed.

Each of these reorderings breaks it:
- stripping before `make install` (`WindowsStagesStripFirst`);
- signing before `build-info.txt` (`MacStagesSignEarly`, the run's
  mutant);
- packaging before `prepare()` returns (`PackageEarly`).

## 3. Runs

The properties of each run are listed in `PROJECT.json`.

**Passing runs:**
- **packaging** (`MCPackaging.cfg`: two back-ends, two paths, sizes {1,2}).
  - Invariants:
    - `ReportsContiguous`: one back-end's lines are never split by another's.
    - `ReportWellFormed`: every report is a prefix of "created, size, sha" or
      "created, failed", and is complete once `package()` returns. It is
      stated line by line, as the conjunction of two parts:
      - `ReportOrder`: a back-end's first line is its header, and every
        later line comes right after the line of the same back-end that
        precedes it in the report (`Before`).
      - `ReportsClosed`: a header or size line is followed by the next line
        of the same report.
    - `IInv`: the inductive invariant below.
  - Properties:
    - `Termination`, under fairness.
    - `PrintOnlyUnderMutex`, an action property. Every step that writes to
      the console appends exactly one line, printed by the thread that holds
      the mutex. Earlier lines stay as they were.
- **packaging_empty** (`MCPackagingHang.cfg`: sizes {0,1}). Even when a
  thread dies inside the critical section, no report is interleaved.
- **pipeline** (`MCPipeline.cfg`: all three platforms, every CI environment,
  both git outcomes, both architectures, Qt IFW '', 2.0, 3.1, 4.0, and one
  staged file of each suffix class). It checks:
  - `TypeOK`, including the lines of `build-info.txt` after a partial
    write.
  - `PackagedBinariesStripped`
  - `PackageHasNoBuildOnlyFiles` (Windows scripts)
  - `SignatureCoversPackage` (macOS): a signed bundle is not changed before
    packaging.
  - `ProvenanceRecorded`: the first line is the commit hash or `Unknown`,
    and there is exactly one URL line iff a CI configuration is active.
  - `ImplementsAbstract`: the refinement above, checked as a temporal
    property.

**Violation runs.** Each is a disagreement between the code and `spec.md`,
recorded under "findings":

| Run | Property | What the counterexample shows |
|---|---|---|
| packaging_hang | `Termination` | A zero-byte package makes `hrSize` raise between `acquire()` and `release()`. The second thread blocks forever and `package()` never returns. |
| packaging_truncated | `ReportWellFormed` | With the one Qt IFW back-end, the report stops after "Created installable package:". |
| pipeline_keyerror | `NoFailureOnOptionalData` | On Windows, the AppVeyor triple without `APPVEYOR_PROJECT_SLUG` raises `KeyError`. |
| pipeline_host_tools | `NoFailureOnOptionalData` | A missing `sw_vers` or `wine` aborts the run. |
| pipeline_perms | `PackageTreePermissionsReset` | On macOS, `build-info.txt` is written after the permission reset. |
| pipeline_host_info | `HostInfoRecorded` | The Windows script never calls its own `sysInfo()`. |
| hrsize_unit | `HrSizeUnitConsistent` | `hrSize(1024**3)` prints `1024.00 MiB`, not `1.00 GiB`. |
| pipeline_name | `OutPackageNamedAfterProgram` | The Windows installer is named `webcamoid-…`. |

**Bounds.**
- Two back-ends are the fewest that can interleave, and the spec's §8 asks
  for exactly two. One back-end covers the shipped configuration
  (packaging_truncated).
- Sizes {0,1} and {1,2} separate the only size distinctions the code makes:
  0 raises, anything else prints.
- Two paths let the second back-end's file differ from `OutPackage`, so a
  report for a file that is missing (FAILED) and one for a file that is
  present both occur.
- Pipeline enumerates every input the code branches on. One file per suffix
  class distinguishes everything `removeUnneededFiles` and `stripSymbols`
  test.
- HrSize takes 0, every power of 1024 up to 1024^3 together with its two
  neighbours, and a half-way value (1536), because the code's decisions
  change at those sizes. Sizes from `1024**5 - 3` (the `IndexError`) lie
  beyond TLC's 32-bit integers.

**Mutants.** Every property of a passing run has a mutant: a plausible slip in
the mapped code (a dropped lock guard, a missing release, a skipped sha line,
an off-by-one in the stage counter, reordered stages, a missing suffix, a
dropped URL guard). TLC must find each one violating its property.

## 4. Fairness

The model assumes weak fairness for every thread and for the main loop:
- CPython threads are preemptively scheduled, so a runnable thread keeps
  getting turns.
- A thread blocked on `acquire()` is not enabled, so fairness does not
  rescue it. This is why the hang is a real counterexample rather than an
  unfair behaviour.

Pipeline has no fairness and no liveness property. It runs on one thread,
and it ends in `done` or `failed` when the script exits. That is also why
its runs set `CHECK_DEADLOCK FALSE`, and why the Packaging runs do too:
after `package()` returns the process ends.

## 5. Proofs

`PackagingProofs` proves with TLAPS, for every set of back-ends, paths and
sizes that satisfy the `ASSUME`s of `Packaging`:

- `TypeCorrect`: `Spec => []TypeOK`.
- `ReportsNeverInterleave`: `Spec => []ReportsContiguous`.
- `MutexInvariant`: `Spec => []IInv`.
- `PrintsUnderMutex`: `Spec => PrintOnlyUnderMutex`. This is an action
  property, derived from `IInv`. A print action runs only in a state in
  `HoldingStates`, and `LockInv` says that the lock holder is that thread
  (`HolderAppends`, `AppendStep`).

`ReportsContiguous` is not inductive on its own: a step of a thread could
append a line after someone else's block. The strengthening `IInv` adds:
- `LockInv`: exactly the threads between `acquire` and `release`, or dead
  inside that section, hold the lock, and the holder is in such a state.
- `SilentInv`: a thread prints nothing before it holds the lock.
- `LastLineInv`: while a thread reports, the last line of the console is its
  own.
- `StartedInv`.

Together these say that a print step appends to the block that is already
last, and that a thread's first line starts a fresh block. `IInv` is
checked by TLC in both passing Packaging runs before it is proved.

The proof is structured as follows:
- lemmas on `Append` and on `Contiguous` of an appended sequence
  (`ContiguousAppend`);
- `PrintStep`, shared by the three print actions;
- `IInvStep`, one case per action.

`PipelineProofs` proves, for every platform and every staged tree that
satisfy the `ASSUME`s of `Pipeline`:
- `Refinement`: `Spec => ImplementsAbstract`.
  - `StageInv` is inductive: the platform is fixed and the stage counter
    stays inside the platform's stage list.
  - `PlanOrder` is the one fact about the scripts that the proof needs.
    Each platform's list names each sub-stage once, and puts a stage
    after every stage that `Requires` orders before it. Its plan also
    contains the mandatory stages. The lemma is proved by expanding the
    three literal lists, so it fails for any list that reorders them
    against the spec.
  - `RefinementStep` has one lemma per action:
    - `Advance` adds `P[stage]` to `DoneStages`. `PlanOrder` shows that
      this stage is not yet done and that its prerequisites are the
      earlier entries. It also shows that the set equals the plan exactly
      when the counter is at the last stage (`AdvanceRefines`).
    - `Fail` maps to `Fail`, and `Package` maps to `Finish`.
    - Every other step is a stutter of the abstract spec.
- `StrippedPackages`: `Spec => []PackagedBinariesStripped`.
  - The invariant is not inductive alone: a package step copies the staged
    tree, so what must hold is that the staged tree's binaries are stripped.
    That is true only once the strip stage has completed.
  - `PInv` adds `StripInv`: once `StripDone` holds (the strip stage lies
    before the current stage, or preparing is over), every binary in
    `staged` is in `stripped`. No later stage of any platform adds a
    binary.
  - `PInv` was checked by TLC on the pipeline instance before it was
    proved.

`PackagingReportProofs` proves the following:
- `ReportsInOrder`: `Spec => []ReportOrder`, for every set of back-ends,
  paths and sizes. This includes the zero-byte package that kills a thread
  inside the critical section.
- `WellFormedReports`: `ASSUME NoSizeRaises PROVE Spec => []ReportWellFormed`.
  - `NoSizeRaises` says that no size in `Sizes` makes `hrSize` raise.
  - The hypothesis is needed: packaging_truncated violates the property with
    a zero-byte package.
  - The hypothesis holds on the packaging instance, sizes {1,2}, which TLC
    evaluates.

The inductive invariant `ReportInv` is `IInv` plus four parts:
- `ReportOrder`.
- `OpenInv`: a header or size line is followed by a line of the same
  back-end, or it is the last line and its thread is in `info`, `sha` or
  `dead`.
- `LastKindInv`: the last line's kind tells where the reporting thread is
  in `printPackageInfo`.
- `JoinedInv`: once `package()` has returned, every thread is `idle`,
  `done` or `dead`.

The proof steps are as follows:
- `ReportPrint` covers the four print statements.
- `QuietStep` covers every step that prints nothing.
- Under the hypothesis, `NoDeadStep` shows that no thread dies, and
  `ClosedWhenJoined` turns `OpenInv` into `ReportsClosed` once
  `package()` has returned.

TLC checked `ReportInv` on the packaging, packaging_empty and
packaging_truncated instances before it was proved.

`ReportWellFormed` was first written with `SelectSeq`, as "the kinds of
each back-end's lines form a prefix of a full report". `SelectSeq` is a
recursive function, and what it returns after an `Append` needs induction
over the sequence, which these provers cannot do. The positional form says
the same thing, together with contiguity. TLC found the two forms
equivalent on every reachable state of the three Packaging instances before
the change. The violation run and the mutant still break the new form.

`PipelineTreeProofs` proves three invariants of the packaged tree. All three
rest on `StageDone(name)`: the stage `name` lies before the stage counter, or
`prepare()` has returned.

It also uses `PackagedInv`: a package, once made, equals the current tree,
and the run is over. That conjunct is needed because `Package` copies the
tree, so every claim about the package has to be a claim about `staged`.

- `NoBuildOnlyPackages`: `Spec => []PackageHasNoBuildOnlyFiles`.
  - `RemoveInv`: on Windows, once `remove` is done, `staged` holds no
    build-only file.
  - `TreePlanFacts` supplies the plan facts: `install` comes before
    `remove`, and `remove` is never the last stage.
  - The only file added later is `build-info.txt`, which is a data file.
- `SignedPackages`: `Spec => []SignatureCoversPackage`.
  - `SignInv`: nothing is signed during `prepare`, and a signature equals
    the current tree.
  - This holds because `sign` is the last stage of any plan that has it.
- `ProvenanceOfPackages`: `Spec => []ProvenanceRecorded`.
  - `ProvInv`: once `buildinfo` is done, `build-info.txt` is in the tree,
    and its lines start with the commit line. The URL line is line 2 exactly
    when a CI configuration is active.
  - The lemmas on the writers show this for each script's `writeBuildInfo`
    when it returns:
    - `RepositoryFacts` and `UrlIffConfigured` for the repository block;
    - `HostInfoNoUrl` and `WineNoUrl`: what the host tools add has no URL
      line;
    - `UrlConcat`: appending such lines keeps the first line and the URL
      lines.
  - `RecordedProvenance` turns the positions into the cardinality
    `ProvenanceRecorded` states.

`PipelineTypeProofs` proves `PipelineTypeCorrect`: `Spec => []TypeOK`.
- `TypeOK` is inductive as it stands. The stage conjunct comes from
  `StageInv`.
- The argument is `WriterTyped`: each writer yields typed lines and one of
  its exceptions, whether it returns or raises part-way.
- `WriterTyped` composes through `ThenTyped`.

Every strengthening was checked by TLC on the pipeline instance before it
was proved.

Only TLC checks the following:
- `Termination` and every liveness claim: TLAPS does not handle ENABLED or
  fairness here.
- The properties of the violation runs, which are false by design.
- HrSize: what the rounding computes is a claim about arithmetic on
  specific inputs, so TLC's enumeration is the check.

## 6. Plan for later work

1. Compose `Pipeline` with `Packaging`, so that the packaging threads read
   the staged tree and the stale packages directory.
2. Successive runs over the same staging directory, which no script
   cleans.
3. A Packaging liveness argument that TLAPS can check, for example a
   bound on the steps until `package()` returns, when no size raises.
4. Model a non-numeric Qt IFW version string (hazard at windows 64).
