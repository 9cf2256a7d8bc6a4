---------------------------- MODULE MCPipeline -----------------------------
(***************************************************************************)
(* Instances of Pipeline for TLC: one staged file of each suffix class.   *)
(***************************************************************************)
EXTENDS Pipeline, TLC

CONSTANTS fexe, fdll, fa, fprl, fpdb, flib, fdata, finfo

MCBuildFiles == {fexe, fdll, fa, fprl, fpdb, flib, fdata}

MCKind ==
    (fexe :> "exe") @@ (fdll :> "dll") @@ (fa :> "a") @@
    (fprl :> "static.prl") @@ (fpdb :> "pdb") @@ (flib :> "lib") @@
    (fdata :> "data") @@ (finfo :> "data")

\* Qt IFW not found, a 2.x, a 3.x and a 4.x release.
MCIFWVersions == {<<>>, <<2, 0>>, <<3, 1>>, <<4, 0>>}

MCAllPlatforms == {"mac", "windows", "posix_windows"}

MCMac == {"mac"}

MCWindows == {"windows"}

MCHostPlatforms == {"mac", "posix_windows"}

\* Every CI environment.
MCAllEnvs == CIEnvs

\* The CI environments in which the AppVeyor KeyError cannot happen.
MCEnvsWithSlug == {e \in CIEnvs : e.slug = "set"}

=============================================================================
