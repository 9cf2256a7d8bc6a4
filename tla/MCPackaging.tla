---------------------------- MODULE MCPackaging ----------------------------
(***************************************************************************)
(* Instances of Packaging for TLC.  b1 plays the Qt Installer Framework    *)
(* back-end, whose package is self.outPackage (p1); b2 is a second         *)
(* back-end writing p2, the case the spec asks the design to support.      *)
(***************************************************************************)
EXTENDS Packaging, TLC

CONSTANTS b1, b2, p1, p2

\* The two back-ends the spec's tests simulate.
MCBackends == {b1, b2}

\* Only the Qt Installer Framework back-end, as in the scripts today.
MCQtIFWOnly == {b1}

MCPaths == {p1, p2}

MCArtifact == (b1 :> p1) @@ (b2 :> p2)

MCQtIFWArtifact == b1 :> p1

\* Non-empty packages of two different sizes (a new one and a stale one).
MCNonEmptySizes == {1, 2}

\* A zero-byte package may also be left by the installer tool.
MCSizesWithEmpty == {0, 1}

=============================================================================
