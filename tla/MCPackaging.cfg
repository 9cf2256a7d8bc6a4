CONSTANTS
    b1 = b1
    b2 = b2
    p1 = p1
    p2 = p2
    Backends <- MCBackends
    Paths <- MCPaths
    Artifact <- MCArtifact
    OutPackage = p1
    Sizes <- MCNonEmptySizes
    Absent = Absent
    NoOwner = NoOwner

SPECIFICATION FairSpec

INVARIANT TypeOK
INVARIANT ReportsContiguous
INVARIANT ReportWellFormed
INVARIANT IInv
PROPERTY Termination
PROPERTY PrintOnlyUnderMutex

CHECK_DEADLOCK FALSE
