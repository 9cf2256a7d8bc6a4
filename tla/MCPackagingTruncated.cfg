CONSTANTS
    b1 = b1
    b2 = b2
    p1 = p1
    p2 = p2
    Backends <- MCQtIFWOnly
    Paths <- MCPaths
    Artifact <- MCQtIFWArtifact
    OutPackage = p1
    Sizes <- MCSizesWithEmpty
    Absent = Absent
    NoOwner = NoOwner

SPECIFICATION FairSpec

INVARIANT ReportWellFormed

CHECK_DEADLOCK FALSE
