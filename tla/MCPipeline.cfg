CONSTANTS
    fexe = fexe
    fdll = fdll
    fa = fa
    fprl = fprl
    fpdb = fpdb
    flib = flib
    fdata = fdata
    finfo = finfo
    BuildFiles <- MCBuildFiles
    Kind <- MCKind
    BuildInfoFile = finfo
    IFWVersions <- MCIFWVersions
    Platforms <- MCAllPlatforms
    CIEnvChoices <- MCAllEnvs

SPECIFICATION Spec

INVARIANT TypeOK
INVARIANT PackagedBinariesStripped
INVARIANT PackageHasNoBuildOnlyFiles
INVARIANT SignatureCoversPackage
INVARIANT ProvenanceRecorded
PROPERTY ImplementsAbstract

\* A run ends with the script exiting, after packaging or an exception.
CHECK_DEADLOCK FALSE
