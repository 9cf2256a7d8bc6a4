CONSTANTS
    fexe = fexe
    fdll = fdll
    fa = fa
    fprl = fprl
    fpdb = fpdb
    flib = flib
    fdata = fdata
    finfo = finfo
    BuildFiles <- MCBuildFiles
    Kind <- MCKind
    BuildInfoFile = finfo
    IFWVersions <- MCIFWVersions
    Platforms <- MCWindows
    CIEnvChoices <- MCEnvsWithSlug

SPECIFICATION Spec

INVARIANT OutPackageNamedAfterProgram

\* A run ends with the script exiting, after packaging or an exception.
CHECK_DEADLOCK FALSE
