\* The same round trip for spec 8's example form, "%gcc@4.9.3^openmpi".
CONSTANTS
    CompilerChars <- MCCompilerChars
    MaxCompilerLen = 3
    Variants <- MCVariants
    Deps <- MCDeps
    Machines <- MCMachines
    NodeNumbers <- MCNodeNumbers
    SysTypes <- MCSysTypes
    Compilers <- MCCompilers
    DepSep <- NoSep

SPECIFICATION Spec

INVARIANT TplLogRoundTrip
