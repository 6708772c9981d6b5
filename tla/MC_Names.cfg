\* TPL log names round-trip through get_spec_from_tpl_log for specs.json
\* entries that separate the dependency with a space; host, machine and
\* build dir names over every host, system type and host config.
CONSTANTS
    CompilerChars <- MCCompilerChars
    MaxCompilerLen = 3
    Variants <- MCVariants
    Deps <- MCDeps
    Machines <- MCMachines
    NodeNumbers <- MCNodeNumbers
    SysTypes <- MCSysTypes
    Compilers <- MCCompilers
    DepSep <- SpaceSep

SPECIFICATION Spec

INVARIANT TplLogRoundTrip
INVARIANT CompilerFromSpec
INVARIANT SpecFromBuildDirRoundTrip
