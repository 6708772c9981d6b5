\* Two specs that differ only in variants: do they get separate build results?
CONSTANTS
    h1 = h1
    h2 = h2
    s1 = s1
    s2 = s2
    NoHC = NoHC
    HostConfigs <- MCHostConfigs
    SpecList <- MCSpecList
    ConfigOf <- MCSharedConfigOf
    VariantSpecs <- MCVariantSpecs

SPECIFICATION Spec

INVARIANT OwnBuildDir

\* The job ends after archiving, or when the orchestrator raised.
CHECK_DEADLOCK FALSE
