\* Is the configure log of every built spec archived?
CONSTANTS
    h1 = h1
    h2 = h2
    s1 = s1
    s2 = s2
    NoHC = NoHC
    HostConfigs <- MCHostConfigs
    SpecList <- MCSpecList
    ConfigOf <- MCConfigOf
    VariantSpecs <- MCVariantSpecs

SPECIFICATION Spec

INVARIANT ArchiveHasConfigLog

\* The job ends after archiving, or when the orchestrator raised.
CHECK_DEADLOCK FALSE
