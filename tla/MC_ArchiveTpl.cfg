\* The TPL job: full_build_and_test_of_tpls, then archive_tpl_logs, two specs
\* with different compilers.
CONSTANTS
    h1 = h1
    h2 = h2
    s1 = s1
    s2 = s2
    NoHC = NoHC
    HostConfigs <- MCHostConfigs
    SpecList <- MCSpecList
    ConfigOf <- MCConfigOf
    VariantSpecs <- MCVariantSpecs

SPECIFICATION Spec

INVARIANT TypeOK
INVARIANT SpecsFailFast
INVARIANT TplOutcome
INVARIANT TplArchiveReflectsRun

\* The job ends after archiving, or when the orchestrator raised.
CHECK_DEADLOCK FALSE
