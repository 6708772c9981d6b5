\* build_and_test_host_configs over two host configs, all exit codes.
CONSTANTS
    h1 = h1
    h2 = h2
    NoHC = NoHC
    HostConfigs <- MCHostConfigs

SPECIFICATION Spec

INVARIANT TypeOK
INVARIANT FailFast
INVARIANT StatusReflectsPipeline
INVARIANT AggregateOutcome

\* The program exits after returning or raising.
CHECK_DEADLOCK FALSE
