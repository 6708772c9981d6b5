\* Does build_and_test_host_configs always get to its aggregate status?
CONSTANTS
    h1 = h1
    h2 = h2
    NoHC = NoHC
    HostConfigs <- MCHostConfigs

SPECIFICATION Spec

PROPERTY EventuallyReports

\* The program exits after returning or raising.
CHECK_DEADLOCK FALSE
