\* Does a run's archive hold only the status that run reported?
CONSTANTS
    h1 = h1
    h2 = h2
    NoHC = NoHC
    HostConfigs <- MCHostConfigs
    MaxTs = 2
    MaxRuns = 2

SPECIFICATION Spec

INVARIANT ArchivedStatusIsCurrent

\* The job stops for good after its last run.
CHECK_DEADLOCK FALSE
