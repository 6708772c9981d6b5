\* The info record of write_build_info over every checkout state git can
\* be in: a CI checkout of a commit has a detached HEAD.
CONSTANTS
    Users <- MCUsers
    SysTypes <- MCSysTypes
    Machines <- MCMachines
    Branches <- MCBranches
    Shas <- MCShas
    Unset = Unset

SPECIFICATION Spec

INVARIANT BuildInfoIsTrue

\* The program ends once the record is written or build_info raised.
CHECK_DEADLOCK FALSE
