\* get_specs_for_current_machine over every specs.json with or without the
\* machine's and the system type's key, SYS_TYPE set or not.
CONSTANTS
    Machines <- MCMachines
    SysTypes <- MCSysTypes
    SpecEntries <- MCSpecEntries
    Unset = Unset

SPECIFICATION Spec

INVARIANT SpecsResolved

\* The call returns or raises, and the program goes on or ends.
CHECK_DEADLOCK FALSE
