\* Once the prefix exists and the specs are being built, are prefix and
\* mirror perms always normalized in the end?
CONSTANTS
    h1 = h1
    h2 = h2
    s1 = s1
    s2 = s2
    NoHC = NoHC
    HostConfigs <- MCHostConfigs
    SpecList <- MCSpecList
    ConfigOf <- MCConfigOf

SPECIFICATION Spec





PROPERTY EventuallyPermsNormalized

\* The program exits after returning or raising.
CHECK_DEADLOCK FALSE
