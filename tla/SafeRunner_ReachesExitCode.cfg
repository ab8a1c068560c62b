CONSTANTS
    fa = fa
    fb = fb
    fc = fc
    fd = fd
    Files <- MCFiles
    Existing <- MCExisting
    InRoot <- MCInRoot
    DiscoverList <- MCDiscoverList
    ArgLists <- MCArgLists
    UserSet = TRUE
SPECIFICATION FairSpec
PROPERTIES
    ReachesExitCode
CHECK_DEADLOCK FALSE
