CONSTANTS
    fa = fa
    fb = fb
    fc = fc
    fd = fd
    Files <- MCFiles
    Existing <- MCExisting
    InRoot <- MCInRoot
    DiscoverList <- MCDiscoverList
    ArgLists <- MCArgLists
    UserSet = TRUE
SPECIFICATION FairSpec
INVARIANTS
    TypeOK
    NoLingeringServers
PROPERTIES
    Terminates
    RunsEachFileOnceInOrder
CHECK_DEADLOCK FALSE
