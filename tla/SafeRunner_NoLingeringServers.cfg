CONSTANTS
    fa = fa
    fb = fb
    fc = fc
    fd = fd
    Files <- MCFiles
    Existing <- MCExisting
    InRoot <- MCInRoot
    DiscoverList <- MCDiscoverList
    ArgLists <- MCArgLists
    UserSet = FALSE
SPECIFICATION Spec
INVARIANTS
    NoLingeringServers
CHECK_DEADLOCK FALSE
