CONSTANTS
    fa = fa
    fb = fb
    fc = fc
    fd = fd
    Files <- MCFiles
    Existing <- MCExisting
    InRoot <- MCInRoot
    DiscoverList <- MCDiscoverList
    ArgLists <- MCArgLists
    UserSet = TRUE
SPECIFICATION Spec
INVARIANTS
    ResultsAccountForAll
CHECK_DEADLOCK FALSE
