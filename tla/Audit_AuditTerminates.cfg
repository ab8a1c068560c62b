CONSTANTS
    n1 = n1
    n2 = n2
    n3 = n3
    Names <- MCNames
    TestFiles <- MCTestFiles
SPECIFICATION FairSpec
PROPERTIES
    AuditTerminates
CHECK_DEADLOCK FALSE
