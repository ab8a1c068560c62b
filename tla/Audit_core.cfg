CONSTANTS
    n1 = n1
    n2 = n2
    n3 = n3
    Names <- MCNames
    TestFiles <- MCTestFiles
SPECIFICATION Spec
INVARIANTS
    ReportComplete
CHECK_DEADLOCK FALSE
