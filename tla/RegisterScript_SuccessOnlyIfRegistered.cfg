SPECIFICATION Spec
INVARIANTS
    SuccessOnlyIfRegistered
CHECK_DEADLOCK FALSE
