\* One session, four calls: the expectation engine and the helpers
\* against a server that answers late, sends a PING or other traffic and
\* may close the link.
CONSTANTS
    Sessions = {s1}
    Caps = {c1, c2, c3}
    ServerCaps = {c1, c2}
    Chans = {ch1}
    Tokens = {t1}
    Timeout = 2
    HelperTimeout = 2
    DrainWindow = 1
    ExpectSets <- MCExpectSets
    MaxCalls = 4
    MaxNoise = 1

SPECIFICATION FairSpec

INVARIANT TypeOK
INVARIANT WaitWithinDeadline
INVARIANT RegisteredOnlyAfterWelcome
PROPERTY TimeoutOnlyAtDeadline
PROPERTY CallsReturn

CHECK_DEADLOCK FALSE
