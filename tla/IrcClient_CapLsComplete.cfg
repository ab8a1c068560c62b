\* One session; TLC looks for a behaviour that violates CapLsComplete.
CONSTANTS
    Sessions = {s1}
    Caps = {c1, c2, c3}
    ServerCaps = {c1, c2}
    Chans = {ch1}
    Tokens = {t1}
    Timeout = 2
    HelperTimeout = 2
    DrainWindow = 1
    ExpectSets <- MCExpectSets
    MaxCalls = 4
    MaxNoise = 1

SPECIFICATION Spec

INVARIANT CapLsComplete

CHECK_DEADLOCK FALSE
