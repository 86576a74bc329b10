\* Two sessions share a board, run at most twice each, 2 of 3 seats.
SPECIFICATION FairSpec
CONSTANTS
    s1 = s1
    s2 = s2
    Sessions <- TwoSessions
    N = 3
    T = 2
    MinSigners = 2
    NumInputs = 1
    Calls <- RunOnly
    MaxAttempts = 2
    NoNonce = NoNonce
    NoPackage = NoPackage
    NoRound1 = NoRound1
INVARIANT OnlyReuseFails
PROPERTY FirstRunSucceeds
CHECK_DEADLOCK FALSE
