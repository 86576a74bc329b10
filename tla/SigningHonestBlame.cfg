\* Aborted runs called again on the same session, by an all-honest roster.
SPECIFICATION Spec
CONSTANTS
    s1 = s1
    s2 = s2
    Sessions <- OneSession
    N = 3
    T = 2
    MinSigners = 2
    NumInputs = 1
    Calls <- RunOnly
    MaxAttempts = 3
    NoNonce = NoNonce
    NoPackage = NoPackage
    NoRound1 = NoRound1
INVARIANT OnlyMisbehavingSeatsBlamed
CHECK_DEADLOCK FALSE
