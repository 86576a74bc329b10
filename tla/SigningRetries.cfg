\* One session of two inputs, called up to three times in any mixture.
SPECIFICATION Spec
CONSTANTS
    s1 = s1
    s2 = s2
    Sessions <- OneSession
    N = 3
    T = 2
    MinSigners = 2
    NumInputs = 2
    Calls <- BothCalls
    MaxAttempts = 3
    NoNonce = NoNonce
    NoPackage = NoPackage
    NoRound1 = NoRound1
INVARIANT TypeOK
INVARIANT NonceNeverSignsTwice
INVARIANT SharesAnswerTheirTopic
INVARIANT WitnessVerifies
INVARIANT SuccessSignsEveryInput
PROPERTY ImplementsLedger
CHECK_DEADLOCK FALSE
