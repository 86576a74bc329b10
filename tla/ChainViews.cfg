\* One coin on a chain of 5 blocks with forks of 2, and four fee buckets.
SPECIFICATION Spec
CONSTANTS
    Coins = {c1}
    MaxHeight = 5
    MaxFork = 2
    Window = 1
    Buckets = {1, 2, 6}
    Rates = {1, 2, 3}
    CoreRates = {0, 100, 999, 1000, 1500, 2000, 25999}
    Targets = {0, 1, 2, 3, 7}
INVARIANT TypeOK
INVARIANT ListIsCautious
INVARIANT QuietAnswersAreTrue
INVARIANT DepthTrueButForReorgs
INVARIANT EstimatesAreFaithful
