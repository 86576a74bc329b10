\* A keygen run again on the same base is interrupted, and sign loads the base.
SPECIFICATION Spec
CONSTANTS
    NumSeats = 3
    T = 2
    NumKeygens = 2
    MaxCrashes = 0
    Overlap = FALSE
    MkdirDurable = TRUE
INVARIANT LoadedSharesAreConfirmed
CHECK_DEADLOCK FALSE
