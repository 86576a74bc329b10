\* Two keygens one after the other on one base, two crashes, and a reader beside them.
SPECIFICATION Spec
CONSTANTS
    NumSeats = 3
    T = 2
    NumKeygens = 2
    MaxCrashes = 2
    Overlap = FALSE
    MkdirDurable = TRUE
INVARIANT TypeOK
INVARIANT IndexedShareExists
INVARIANT FinishedKeygenOwnsBase
PROPERTY ImplementsBase
INVARIANT OneTornRootPerInterruptedRun
CHECK_DEADLOCK FALSE
