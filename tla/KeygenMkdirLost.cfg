\* A crash on a file system that settles a directory only when its parent is fsynced.
SPECIFICATION Spec
CONSTANTS
    NumSeats = 2
    T = 2
    NumKeygens = 1
    MaxCrashes = 1
    Overlap = FALSE
    MkdirDurable = FALSE
INVARIANT IndexedShareIsDurable
CHECK_DEADLOCK FALSE
