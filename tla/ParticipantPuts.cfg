SPECIFICATION Spec
CONSTANTS
    Lines = {genesis, next}
    Genesis = genesis
    Seats = {seat}
    States = {"ACTIVE", "STANDBY"}
    Puts = {n1, n2, n3}
    Newer = newer
    MaxCrashes = 1
    MkdirDurable = TRUE
SYMMETRY Symmetry
CHECK_DEADLOCK FALSE
INVARIANT TypeOK
INVARIANT IndexNeverDangles
INVARIANT OneEntryPerTag
INVARIANT OnlyRacesLoseEntries
INVARIANT NoShareMissing
INVARIANT OthersNeverDisturb
