\* Three processes, two rows of two values, one power loss.
SPECIFICATION Spec
CONSTANTS
    Procs = {p1, p2, p3}
    Keys = {k1, k2}
    Values = {v1, v2}
    MaxCrashes = 1
INVARIANT TypeOK
INVARIANT MigrationIsAtomic
INVARIANT OpenStoreHasTables
INVARIANT LateOpenNeverFails
PROPERTY OpensKeepRows
