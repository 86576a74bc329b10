\* Two processes, two ceremonies of two seats, two puts, any number of wipes, one power loss.
SPECIFICATION Spec
CONSTANTS
    Procs = {p1, p2}
    Ceremonies = {c1, c2}
    Seats = {s1, s2}
    MaxPuts = 2
    MaxCrashes = 1
SYMMETRY Symmetric
INVARIANT TypeOK
INVARIANT CheckpointsKept
INVARIANT OnlyOverlapFails
INVARIANT WipedIsGone
