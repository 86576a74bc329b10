SPECIFICATION Spec
CONSTANTS
    MaxSeats = 3
    Passphrases = {p, q}
    MaxGroups = 2
INVARIANT TypeOK
INVARIANT FinishedKeygenServes
PROPERTY PublishedAfterStored
