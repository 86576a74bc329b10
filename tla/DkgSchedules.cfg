\* Four seats, two group keys, at most two failing calls, every split and schedule.
SPECIFICATION Spec
CONSTANTS
    NumSeats = 4
    MaxFaults = 2
    GroupKeys = {a, b}
INVARIANT TypeOK
INVARIANT OutcomeIsSequential
INVARIANT CountErrorFollowsFault
PROPERTY Returns
CHECK_DEADLOCK FALSE
