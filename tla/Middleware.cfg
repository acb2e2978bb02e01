SPECIFICATION Spec
CONSTANTS
    Requests = {r1, r2, r3}
    NoRequest = none
    Addresses = {a1}
    Burst = 1
    Capacity = 1
    MaxTime = 2
    MaxDays = 1
    MaxFaults = 2
INVARIANTS RateHolds OnlyRacesAndFaultsLoseLines
PROPERTIES QueuedLinesLeave
CHECK_DEADLOCK FALSE
