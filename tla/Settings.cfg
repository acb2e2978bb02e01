SPECIFICATION Spec
CONSTANTS
    s1 = s1  s2 = s2
    Servers = {s1, s2}
    NoServer = none
    YAMLServer = written
    MaxUpdates = 3
    MaxFaults = 2
    MaxStarts = 3
SYMMETRY ServerSymmetry
INVARIANTS AcknowledgedSurvives OneFaultLosesNothing StoredPasswordIsKept FaultFreeSavesAgree
CHECK_DEADLOCK FALSE
