SPECIFICATION Spec
CONSTANTS
    ip1 = ip1  ip2 = ip2  u1 = u1  u2 = u2  r1 = r1  r2 = r2
    IPs = {ip1}
    Users = {u1, u2}
    Requests = {r1, r2}
    InitCfg <- SmallCfg
    Updates <- HarmlessUpdates
    MaxTime = 6
SYMMETRY RequestSymmetry
INVARIANTS LockedAdmitsNobody IdleIsUnlocked BackoffTracksFailures
PROPERTIES LockEndsLegitimately LocksEscalate
