SPECIFICATION Spec
CONSTANTS
    ip1 = ip1  ip2 = ip2  u1 = u1  u2 = u2  r1 = r1  r2 = r2
    IPs = {ip1}
    Users = {u1}
    Requests = {r1, r2}
    InitCfg <- SmallCfg
    Updates <- AnyUpdates
    MaxTime = 4
SYMMETRY RequestSymmetry
INVARIANTS TypeOK LockWithinCap
PROPERTIES ImplementsGate
