SPECIFICATION Spec
CONSTANTS
    Pollers = {r1, r2}
    Submitters = {s1}
    Miners = {m1, m2}
    Qualities = {1, 8}
    BaseTarget <- Targets
    Heights = {1, 3}
    TTL = 1
    Retention = 1
    Window = 2
    MaxSubs = 2
    MaxFaults = 1
    P = 2
    Q = 3
    Gamma = 7
    BlockTime = 8
PROPERTIES
    CacheAdvances
SYMMETRY Alike
CHECK_DEADLOCK FALSE
