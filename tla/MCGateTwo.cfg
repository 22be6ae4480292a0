\* Two triages share one worker and the sweeper; nothing fails.
SPECIFICATION Spec
CONSTANTS
    Cid = {c1, c2}
    Thread = {t1, t2}
    None = None
    car = car
    other = other
    Vin = {car, other}
    Trigger = car
    ProposedScopes <- MCProposed
    ClientScopes = {}
    Rescopes <- MCRescopes
    ATTEMPTS = 1
    WORKERS = 1
    MaxFaults = 0
    AsyncCheckpoints = TRUE
    LateCalls = {}
SYMMETRY MCSymmetry
INVARIANT HoldIsTheDecision
PROPERTY ImplementsGate
