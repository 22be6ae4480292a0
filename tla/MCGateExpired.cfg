\* The agent's report of a gate the sweeper closed.
SPECIFICATION Spec
CONSTANTS
    Cid = {c1}
    Thread = {t1}
    None = None
    car = car
    other = other
    Vin = {car, other}
    Trigger = car
    ProposedScopes <- MCProposed
    ClientScopes <- MCClient
    Rescopes <- MCRescopes
    ATTEMPTS = 2
    WORKERS = 1
    MaxFaults = 0
    AsyncCheckpoints = FALSE
    LateCalls = {}
PROPERTY ExpiredStaysExpired
