\* A crash while a gate's checkpoint is behind the rows it led to.
SPECIFICATION FairSpec
CONSTANTS
    Cid = {c1}
    Thread = {t1}
    None = None
    car = car
    other = other
    Vin = {car, other}
    Trigger = car
    ProposedScopes <- MCProposed
    ClientScopes <- MCClient
    Rescopes <- MCRescopes
    ATTEMPTS = 2
    WORKERS = 1
    MaxFaults = 2
    AsyncCheckpoints = TRUE
    LateCalls = {}
PROPERTY ApprovalIsNotLost
