\* One containment, checkpoints durable before the next node, failures that stop.
SPECIFICATION FairSpec
CONSTANTS
    Cid = {c1}
    Thread = {t1}
    None = None
    car = car
    other = other
    Vin = {car, other}
    Trigger = car
    ProposedScopes <- MCProposed
    ClientScopes <- MCClient
    Rescopes <- MCRescopes
    ATTEMPTS = 2
    WORKERS = 1
    MaxFaults = 3
    AsyncCheckpoints = FALSE
    LateCalls = {"hold"}
PROPERTIES
    DecisionsReachThePlant
    WaitingThreadsAreClosed
