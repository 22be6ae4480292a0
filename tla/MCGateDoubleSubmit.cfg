\* A proposal whose answer is lost: the stalled thread proposes again.
SPECIFICATION Spec
CONSTANTS
    Cid = {c1, c2}
    Thread = {t1}
    None = None
    car = car
    other = other
    Vin = {car, other}
    Trigger = car
    ProposedScopes <- MCProposed
    ClientScopes <- MCClient
    Rescopes <- MCRescopes
    ATTEMPTS = 2
    WORKERS = 1
    MaxFaults = 1
    AsyncCheckpoints = FALSE
    LateCalls = {}
INVARIANT HoldIfItselfApproved
