\* One thread, two containments, every fault.
SPECIFICATION Spec
CONSTANTS
    Cid = {c1, c2}
    Thread = {t1}
    None = None
    car = car
    other = other
    Vin = {car, other}
    Trigger = car
    ProposedScopes <- MCTriggerOnly
    ClientScopes <- MCClient
    Rescopes = {}
    ATTEMPTS = 1
    WORKERS = 1
    MaxFaults = 2
    AsyncCheckpoints = TRUE
    LateCalls = {"post", "patch", "hold"}
SYMMETRY MCSymmetry
INVARIANTS
    TypeOK
    HoldNeedsHuman
    OneHoldPerThread
    CommittedMeansHeld
    TriggerAlwaysHeld
    HoldIsTheDecision
    CommitNeverConflicts
    ClosedAgreesWithPlant
PROPERTIES
    DecisionIsFinal
    ProposesOnce
    ImplementsGate
