\* Three workers; a call may outlast the open period.
SPECIFICATION FairSpec
CONSTANTS
    Worker = {w1, w2, w3}
    OPEN_S = 1
    MaxCall = 2
INVARIANTS
    TypeOK
    ProbesAreSpaced
    ProbeIsInFlight
PROPERTY NeverRefusesForGood
