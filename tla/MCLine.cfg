\* Every kind of stop and loss; each group has its offsets.
\* The line may fall silent for good: every message read, nothing to redeliver.
SPECIFICATION FairSpec
CONSTANTS
    Partition = {eol}
    EolPartition = {eol}
    Key = {k1}
    None = None
    QUEUE = 1
    Known = TRUE
    MaxLog = 2
    MaxFaults = 3
INVARIANTS
    TypeOK
    CommittedIsSettled
    OnlyBadIsParked
    CommittedIsPosted
PROPERTY EveryMessageSettles
CHECK_DEADLOCK FALSE
