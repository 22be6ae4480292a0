\* A run of eight beside one point outside it; one vehicle's readings come late.
\* The replay ends and the worker then has nothing to read.
SPECIFICATION FairSpec
CONSTANTS
    carA = carA
    carB = carB
    Partition <- MCPartition
    PartitionOf <- MCPartitionOf
    Manifests <- MCManifests
    Speed = 6
    QUEUE_MAX = 2
    MaxErrors = 1
    WINDOW = 9
    WARMUP = 3
    MaxRewind = 1
    MaxCrashes = 1
INVARIANTS
    TypeOK
    NothingUnaccounted
    ExitZeroMeansDelivered
    WindowIsNewest
PROPERTIES
    ReplayEnds
    AlertsFollowRules
    ChartsCatchUp
CHECK_DEADLOCK FALSE
