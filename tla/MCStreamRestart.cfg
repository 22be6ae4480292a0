\* The worker restarts in the middle of a run of eight: no alert from the bare window.
SPECIFICATION Spec
CONSTANTS
    carA = carA
    carB = carB
    Partition <- MCPartition
    PartitionOf <- MCPartitionOf
    Manifests <- MCRun
    Speed = 6
    QUEUE_MAX = 2
    MaxErrors = 0
    WINDOW = 9
    WARMUP = 9
    MaxRewind = 1
    MaxCrashes = 1
PROPERTIES
    RestartKeepsRuns
CHECK_DEADLOCK FALSE
