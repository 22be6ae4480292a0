\* A trigger that stops before it has an offset on its partition.
SPECIFICATION Spec
CONSTANTS
    Partition = {eol}
    EolPartition = {eol}
    Key = {k1}
    None = None
    QUEUE = 1
    Known = FALSE
    MaxLog = 2
    MaxFaults = 1
INVARIANT NothingIsDropped
CHECK_DEADLOCK FALSE
