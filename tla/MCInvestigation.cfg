\* Seven vehicles are a lot's spread, a window and its readings at small thresholds.
\* A triage ends.
SPECIFICATION FairSpec
CONSTANTS
    EOL = 3
    Chars <- MCChars
    FitsLot <- MCFitsLot
    Benches = 2
    LIMIT = 2
    LOT_BLOCK = 1
    LOT_COUNT = 2
    Scenarios <- MCScenarios
    MIN_POINTS = 4
    MIN_SIZE = 2
    MIN_SHIFT = 1
    DRIFT_SLOPE_T = 4
    UPPER = 2
    MIN_VALUES = 2
    RECENT = 3
    BIAS_THRESHOLD = 2
    NO_PATTERN = 1
    LOT_MIN = 3
    LOT_SHARE = 80
    LOT_SPREAD_TAKTS = 2
    FaultMap <- MCFaultMap
    LOOKBACK = 6
    EOL_WAIT = 2
    Answers <- MCAnswers
    OddCodes <- MCOddCodes
    MaxLag = 2
    LagTakts = 1
    MaxAfter = 1
INVARIANTS
    TypeOK
    TriggerInScope
    SuspectIsOnTheMap
    WideHoldsHaveSiblings
    EvidenceIsHeld
    MissingOnlyAfterTheWait
PROPERTIES
    BenchAlertIsEarned
    OnlyLaggardsEscape
    TriageEnds
CHECK_DEADLOCK FALSE
