\* Two requests whose validators share a deadline slot; no failures.
SPECIFICATION FairSpec
CONSTANTS
    r1 = r1
    r2 = r2
    v1 = v1
    v2 = v2
    NoRequest = NoRequest
    Requests = {r1, r2}
    Validators = {v1, v2}
    ExitData <- OneEach
    ActivationEpoch <- JustActivated
    ExitDeadlineThreshold <- SameThreshold
    MayExit = {}
    GENESIS_TIME = 0
    SECONDS_PER_SLOT = 2
    SLOTS_PER_EPOCH = 1
    SLOTS_PER_HISTORICAL_ROOT = 3
    CAPELLA_FORK_EPOCH = 0
    SHARD_COMMITTEE_PERIOD_IN_SECONDS = 0
    MaxSlot = 6
    FINALITY_LAG = 1
    FINALITY_DELAY = 5
    EXIT_LOOKAHEAD = 1
    SHARED_DEADLINES = TRUE
    LOOKBACK = 6
    VALIDATOR_BATCH_SIZE = 1
    Faults = {}
    MaxFaults = 1
PROPERTIES LateIsSettled
CHECK_DEADLOCK FALSE
