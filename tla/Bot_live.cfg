\* Liveness, with failures that pass: two late slots in a cycle, both validators
\* late at once, and a late exit that makes every proof doubtful.
SPECIFICATION FairSpec
CONSTANTS
    r1 = r1
    r2 = r2
    v1 = v1
    v2 = v2
    NoRequest = NoRequest
    Requests = {r1, r2}
    Validators = {v1, v2}
    ExitData <- TwoData
    ActivationEpoch <- LongActive
    ExitDeadlineThreshold <- LiveThreshold
    MayExit = {v2}
    GENESIS_TIME = 0
    SECONDS_PER_SLOT = 2
    SLOTS_PER_EPOCH = 1
    SLOTS_PER_HISTORICAL_ROOT = 3
    CAPELLA_FORK_EPOCH = 0
    SHARD_COMMITTEE_PERIOD_IN_SECONDS = 0
    MaxSlot = 5
    FINALITY_LAG = 1
    FINALITY_DELAY = 4
    EXIT_LOOKAHEAD = 1
    SHARED_DEADLINES = FALSE
    LOOKBACK = 6
    VALIDATOR_BATCH_SIZE = 1
    Faults = {"rpc", "timeout", "ineffective", "crash"}
    MaxFaults = 2
PROPERTIES LateIsSettled
CHECK_DEADLOCK FALSE
