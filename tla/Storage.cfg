\* Scans in batches of two blocks, repeated after failures; two requests of
\* one deadline slot, one of them for two validators.
SPECIFICATION Spec
CONSTANTS
    r1 = r1
    r2 = r2
    r3 = r3
    v1 = v1
    v2 = v2
    Requests = {r1, r2, r3}
    Direct = {r1, r2}
    Validators = {v1, v2}
    ExitData <- SharedData
    ActivationEpoch <- LateActive
    ExitDeadlineThreshold <- ShortThreshold
    MayExit = {}
    GENESIS_TIME = 0
    SECONDS_PER_SLOT = 2
    SLOTS_PER_EPOCH = 1
    SLOTS_PER_HISTORICAL_ROOT = 3
    CAPELLA_FORK_EPOCH = 0
    SHARD_COMMITTEE_PERIOD_IN_SECONDS = 0
    MaxSlot = 5
    FINALITY_LAG = 1
    FINALITY_DELAY = 4
    EXIT_LOOKAHEAD = 1
    SHARED_DEADLINES = TRUE
    LOOKBACK = 4
    BATCH_SIZE = 2
    Faults = {"rpc", "event_error", "ineffective"}
    MaxFaults = 1
INVARIANTS ScanFilesRange FirstGroupLeads CopiesBounded
PROPERTIES StorageImplemented
CHECK_DEADLOCK FALSE
