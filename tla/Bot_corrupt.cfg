\* Corrupt beacon states, lost events, shared deadline slots, old slots and a
\* short lookback, besides the failures of Bot_faults.
\* The modelled chain stops at MaxSlot, and the bot then sleeps for ever.
SPECIFICATION Spec
CONSTANTS
    r1 = r1
    r2 = r2
    v1 = v1
    v2 = v2
    NoRequest = NoRequest
    Requests = {r1, r2}
    Validators = {v1, v2}
    ExitData <- Overlapping
    ActivationEpoch <- LongActive
    ExitDeadlineThreshold <- ShortThreshold
    MayExit = {v2}
    GENESIS_TIME = 0
    SECONDS_PER_SLOT = 2
    SLOTS_PER_EPOCH = 1
    SLOTS_PER_HISTORICAL_ROOT = 1
    CAPELLA_FORK_EPOCH = 0
    SHARD_COMMITTEE_PERIOD_IN_SECONDS = 0
    MaxSlot = 6
    FINALITY_LAG = 1
    FINALITY_DELAY = 2
    EXIT_LOOKAHEAD = 1
    SHARED_DEADLINES = TRUE
    LOOKBACK = 2
    VALIDATOR_BATCH_SIZE = 2
    Faults = {"rpc", "timeout", "ineffective", "crash", "event_error", "corrupt_finalized", "corrupt_deadline", "corrupt_summary"}
    MaxFaults = 1
INVARIANTS ReportedStaysStored NoUnjustReport
CHECK_DEADLOCK FALSE
