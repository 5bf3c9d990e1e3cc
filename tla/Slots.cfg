\* A deadline slot at the end of a summary's period, skipped slots, nodes that
\* lag, and one outage.  Nothing is left to do once the proof is accepted.
SPECIFICATION FairSpec
CONSTANTS
    NoRequest = NoRequest
    GENESIS_TIME = 0
    SECONDS_PER_SLOT = 2
    SLOTS_PER_EPOCH = 2
    SLOTS_PER_HISTORICAL_ROOT = 4
    CAPELLA_FORK_EPOCH = 0
    SHARD_COMMITTEE_PERIOD_IN_SECONDS = 0
    UrlCount = 2
    MAX_RETRIES = 2
    RETRY_DELAY = 1
    MAX_BACKOFF = 10
    Nodes = {1, 2}
    MaxSlot = 11
    LastSkip = 5
    FINALITY_LAG = 3
    MAX_LAG = 1
    MAX_SKIPS = 1
    BEACON_ROOTS_LENGTH = 3
    MaxOutages = 1
    DeadlineSlots = {2}
    MAX_ATTEMPTS = 2
INVARIANTS FirstBlockFound OnlyKnownRejections
PROPERTIES EventuallyAccepted
CHECK_DEADLOCK FALSE
