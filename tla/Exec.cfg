\* Two batches, one failure of any kind, dry run or not.  The base fee may
\* become too high for a transaction that is already sent.
SPECIFICATION FairSpec
CONSTANTS
    Fees = {4, 6, 9}
    BASE_FEE_MAX_CHANGE_DENOMINATOR = 2
    BLOCKS_PER_HOUR = 1
    TX_GAS_FEE_HISTORY_HOURS = 2
    MAX_BLOCKCOUNT = 2
    TX_GAS_FEE_HISTORY_PERCENTILE = 60
    TX_GAS_LIMIT = 12
    GasEstimates = {5}
    Rewards = {0, 3}
    TX_MIN_GAS_PRIORITY_FEE = 0
    TX_MAX_GAS_PRIORITY_FEE = 2
    Faults = {"rpc", "timeout", "estimation", "overtaken", "ineffective"}
    MaxFaults = 1
    MaxBatches = 2
INVARIANTS TypeOK OneTransactionPerCall NotUnderpriced NeverTooLow
PROPERTIES Settles KeepsSubmissionPromise
CHECK_DEADLOCK FALSE
