\* Another reporter is faster.
SPECIFICATION Spec
CONSTANTS
    Fees = {4, 6}
    BASE_FEE_MAX_CHANGE_DENOMINATOR = 2
    BLOCKS_PER_HOUR = 1
    TX_GAS_FEE_HISTORY_HOURS = 2
    MAX_BLOCKCOUNT = 4
    TX_GAS_FEE_HISTORY_PERCENTILE = 50
    TX_GAS_LIMIT = 12
    GasEstimates = {5}
    Rewards = {0, 3}
    TX_MIN_GAS_PRIORITY_FEE = 1
    TX_MAX_GAS_PRIORITY_FEE = 2
    Faults = {"overtaken"}
    MaxFaults = 1
    MaxBatches = 1
INVARIANTS SucceededMeansRecorded
CHECK_DEADLOCK FALSE
