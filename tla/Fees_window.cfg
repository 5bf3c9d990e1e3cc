\* The cache is sorted in place between two updates.
SPECIFICATION HistorySpec
CONSTANTS
    Fees = {8, 9, 10}
    BASE_FEE_MAX_CHANGE_DENOMINATOR = 8
    BLOCKS_PER_HOUR = 2
    TX_GAS_FEE_HISTORY_HOURS = 2
    MAX_BLOCKCOUNT = 4
    TX_GAS_FEE_HISTORY_PERCENTILE = 50
INVARIANTS MatchesTheScript
