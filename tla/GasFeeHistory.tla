----------------------------- MODULE GasFeeHistory -----------------------------
(***************************************************************************)
(* The gas fee history of Execution: the base fees of the last days, from  *)
(* which the recommended fee is computed.                                  *)
(*                                                                         *)
(* The chain goes on for ever, so the model keeps what the code can see of *)
(* it: the base fees of the newest blocks, as many as the cache may hold,  *)
(* and how many blocks are newer than lastFeeHistoryBlockNumber (when they *)
(* are more than the cache may hold, their number makes no difference).    *)
(***************************************************************************)
EXTENDS Integers, Sequences, FiniteSets, Functions

CONSTANTS
    Fees,                             \* the base fees a block may have
    BASE_FEE_MAX_CHANGE_DENOMINATOR,  \* the protocol's: 8
    BLOCKS_PER_HOUR,                  \* blocks between two updates of the cache
    TX_GAS_FEE_HISTORY_HOURS,         \* TX_GAS_FEE_HISTORY_DAYS, in hours
    MAX_BLOCKCOUNT,                   \* blocks per eth_feeHistory request
    TX_GAS_FEE_HISTORY_PERCENTILE

calculateMaxCacheSize == TX_GAS_FEE_HISTORY_HOURS * BLOCKS_PER_HOUR

ASSUME GasFeeHistoryAssumption ==
    /\ Fees \subseteq Nat /\ Fees # {}
    /\ BASE_FEE_MAX_CHANGE_DENOMINATOR \in Nat \ {0}
    /\ \A fee \in Fees : fee >= BASE_FEE_MAX_CHANGE_DENOMINATOR
    /\ BLOCKS_PER_HOUR \in Nat \ {0}
    /\ TX_GAS_FEE_HISTORY_HOURS \in Nat \ {0}
    /\ MAX_BLOCKCOUNT \in Nat \ {0, 1}
    /\ TX_GAS_FEE_HISTORY_PERCENTILE \in 1..100

VARIABLES
    recentFees,             \* the base fees of the newest blocks, oldest first
    pendingBaseFee,         \* the base fee of the pending block
    blocksSinceLastUpdate,  \* latest block number - lastFeeHistoryBlockNumber
    gasFeeHistoryCache,
    fetched                 \* history: what the cache would hold were it not sorted

historyVars == <<recentFees, pendingBaseFee, blocksSinceLastUpdate, gasFeeHistoryCache, fetched>>

-----------------------------------------------------------------------------
(* utils/common.ts: percentile sorts its argument, the cache, in place.    *)
atMost(fees, fee) == {i \in DOMAIN fees : fees[i] <= fee}

kthSmallest(fees, k) ==
    CHOOSE fee \in Range(fees) :
        /\ k <= Cardinality(atMost(fees, fee))
        /\ Cardinality(atMost(fees, fee - 1)) < k

Sorted(fees) == [k \in DOMAIN fees |-> kthSmallest(fees, k)]

percentileOfSorted(fees) ==
    LET hundredths == TX_GAS_FEE_HISTORY_PERCENTILE * (Len(fees) - 1)
        lower == fees[1 + hundredths \div 100]
    IN  IF hundredths % 100 = 0
        THEN lower
        ELSE (lower + fees[2 + hundredths \div 100]) \div 2

(* Requests of MAX_BLOCKCOUNT blocks, from the newest backwards.  The next *)
(* request ends with the block the last one began with: what comes k-th    *)
(* from the end was preceded by k \div MAX_BLOCKCOUNT whole requests, and   *)
(* is that many blocks newer than it would be without the overlap.         *)
fetchGasFeeHistory(blocksToFetch) ==
    [i \in 1..blocksToFetch |->
        LET k == blocksToFetch - i
        IN  recentFees[Len(recentFees) - (k - k \div MAX_BLOCKCOUNT)]]

(* Mutants of updateCacheWithNewFees: nothing is dropped; the other end is. *)
cacheGrows(newGasFees) == gasFeeHistoryCache \o newGasFees

newestDropped(newGasFees) ==
    IF Len(gasFeeHistoryCache) > Len(newGasFees)
    THEN SubSeq(gasFeeHistoryCache, 1, Len(gasFeeHistoryCache) - Len(newGasFees)) \o newGasFees
    ELSE newGasFees

(* As many fees are dropped in front as are new. *)
withNewFees(fees, newFees) == SubSeq(fees, Len(newFees) + 1, Len(fees)) \o newFees

updateCacheWithNewFees(newGasFees) == withNewFees(gasFeeHistoryCache, newGasFees)

(* Mutant of updatedCache: filled once, never refreshed. *)
neverRefreshed ==
    IF gasFeeHistoryCache # <<>>
    THEN gasFeeHistoryCache
    ELSE updateCacheWithNewFees(fetchGasFeeHistory(blocksSinceLastUpdate))

updatedCache ==
    IF blocksSinceLastUpdate < BLOCKS_PER_HOUR
    THEN gasFeeHistoryCache
    ELSE updateCacheWithNewFees(fetchGasFeeHistory(blocksSinceLastUpdate))

-----------------------------------------------------------------------------
(* The protocol (EIP-1559): the base fees a block may have after one with  *)
(* a given base fee.                                                       *)
mayFollow(fee) ==
    LET change == fee \div BASE_FEE_MAX_CHANGE_DENOMINATOR
    IN  {next \in Fees : fee - change <= next /\ next <= fee + change}

HistoryInit ==
    /\ recentFees \in [1..calculateMaxCacheSize -> Fees]
    /\ \A i \in 2..calculateMaxCacheSize : recentFees[i] \in mayFollow(recentFees[i - 1])
    /\ pendingBaseFee \in mayFollow(recentFees[calculateMaxCacheSize])
    /\ blocksSinceLastUpdate = calculateMaxCacheSize
    /\ gasFeeHistoryCache = <<>>
    /\ fetched = <<>>

(* A block is added, and the next one has its base fee. *)
NewBlock(fee) ==
    /\ fee \in mayFollow(pendingBaseFee)
    /\ recentFees' = Append(Tail(recentFees), pendingBaseFee)
    /\ pendingBaseFee' = fee
    /\ blocksSinceLastUpdate' =
        IF blocksSinceLastUpdate < calculateMaxCacheSize
        THEN blocksSinceLastUpdate + 1 ELSE blocksSinceLastUpdate
    /\ UNCHANGED <<gasFeeHistoryCache, fetched>>

(* calculateGasFeeData: the cache is brought up to date, then sorted.      *)
CalculateGasFeeData ==
    /\ \E cache \in {updatedCache} : gasFeeHistoryCache' = Sorted(cache)
    /\ IF blocksSinceLastUpdate < BLOCKS_PER_HOUR
       THEN UNCHANGED <<blocksSinceLastUpdate, fetched>>
       ELSE /\ blocksSinceLastUpdate' = 0
            /\ fetched' = withNewFees(fetched, fetchGasFeeHistory(blocksSinceLastUpdate))
    /\ UNCHANGED <<recentFees, pendingBaseFee>>

recommended == percentileOfSorted(gasFeeHistoryCache')

HistoryNext == (\E fee \in Fees : NewBlock(fee)) \/ CalculateGasFeeData

HistorySpec == HistoryInit /\ [][HistoryNext]_historyVars

-----------------------------------------------------------------------------
(* The script that estimates gas costs: on its own, it makes the decision  *)
(* of the bot.                                                             *)

(* Its requests do not overlap. *)
fetchGasFeeHistoryInScript(totalBlocksToFetch) ==
    [i \in 1..totalBlocksToFetch |-> recentFees[Len(recentFees) - (totalBlocksToFetch - i)]]

(* It sorts a copy. *)
calculatePercentile(values) == percentileOfSorted(Sorted(values))

recommendedBaseFee == calculatePercentile(fetchGasFeeHistoryInScript(calculateMaxCacheSize))

isGasAcceptable == pendingBaseFee <= recommendedBaseFee

-----------------------------------------------------------------------------
(* Properties *)

(* The cache holds nothing until the first update; after it, it is full    *)
(* for ever: as many fees are dropped as are fetched.                      *)
HistoryTypeOK ==
    /\ recentFees \in [1..calculateMaxCacheSize -> Fees]
    /\ pendingBaseFee \in Fees
    /\ blocksSinceLastUpdate \in 0..calculateMaxCacheSize
    /\ gasFeeHistoryCache \in {<<>>} \cup [1..calculateMaxCacheSize -> Fees]
    /\ fetched \in {<<>>} \cup [1..calculateMaxCacheSize -> Fees]

(* The in-place sort of percentile makes each update drop the lowest fees  *)
(* instead of the oldest.  Whatever is dropped and when, the recommended   *)
(* fee is not below the one a sorted copy would give: the bot may pay more *)
(* than its configuration says, but it never waits for a fee lower than    *)
(* the fees it fetched justify.                                            *)
NeverTooLow ==
    gasFeeHistoryCache # <<>> =>
        percentileOfSorted(gasFeeHistoryCache) >= calculatePercentile(fetched)

(* scripts/README ("This means the script's DECISION perfectly matches     *)
(* what the bot would do"): both take the current fee for acceptable, or   *)
(* neither does.                                                           *)
MatchesTheScript ==
    blocksSinceLastUpdate = 0 =>
        (isGasAcceptable <=> pendingBaseFee <= percentileOfSorted(gasFeeHistoryCache))

=============================================================================
