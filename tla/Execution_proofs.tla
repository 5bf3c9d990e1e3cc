---------------------------- MODULE Execution_proofs ----------------------------
(***************************************************************************)
(* A call of execute sends one transaction at most, priced high enough for *)
(* the next blocks, and returns only when that is mined and nothing is     *)
(* under way; sorting the fee history never lowers the fee it accepts: for *)
(* every bound on the failures, every course of the base fee, every gas    *)
(* estimate, and every size of the cache and of a request.                 *)
(***************************************************************************)
EXTENDS ExecutionRefinement, FiniteSetTheorems, SequenceTheorems, WellFoundedInduction, TLAPS

-----------------------------------------------------------------------------
(* The gas fee history. *)

(* A set of naturals has a least element. *)
LEMMA LeastNatural ==
    ASSUME NEW T \in SUBSET Nat, T # {}
    PROVE  \E x \in T : \A y \in T : x <= y
<1> DEFINE R == OpToRel(<, Nat)
<1>1. PICK x \in T : \A y \in T : ~ (<<y, x>> \in R)
  <2> HIDE DEF R
  <2>1. IsWellFoundedOn(R, Nat)
    BY NatLessThanWellFounded DEF R
  <2> QED
    BY <2>1, WFMin
<1>2. \A y \in T : ~(y < x)
  BY <1>1 DEF OpToRel
<1> HIDE DEF R
<1> QED
  BY <1>2

(* Finitely many fees have an upper bound. *)
LEMMA FeesBounded ==
    ASSUME NEW n \in Nat, NEW f \in [1..n -> Nat]
    PROVE  \E u \in Nat : \A i \in 1..n : f[i] <= u
<1> DEFINE Bounded(m) == \E u \in Nat : \A i \in 1..m : f[i] <= u
           T == {m \in 0..n : ~Bounded(m)}
<1>1. ASSUME NEW m \in 1..n, Bounded(m - 1) PROVE Bounded(m)
  <2>1. PICK u \in Nat : \A i \in 1..(m - 1) : f[i] <= u
    BY <1>1
  <2> DEFINE v == IF u < f[m] THEN f[m] ELSE u
  <2>2. v \in Nat /\ u <= v /\ f[m] <= v
    BY <1>1
  <2> HIDE DEF v
  <2>3. \A i \in 1..m : f[i] <= v
    <3> SUFFICES ASSUME NEW i \in 1..m PROVE f[i] <= v
      OBVIOUS
    <3>1. CASE i = m
      BY <3>1, <2>2
    <3>2. CASE i # m
      <4>1. i \in 1..(m - 1) /\ f[i] \in Nat
        BY <1>1, <3>2
      <4> QED
        BY <2>1, <2>2, <4>1
    <3> QED
      BY <3>1, <3>2
  <2> QED
    BY <2>2, <2>3
<1>2. Bounded(0)
  OBVIOUS
<1> HIDE DEF Bounded
<1>3. Bounded(n)
  <2> SUFFICES ASSUME ~Bounded(n) PROVE FALSE
    OBVIOUS
  <2>1. T \in SUBSET Nat /\ n \in T
    OBVIOUS
  <2>2. PICK m \in T : \A k \in T : m <= k
    BY <2>1, LeastNatural
  <2>3. m \in 1..n
    BY <1>2
  <2>4. m - 1 \notin T
    BY <2>2, <2>3
  <2> QED
    BY <1>1, <2>3, <2>4
<1> QED
  BY <1>3 DEF Bounded

(* How many fees are at most u, of n fees. *)
LEMMA CountAtMost ==
    ASSUME NEW n \in Nat, NEW f \in [1..n -> Nat], NEW u \in Int
    PROVE  /\ atMost(f, u) \subseteq 1..n
           /\ IsFiniteSet(atMost(f, u))
           /\ Cardinality(atMost(f, u)) \in 0..n
<1>1. atMost(f, u) \in SUBSET (1..n)
  BY DEF atMost
<1>2. IsFiniteSet(1..n) /\ Cardinality(1..n) = n
  BY FS_Interval
<1>3. IsFiniteSet(atMost(f, u)) /\ Cardinality(atMost(f, u)) <= n
  BY <1>1, <1>2, FS_Subset
<1>4. Cardinality(atMost(f, u)) \in Nat
  BY <1>3, FS_CardinalityType
<1> QED
  BY <1>1, <1>3, <1>4

(* There is a k-th smallest fee: the least number that k fees are at most. *)
LEMMA KthSmallest ==
    ASSUME NEW n \in Nat, NEW f \in [1..n -> Nat], NEW k \in 1..n
    PROVE  /\ kthSmallest(f, k) \in Range(f)
           /\ k <= Cardinality(atMost(f, kthSmallest(f, k)))
           /\ Cardinality(atMost(f, kthSmallest(f, k) - 1)) < k
<1> DEFINE T == {u \in Nat : k <= Cardinality(atMost(f, u))}
<1>1. PICK bound \in Nat : \A i \in 1..n : f[i] <= bound
  BY FeesBounded
<1>2. bound \in T
  <2>1. atMost(f, bound) = 1..n
    BY <1>1 DEF atMost
  <2>2. Cardinality(1..n) = n
    BY FS_Interval
  <2> QED
    BY <2>1, <2>2
<1>3. PICK u \in T : \A v \in T : u <= v
  <2>1. T \in SUBSET Nat /\ T # {}
    BY <1>2
  <2> QED
    BY <2>1, LeastNatural
<1>4. u \in Nat /\ k <= Cardinality(atMost(f, u))
  OBVIOUS
<1>5. Cardinality(atMost(f, u - 1)) < k
  <2>1. CASE u = 0
    <3>1. atMost(f, u - 1) = {}
      BY <2>1 DEF atMost
    <3> QED
      BY <3>1, FS_EmptySet
  <2>2. CASE u # 0
    <3>1. u - 1 \in Nat /\ u - 1 \notin T
      BY <1>3, <1>4, <2>2
    <3>2. Cardinality(atMost(f, u - 1)) \in 0..n
      BY <3>1, CountAtMost
    <3> QED
      BY <3>1, <3>2
  <2> QED
    BY <2>1, <2>2
<1>6. PICK i \in 1..n : f[i] = u
  <2>1. atMost(f, u) # atMost(f, u - 1)
    <3>1. u \in Int /\ u - 1 \in Int
      BY <1>4
    <3>2. Cardinality(atMost(f, u)) \in 0..n /\ Cardinality(atMost(f, u - 1)) \in 0..n
      BY <3>1, CountAtMost
    <3> QED
      BY <1>4, <1>5, <3>2
  <2>2. \A i \in 1..n : f[i] <= u - 1 => f[i] <= u
    BY <1>4
  <2>3. PICK i \in 1..n : f[i] <= u /\ ~(f[i] <= u - 1)
    BY <2>1, <2>2 DEF atMost
  <2>4. f[i] \in Nat
    OBVIOUS
  <2> QED
    BY <1>4, <2>3, <2>4
<1>7. u \in Range(f)
  BY <1>6 DEF Range
<1> QED
  BY <1>4, <1>5, <1>7 DEF kthSmallest

(* Sorting keeps the length and invents no fee. *)
LEMMA SortedType ==
    ASSUME NEW n \in Nat, NEW S \in SUBSET Nat, NEW f \in [1..n -> S]
    PROVE  Sorted(f) \in [1..n -> S]
<1>1. f \in [1..n -> Nat] /\ DOMAIN f = 1..n
  OBVIOUS
<1>2. ASSUME NEW k \in 1..n PROVE kthSmallest(f, k) \in S
  <2>1. kthSmallest(f, k) \in Range(f)
    BY <1>1, KthSmallest
  <2> QED
    BY <2>1 DEF Range
<1> QED
  BY <1>1, <1>2 DEF Sorted

(* The functions on 1..n are the sequences of length n. *)
LEMMA FunctionsAreSequences ==
    ASSUME NEW S, NEW n \in Nat, NEW s
    PROVE  s \in [1..n -> S] <=> s \in Seq(S) /\ Len(s) = n
<1>1. ASSUME s \in [1..n -> S] PROVE s \in Seq(S) /\ Len(s) = n
  BY <1>1
<1>2. ASSUME s \in Seq(S), Len(s) = n PROVE s \in [1..n -> S]
  BY <1>2, LenProperties
<1> QED
  BY <1>1, <1>2

LEMMA CacheSize ==
    /\ calculateMaxCacheSize \in Nat \ {0}
    /\ BLOCKS_PER_HOUR <= calculateMaxCacheSize
<1> DEFINE b == BLOCKS_PER_HOUR
           h == TX_GAS_FEE_HISTORY_HOURS
<1>1. b \in Nat \ {0} /\ h \in Nat \ {0}
  BY GasFeeHistoryAssumption
<1>2. h * b \in Nat /\ b <= h * b
  <2>1. h * b = (h - 1) * b + b
    BY <1>1
  <2>2. (h - 1) * b \in Nat
    BY <1>1
  <2> QED
    BY <1>1, <2>1, <2>2
<1> QED
  BY <1>1, <1>2 DEF calculateMaxCacheSize

(* The overlap of the requests never reaches outside what is there. *)
LEMMA FetchType ==
    ASSUME HistoryTypeOK, NEW n \in 0..calculateMaxCacheSize
    PROVE  fetchGasFeeHistory(n) \in [1..n -> Fees]
<1>1. calculateMaxCacheSize \in Nat /\ MAX_BLOCKCOUNT \in Nat /\ MAX_BLOCKCOUNT > 1
  BY CacheSize, GasFeeHistoryAssumption
<1>2. recentFees \in [1..calculateMaxCacheSize -> Fees] /\ Len(recentFees) = calculateMaxCacheSize
  BY <1>1 DEF HistoryTypeOK
<1>3. ASSUME NEW k \in 0..(n - 1) PROVE k \div MAX_BLOCKCOUNT \in 0..k
  BY <1>1, <1>3
<1>4. ASSUME NEW i \in 1..n
      PROVE  Len(recentFees) - ((n - i) - (n - i) \div MAX_BLOCKCOUNT) \in 1..calculateMaxCacheSize
  <2>1. n - i \in 0..(n - 1)
    BY <1>1
  <2>2. (n - i) \div MAX_BLOCKCOUNT \in 0..(n - i)
    BY <1>3, <2>1
  <2> QED
    BY <1>1, <1>2, <2>1, <2>2
<1> QED
  BY <1>2, <1>4 DEF fetchGasFeeHistory

(* The cache of the history: empty only until the first update, which     *)
(* then has to fetch all of it.                                            *)
HistoryInv ==
    /\ HistoryTypeOK
    /\ gasFeeHistoryCache = <<>> => blocksSinceLastUpdate = calculateMaxCacheSize
    /\ gasFeeHistoryCache = <<>> <=> fetched = <<>>

(* As many fees are dropped as are new; with nothing to drop, all are new. *)
LEMMA WithNewFees ==
    ASSUME NEW n \in Nat, NEW b \in 0..n, NEW new \in [1..b -> Fees],
           NEW fees \in {<<>>} \cup [1..n -> Fees], fees = <<>> => b = n
    PROVE  /\ withNewFees(fees, new) \in [1..n -> Fees]
           /\ fees = <<>> => withNewFees(fees, new) = new
           /\ fees # <<>> => \A i \in 1..n : withNewFees(fees, new)[i]
                               = IF i <= n - b THEN fees[b + i] ELSE new[i - (n - b)]
<1>1. b \in Nat /\ Len(new) = b /\ new \in Seq(Fees)
  BY FunctionsAreSequences
<1>2. CASE fees = <<>>
  <2>1. SubSeq(fees, b + 1, Len(fees)) = <<>>
    BY <1>1, <1>2
  <2>2. <<>> \o new = new
    BY <1>1
  <2> QED
    BY <1>1, <1>2, <2>1, <2>2 DEF withNewFees
<1>3. CASE fees # <<>>
  <2>1. fees \in [1..n -> Fees] /\ Len(fees) = n /\ fees \in Seq(Fees)
    BY <1>3, FunctionsAreSequences
  <2> DEFINE kept == SubSeq(fees, b + 1, n)
  <2>2. kept \in Seq(Fees) /\ Len(kept) = n - b /\ \A i \in 1..(n - b) : kept[i] = fees[b + i]
    <3>1. b + 1 \in 1..(n + 1) /\ n \in b..n
      BY <1>1
    <3> QED
      BY <1>1, <2>1, <3>1, SubSeqProperties
  <2> HIDE DEF kept
  <2>3. /\ kept \o new \in Seq(Fees) /\ Len(kept \o new) = n
        /\ \A i \in 1..n : (kept \o new)[i] = IF i <= n - b THEN kept[i] ELSE new[i - (n - b)]
    <3>1. Len(kept) + Len(new) = n /\ Len(kept) = n - b
      BY <1>1, <2>2
    <3>2. /\ kept \o new \in Seq(Fees) /\ Len(kept \o new) = Len(kept) + Len(new)
          /\ \A i \in 1..(Len(kept) + Len(new)) :
                (kept \o new)[i] = IF i <= Len(kept) THEN kept[i] ELSE new[i - Len(kept)]
      BY <1>1, <2>2, ConcatProperties
    <3> QED
      BY <3>1, <3>2
  <2>4. kept \o new \in [1..n -> Fees]
    BY <2>3, FunctionsAreSequences
  <2>5. withNewFees(fees, new) = kept \o new
    BY <1>1, <2>1 DEF withNewFees, kept
  <2> QED
    BY <1>1, <1>3, <2>2, <2>3, <2>4, <2>5
<1> QED
  BY <1>2, <1>3

(* The fees an update fetches. *)
LEMMA UpdateSize ==
    ASSUME HistoryInv
    PROVE  /\ calculateMaxCacheSize \in Nat \ {0}
           /\ blocksSinceLastUpdate \in 0..calculateMaxCacheSize
           /\ fetchGasFeeHistory(blocksSinceLastUpdate) \in [1..blocksSinceLastUpdate -> Fees]
           /\ gasFeeHistoryCache = <<>> => ~(blocksSinceLastUpdate < BLOCKS_PER_HOUR)
<1>1. calculateMaxCacheSize \in Nat \ {0} /\ blocksSinceLastUpdate \in 0..calculateMaxCacheSize
  BY CacheSize DEF HistoryInv, HistoryTypeOK
<1>2. fetchGasFeeHistory(blocksSinceLastUpdate) \in [1..blocksSinceLastUpdate -> Fees]
  BY <1>1, FetchType DEF HistoryInv
<1>3. gasFeeHistoryCache = <<>> => ~(blocksSinceLastUpdate < BLOCKS_PER_HOUR)
  BY <1>1, CacheSize, GasFeeHistoryAssumption DEF HistoryInv
<1> QED
  BY <1>1, <1>2, <1>3

LEMMA UpdatedType ==
    ASSUME HistoryInv
    PROVE  updatedCache \in [1..calculateMaxCacheSize -> Fees]
<1> DEFINE new == fetchGasFeeHistory(blocksSinceLastUpdate)
<1>1. withNewFees(gasFeeHistoryCache, new) \in [1..calculateMaxCacheSize -> Fees]
  BY UpdateSize, WithNewFees DEF HistoryInv, HistoryTypeOK
<1> QED
  BY <1>1, UpdateSize DEF updatedCache, updateCacheWithNewFees, HistoryInv, HistoryTypeOK

LEMMA HistoryInvNewBlock == ASSUME HistoryInv, NEW fee \in Fees, NewBlock(fee) PROVE HistoryInv'
<1>1. calculateMaxCacheSize \in Nat \ {0}
  BY CacheSize
<1>2. recentFees' \in [1..calculateMaxCacheSize -> Fees]
  <2>1. recentFees \in [1..calculateMaxCacheSize -> Fees] /\ pendingBaseFee \in Fees
    BY DEF HistoryInv, HistoryTypeOK
  <2>2. recentFees \in Seq(Fees) /\ Len(recentFees) = calculateMaxCacheSize
    BY <1>1, <2>1, FunctionsAreSequences
  <2>3. Tail(recentFees) \in Seq(Fees) /\ Len(Tail(recentFees)) = calculateMaxCacheSize - 1
    BY <1>1, <2>2, HeadTailProperties
  <2>4. /\ Append(Tail(recentFees), pendingBaseFee) \in Seq(Fees)
        /\ Len(Append(Tail(recentFees), pendingBaseFee)) = calculateMaxCacheSize
    BY <1>1, <2>1, <2>3, AppendProperties
  <2> QED
    BY <1>1, <2>4, FunctionsAreSequences DEF NewBlock
<1>3. blocksSinceLastUpdate \in 0..calculateMaxCacheSize
  BY DEF HistoryInv, HistoryTypeOK
<1> QED
  BY <1>1, <1>2, <1>3 DEF HistoryInv, HistoryTypeOK, NewBlock

LEMMA HistoryInvCalculate == ASSUME HistoryInv, CalculateGasFeeData PROVE HistoryInv'
<1>1. calculateMaxCacheSize \in Nat \ {0} /\ blocksSinceLastUpdate \in 0..calculateMaxCacheSize
  BY UpdateSize
<1>2. gasFeeHistoryCache' \in [1..calculateMaxCacheSize -> Fees]
  <2>1. updatedCache \in [1..calculateMaxCacheSize -> Fees]
    BY UpdatedType
  <2>2. Sorted(updatedCache) \in [1..calculateMaxCacheSize -> Fees]
    BY <1>1, <2>1, SortedType, GasFeeHistoryAssumption
  <2> QED
    BY <2>2 DEF CalculateGasFeeData
<1>3. fetched' \in [1..calculateMaxCacheSize -> Fees]
  <2>1. CASE blocksSinceLastUpdate < BLOCKS_PER_HOUR
    BY <2>1, UpdateSize DEF HistoryInv, HistoryTypeOK, CalculateGasFeeData
  <2>2. CASE ~(blocksSinceLastUpdate < BLOCKS_PER_HOUR)
    <3>1. fetched' = withNewFees(fetched, fetchGasFeeHistory(blocksSinceLastUpdate))
      BY <2>2 DEF CalculateGasFeeData
    <3>2. fetched \in {<<>>} \cup [1..calculateMaxCacheSize -> Fees]
          /\ (fetched = <<>> => blocksSinceLastUpdate = calculateMaxCacheSize)
      BY DEF HistoryInv, HistoryTypeOK
    <3> QED
      BY <3>1, <3>2, UpdateSize, WithNewFees
  <2> QED
    BY <2>1, <2>2
<1>4. gasFeeHistoryCache' # <<>> /\ fetched' # <<>>
  BY <1>1, <1>2, <1>3
<1> QED
  BY <1>1, <1>2, <1>3, <1>4 DEF HistoryInv, HistoryTypeOK, CalculateGasFeeData

LEMMA HistoryUnchanged == HistoryInv /\ UNCHANGED historyVars => HistoryInv'
BY DEF historyVars, HistoryInv, HistoryTypeOK

-----------------------------------------------------------------------------
(* A call. *)

(* Where a call is determines what it has sent: nothing before "wait".     *)
(* Between calls, only what the last one returned counts.                  *)
CallInv ==
    /\ dryRun \in {"yes", "no"}
    /\ sent \in {0, 1}
    /\ pc = "wait" => sent = 1 /\ dryRun = "no"
    /\ pc \notin {"idle", "wait"} => sent = 0
    /\ pc \in {"history", "send"} => dryRun = "no"
    /\ pc # "idle" => outcome = "none"
    /\ dryRun = "yes" => sent = 0
    /\ outcome = "returned" /\ dryRun = "no" => sent = 1 /\ receipt # "none"

(* Nothing is sent before the first call. *)
LEMMA CallInit == Init => CallInv
BY DEF Init, CallInv

(* The chain moves; it may mine the transaction that is waited for.        *)
LEMMA CallChainStep == CallInv /\ ChainStep => CallInv'
<1> SUFFICES ASSUME CallInv, ChainStep PROVE CallInv'
  OBVIOUS
<1>1. UNCHANGED <<dryRun, pc, outcome, sent>>
  BY DEF ChainStep, BaseFeeMoves, Mine, ReportedElsewhere, NextBatch, sentVars
<1>2. receipt' = receipt \/ receipt' # "none"
  <2>1. CASE Mine
    BY <2>1 DEF Mine, Receipt
  <2>2. CASE ~Mine
    BY <2>2 DEF ChainStep, BaseFeeMoves, ReportedElsewhere, NextBatch, sentVars
  <2> QED
    BY <2>1, <2>2
<1> QED
  BY <1>1, <1>2 DEF CallInv

(* A step of the loop before anything is sent.                             *)
LEMMA CallBeforeSending ==
    ASSUME CallInv, UNCHANGED <<dryRun, sent, receipt, outcome>>, pc \notin {"idle", "wait"},
           pc' \notin {"idle", "wait"}, pc' \in {"history", "send"} => dryRun = "no"
    PROVE  CallInv'
BY DEF CallInv

(* A call that throws.                                                     *)
LEMMA CallThrows ==
    ASSUME CallInv, UNCHANGED dryRun, pc # "idle", pc' = "idle", outcome' \in {"threw", "gasLimitExceeded"},
           sent' \in {0, 1}, dryRun = "yes" => sent' = 0
    PROVE  CallInv'
BY DEF CallInv

(* A step of the loop, one step of the proof per kind of action. *)
LEMMA CallBotStep == CallInv /\ BotStep => CallInv'
<1> SUFFICES ASSUME CallInv, BotStep PROVE CallInv'
  OBVIOUS
<1> USE DEF sentVars
<1>1. CASE Call
  BY <1>1 DEF Call, CallInv
<1>2. CASE Populate \/ Emulate \/ CalculateGasParameters \/ PrepareTransaction
  BY <1>2, CallBeforeSending
  DEF Populate, Emulate, CalculateGasParameters, PrepareTransaction, EstimateGasLimit
<1>3. CASE ReadCurrentFee \/ FeeAcceptable \/ HighGasFeeError
  BY <1>3, CallBeforeSending DEF ReadCurrentFee, FeeAcceptable, HighGasFeeError, CallInv
<1>4. CASE EmulatedCallError \/ GasLimitExceededError
  BY <1>4, CallThrows
  DEF EmulatedCallError, GasLimitExceededError, EstimateGasLimit, Ends, CallInv
<1>5. CASE DryRunEnds
  BY <1>5 DEF DryRunEnds, Ends, CallInv
<1>6. CASE SendTransaction
  BY <1>6 DEF SendTransaction, CallInv
<1>7. CASE WaitForConfirmation
  BY <1>7 DEF WaitForConfirmation, Ends, CallInv
<1> QED
  BY <1>1, <1>2, <1>3, <1>4, <1>5, <1>6, <1>7 DEF BotStep

(* A failure ends the call; what was sent stays sent. *)
LEMMA CallFailure == CallInv /\ Failure => CallInv'
<1> SUFFICES ASSUME CallInv, Failure PROVE CallInv'
  OBVIOUS
<1>1. CASE WaitingTimesOut \/ CallFails
  BY <1>1, CallThrows DEF WaitingTimesOut, CallFails, HandleExecutionError, Ends, CallInv
<1>2. CASE AnswerLost
  BY <1>2, CallThrows DEF AnswerLost, HandleExecutionError, Ends, CallInv
<1> QED
  BY <1>1, <1>2 DEF Failure

LEMMA CallNext == CallInv /\ [Next]_vars => CallInv'
<1>1. CallInv /\ UNCHANGED vars => CallInv'
  BY DEF CallInv, vars, sentVars
<1> QED
  BY <1>1, CallBotStep, CallFailure, CallChainStep DEF Next

(* However often the loop of executeDaemon goes round, one call of execute *)
(* sends at most one transaction, none in a dry run, and returns only when *)
(* that transaction is mined.                                              *)
THEOREM OneTransaction == Spec => []OneTransactionPerCall
<1>1. CallInv /\ [Next]_vars => CallInv'
  BY CallNext
<1>2. CallInv => OneTransactionPerCall
  BY DEF CallInv, OneTransactionPerCall
<1> QED
  BY <1>1, <1>2, CallInit, PTL DEF Spec

-----------------------------------------------------------------------------
(* Types. *)

(* A receipt, a position in the mempool and a price make sense only        *)
(* together with what they belong to.                                      *)
TypeInv ==
    /\ TypeOK
    /\ HistoryInv
    /\ mempool \in Seq([batch : Nat, maxFeePerGas : Nat])

LEMMA TypeInit == Init => TypeInv
<1> SUFFICES ASSUME Init PROVE TypeInv
  OBVIOUS
<1>1. HistoryInv
  <2>1. pendingBaseFee \in Fees
    BY DEF Init, HistoryInit, mayFollow
  <2> QED
    BY <2>1, CacheSize DEF Init, HistoryInit, HistoryInv, HistoryTypeOK
<1> QED
  BY <1>1, ExecutionAssumption DEF Init, TypeInv, TypeOK, HistoryInv, NoFees

(* What a transaction of the current batch adds to the mempool. *)
LEMMA TypeAppend ==
    ASSUME TypeInv
    PROVE  LET longer == Append(mempool, Transaction)
           IN  /\ longer \in Seq([batch : Nat, maxFeePerGas : Nat])
               /\ Len(longer) = Len(mempool) + 1
               /\ \A i \in DOMAIN longer : longer[i] \in [batch : 1..batch, maxFeePerGas : Nat]
<1> DEFINE T == [batch : Nat, maxFeePerGas : Nat]
           U == [batch : 1..batch, maxFeePerGas : Nat]
           longer == Append(mempool, Transaction)
<1>1. Transaction \in T /\ Transaction \in U /\ mempool \in Seq(T)
  BY DEF TypeInv, TypeOK, Transaction
<1>2. \A i \in 1..Len(mempool) : mempool[i] \in U
  BY DEF TypeInv, TypeOK
<1> HIDE DEF T, U
<1>3. /\ longer \in Seq(T) /\ Len(longer) = Len(mempool) + 1
      /\ \A i \in 1..Len(mempool) : longer[i] = mempool[i]
      /\ longer[Len(mempool) + 1] = Transaction
      /\ Len(mempool) \in Nat /\ DOMAIN longer = 1..Len(longer)
  BY <1>1, AppendProperties, LenProperties
<1>4. \A i \in DOMAIN longer : longer[i] \in U
  BY <1>1, <1>2, <1>3
<1> QED
  BY <1>3, <1>4 DEF T, U

(* A fault counts against the bound. *)
LEMMA FaultCounts == ASSUME TypeInv, NEW kind, Fault(kind) PROVE faults' \in 0..MaxFaults
BY ExecutionAssumption DEF Fault, TypeInv, TypeOK

LEMMA TypeBaseFeeMoves == TypeInv /\ BaseFeeMoves => TypeInv'
<1> SUFFICES ASSUME TypeInv, NEW fee \in Fees, NewBlock(fee), BaseFeeMoves PROVE TypeInv'
  BY DEF BaseFeeMoves
<1>1. HistoryInv'
  BY HistoryInvNewBlock DEF TypeInv
<1>2. HistoryTypeOK'
  BY <1>1 DEF HistoryInv
<1>3. age' \in Nat
  BY DEF BaseFeeMoves, TypeInv, TypeOK
<1> QED
  BY <1>1, <1>2, <1>3 DEF TypeInv, TypeOK, BaseFeeMoves, sentVars

(* The transactions behind the mined one move up by one place. *)
LEMMA TypeMine == TypeInv /\ Mine => TypeInv'
<1> SUFFICES ASSUME TypeInv, Mine PROVE TypeInv'
  OBVIOUS
<1> DEFINE T == [batch : Nat, maxFeePerGas : Nat]
           U == [batch : 1..batch, maxFeePerGas : Nat]
<1>1. HistoryInv'
  BY HistoryUnchanged DEF TypeInv, Mine
<1>2. mempool \in Seq(T) /\ mempool # <<>> /\ \A i \in 1..Len(mempool) : mempool[i] \in U
  BY DEF TypeInv, TypeOK, Mine
<1> HIDE DEF T, U
<1>3. /\ mempool' \in Seq(T) /\ Len(mempool') = Len(mempool) - 1
      /\ \A i \in 1..Len(mempool') : mempool'[i] = mempool[i + 1]
      /\ Len(mempool) \in Nat /\ DOMAIN mempool' = 1..Len(mempool')
  BY <1>2, HeadTailProperties, LenProperties DEF Mine
<1>4. \A i \in DOMAIN mempool' : mempool'[i] \in U
  BY <1>2, <1>3
<1>5. own' \in 0..Len(mempool')
  BY <1>2, <1>3 DEF TypeInv, TypeOK, Mine
<1>6. HistoryTypeOK'
  BY <1>1 DEF HistoryInv
<1>7. faults' \in 0..MaxFaults
  BY FaultCounts DEF Mine, TypeInv, TypeOK
<1>8. penalty' \in {"due", "recorded"} /\ receipt' \in {"none", "success", "reverted"}
  BY DEF Mine, Receipt, TypeInv, TypeOK
<1>9. UNCHANGED <<dryRun, batch, pc, outcome, attemptVars, sent>>
  BY DEF Mine
<1> QED
  BY <1>1, <1>3, <1>4, <1>5, <1>6, <1>7, <1>8, <1>9 DEF T, U, TypeInv, TypeOK, attemptVars

(* The other steps of the chain. *)
LEMMA TypeChainStep == TypeInv /\ ChainStep => TypeInv'
<1> SUFFICES ASSUME TypeInv, ChainStep PROVE TypeInv'
  OBVIOUS
<1> USE DEF attemptVars, sentVars
<1>1. CASE ReportedElsewhere
  <2>1. HistoryInv'
    BY <1>1, HistoryUnchanged DEF ReportedElsewhere, TypeInv
  <2>2. HistoryTypeOK'
    BY <2>1 DEF HistoryInv
  <2>3. faults' \in 0..MaxFaults
    BY <1>1, ExecutionAssumption DEF ReportedElsewhere, Fault, TypeInv, TypeOK
  <2> QED
    BY <1>1, <2>1, <2>2, <2>3 DEF ReportedElsewhere, TypeInv, TypeOK
<1>2. CASE NextBatch
  <2>1. batch' \in 1..MaxBatches
    BY <1>2, ExecutionAssumption DEF NextBatch, TypeInv, TypeOK
  <2>2. \A i \in DOMAIN mempool : mempool[i] \in [batch : 1..batch', maxFeePerGas : Nat]
    BY <1>2, ExecutionAssumption DEF NextBatch, TypeInv, TypeOK
  <2>3. HistoryInv'
    BY <1>2, HistoryUnchanged DEF NextBatch, TypeInv
  <2>4. HistoryTypeOK'
    BY <2>3 DEF HistoryInv
  <2> QED
    BY <1>2, <2>1, <2>2, <2>3, <2>4 DEF NextBatch, TypeInv, TypeOK
<1> QED
  BY <1>1, <1>2, TypeBaseFeeMoves, TypeMine DEF ChainStep

(* What a step of a call assigns, with its type; the mempool aside, it     *)
(* changes nothing else.                                                   *)
LEMMA TypeOfCall ==
    ASSUME TypeInv, HistoryInv',
           UNCHANGED <<dryRun, batch, penalty, mempool>>,
           pc' \in {"idle", "populate", "emulate", "parameters", "estimate", "conditions",
                    "history", "send", "wait"},
           outcome' \in {"none", "returned", "threw", "gasLimitExceeded"},
           gasParameters' \in [maxFeePerGas : Nat, maxPriorityFeePerGas : Nat],
           estimated' \in Nat, gasLimit' \in 0..TX_GAS_LIMIT, current' \in Nat, age' \in Nat,
           own' \in 0..Len(mempool), receipt' \in {"none", "success", "reverted"},
           sent' \in Nat, faults' \in 0..MaxFaults
    PROVE  TypeInv'
<1>1. HistoryTypeOK'
  BY DEF HistoryInv
<1> QED
  BY <1>1 DEF TypeInv, TypeOK

LEMMA PriorityFeeType == \A reward \in Rewards : calculatePriorityFee(reward) \in Nat
BY ExecutionAssumption DEF calculatePriorityFee

(* A call that ends: the fields of its attempt are reset. *)
LEMMA TypeEnds ==
    ASSUME TypeInv, Ends("returned") \/ Ends("threw") \/ Ends("gasLimitExceeded"),
           UNCHANGED <<historyVars, dryRun, batch, penalty, receipt>>,
           estimated' \in Nat, sent' \in Nat, faults' \in 0..MaxFaults,
           mempool' \in Seq([batch : Nat, maxFeePerGas : Nat]),
           \A i \in DOMAIN mempool' : mempool'[i] \in [batch : 1..batch, maxFeePerGas : Nat]
    PROVE  TypeInv'
<1>1. HistoryInv'
  BY HistoryUnchanged DEF TypeInv
<1>2. HistoryTypeOK'
  BY <1>1 DEF HistoryInv
<1>3. 0 \in 0..Len(mempool')
  <2>1. Len(mempool') \in Nat
    BY LenProperties
  <2> QED
    BY <2>1
<1>4. /\ pc' = "idle" /\ outcome' \in {"returned", "threw", "gasLimitExceeded"} /\ own' = 0
      /\ gasParameters' \in [maxFeePerGas : Nat, maxPriorityFeePerGas : Nat]
      /\ gasLimit' = 0 /\ current' = 0 /\ age' = 0
  BY DEF Ends, ResetAttempt, NoFees
<1>5. 0 \in 0..TX_GAS_LIMIT
  BY ExecutionAssumption
<1>6. /\ dryRun' \in {"yes", "no"} /\ batch' \in 1..MaxBatches /\ penalty' \in {"due", "recorded"}
      /\ receipt' \in {"none", "success", "reverted"} /\ batch' = batch
  BY DEF TypeInv, TypeOK
<1>7. TypeOK'
  BY <1>2, <1>3, <1>4, <1>5, <1>6 DEF TypeOK
<1> QED
  BY <1>1, <1>7 DEF TypeInv

(* The mempool as it was. *)
LEMMA TypeMempool ==
    ASSUME TypeInv, UNCHANGED <<batch, mempool>>
    PROVE  /\ mempool' \in Seq([batch : Nat, maxFeePerGas : Nat])
           /\ \A i \in DOMAIN mempool' : mempool'[i] \in [batch : 1..batch, maxFeePerGas : Nat]
BY DEF TypeInv, TypeOK

(* The steps that change no more than where the call is. *)
LEMMA TypeCallMoves ==
    ASSUME TypeInv, Call \/ Populate \/ Emulate PROVE TypeInv'
<1>1. HistoryInv'
  BY HistoryUnchanged DEF Call, Populate, Emulate, TypeInv
<1>2. HistoryTypeOK'
  BY <1>1 DEF HistoryInv
<1> QED
  BY <1>1, <1>2 DEF Call, Populate, Emulate, attemptVars, sentVars, TypeInv, TypeOK

(* The steps that end a call. *)
LEMMA TypeCallEnds ==
    ASSUME TypeInv, EmulatedCallError \/ DryRunEnds \/ WaitForConfirmation PROVE TypeInv'
<1>1. UNCHANGED <<historyVars, dryRun, batch, penalty, mempool, estimated, receipt, sent, faults>>
  BY DEF EmulatedCallError, DryRunEnds, WaitForConfirmation
<1>2. Ends("returned") \/ Ends("threw")
  BY DEF EmulatedCallError, DryRunEnds, WaitForConfirmation
<1>3. estimated' \in Nat /\ sent' \in Nat /\ faults' \in 0..MaxFaults
  BY <1>1 DEF TypeInv, TypeOK
<1> QED
  BY <1>1, <1>2, <1>3, TypeMempool, TypeEnds

LEMMA TypeCalculateGasParameters == TypeInv /\ CalculateGasParameters => TypeInv'
<1> SUFFICES ASSUME TypeInv, CalculateGasParameters PROVE TypeInv'
  OBVIOUS
<1>1. HistoryInv'
  BY HistoryUnchanged DEF CalculateGasParameters, TypeInv
<1>2. pendingBaseFee \in Nat
  BY GasFeeHistoryAssumption DEF TypeInv, TypeOK, HistoryTypeOK
<1>3. gasParameters' \in [maxFeePerGas : Nat, maxPriorityFeePerGas : Nat]
  BY <1>2, PriorityFeeType DEF CalculateGasParameters, GAS_BUFFER_MULTIPLIER
<1>4. HistoryTypeOK'
  BY <1>1 DEF HistoryInv
<1> QED
  BY <1>1, <1>3, <1>4 DEF CalculateGasParameters, sentVars, TypeInv, TypeOK

LEMMA EstimateType ==
    ASSUME TypeInv, NEW gas \in GasEstimates \cup {TX_GAS_LIMIT}, EstimateGasLimit(gas)
    PROVE  estimatedWithBuffer(gas) \in Nat /\ estimated' \in Nat /\ faults' \in 0..MaxFaults
<1>1. gas \in Nat
  BY ExecutionAssumption
<1>2. estimatedWithBuffer(gas) \in Nat
  BY <1>1 DEF estimatedWithBuffer
<1>3. estimated' \in Nat
  BY <1>1 DEF EstimateGasLimit
<1>4. faults' \in 0..MaxFaults
  BY FaultCounts DEF EstimateGasLimit, TypeInv, TypeOK
<1> QED
  BY <1>2, <1>3, <1>4

LEMMA TypePrepareTransaction == TypeInv /\ PrepareTransaction => TypeInv'
<1> SUFFICES ASSUME TypeInv, PrepareTransaction PROVE TypeInv'
  OBVIOUS
<1>1. HistoryInv'
  BY HistoryUnchanged DEF PrepareTransaction, TypeInv
<1>2. gasLimit' \in 0..TX_GAS_LIMIT /\ estimated' \in Nat /\ faults' \in 0..MaxFaults
  BY EstimateType, ExecutionAssumption DEF PrepareTransaction
<1>3. HistoryTypeOK'
  BY <1>1 DEF HistoryInv
<1> QED
  BY <1>1, <1>2, <1>3 DEF PrepareTransaction, sentVars, TypeInv, TypeOK

LEMMA TypeGasLimitExceeded == TypeInv /\ GasLimitExceededError => TypeInv'
<1> SUFFICES ASSUME TypeInv, GasLimitExceededError PROVE TypeInv'
  OBVIOUS
<1>1. /\ UNCHANGED <<historyVars, dryRun, batch, penalty, mempool, receipt, sent>>
      /\ Ends("gasLimitExceeded")
  BY DEF GasLimitExceededError
<1>2. estimated' \in Nat /\ faults' \in 0..MaxFaults
  BY EstimateType DEF GasLimitExceededError
<1>3. sent' \in Nat
  BY <1>1 DEF TypeInv, TypeOK
<1> QED
  BY <1>1, <1>2, <1>3, TypeMempool, TypeEnds

(* The fee check reads the current fee, then refreshes the cache. *)
LEMMA TypeFeeCheck ==
    ASSUME TypeInv, ReadCurrentFee \/ FeeAcceptable \/ HighGasFeeError PROVE TypeInv'
<1>1. HistoryInv'
  BY HistoryUnchanged, HistoryInvCalculate
  DEF ReadCurrentFee, FeeAcceptable, HighGasFeeError, TypeInv
<1>2. pendingBaseFee \in Nat
  BY GasFeeHistoryAssumption DEF TypeInv, TypeOK, HistoryTypeOK
<1>3. /\ gasParameters' \in [maxFeePerGas : Nat, maxPriorityFeePerGas : Nat]
      /\ gasLimit' \in 0..TX_GAS_LIMIT /\ current' \in Nat /\ age' \in Nat
  BY <1>2, ExecutionAssumption
  DEF ReadCurrentFee, FeeAcceptable, HighGasFeeError, ResetAttempt, NoFees, attemptVars,
      TypeInv, TypeOK
<1>4. UNCHANGED <<dryRun, batch, penalty, mempool, outcome, estimated, own, receipt, sent, faults>>
  BY DEF ReadCurrentFee, FeeAcceptable, HighGasFeeError, attemptVars, sentVars
<1>5. pc' \in {"history", "send", "populate"}
  BY DEF ReadCurrentFee, FeeAcceptable, HighGasFeeError
<1> QED
  BY <1>1, <1>3, <1>4, <1>5, TypeOfCall DEF TypeInv, TypeOK

(* The transaction is the last of the mempool. *)
LEMMA TypeSendTransaction == TypeInv /\ SendTransaction => TypeInv'
<1> SUFFICES ASSUME TypeInv, SendTransaction PROVE TypeInv'
  OBVIOUS
<1>1. HistoryInv'
  BY HistoryUnchanged DEF SendTransaction, TypeInv
<1>2. /\ mempool' \in Seq([batch : Nat, maxFeePerGas : Nat]) /\ Len(mempool') = Len(mempool) + 1
      /\ \A i \in DOMAIN mempool' : mempool'[i] \in [batch : 1..batch, maxFeePerGas : Nat]
  BY TypeAppend DEF SendTransaction
<1>3. Len(mempool) \in Nat
  BY LenProperties DEF TypeInv
<1>4. HistoryTypeOK'
  BY <1>1 DEF HistoryInv
<1>5. own' \in 0..Len(mempool') /\ pc' = "wait" /\ sent' \in Nat
  BY <1>2, <1>3 DEF SendTransaction, TypeInv, TypeOK
<1>6. UNCHANGED <<dryRun, batch, penalty, outcome, attemptVars, receipt, faults>>
  BY DEF SendTransaction
<1>7. TypeOK'
  BY <1>2, <1>4, <1>5, <1>6 DEF attemptVars, TypeInv, TypeOK
<1> QED
  BY <1>1, <1>2, <1>7 DEF TypeInv

LEMMA TypeFailure == TypeInv /\ Failure => TypeInv'
<1> SUFFICES ASSUME TypeInv, Failure PROVE TypeInv'
  OBVIOUS
<1>1. HandleExecutionError
  BY DEF Failure, WaitingTimesOut, CallFails, AnswerLost
<1>2. UNCHANGED <<historyVars, dryRun, batch, penalty, estimated, receipt>> /\ Ends("threw")
  BY <1>1 DEF HandleExecutionError
<1>3. estimated' \in Nat
  BY <1>2 DEF TypeInv, TypeOK
<1>4. faults' \in 0..MaxFaults
  BY FaultCounts DEF Failure, WaitingTimesOut, CallFails, AnswerLost
<1>5. CASE WaitingTimesOut \/ CallFails
  <2>1. UNCHANGED <<mempool, sent>>
    BY <1>5 DEF WaitingTimesOut, CallFails
  <2>2. sent' \in Nat
    BY <2>1 DEF TypeInv, TypeOK
  <2> QED
    BY <1>2, <1>3, <1>4, <2>1, <2>2, TypeMempool, TypeEnds
<1>6. CASE AnswerLost
  <2>1. /\ mempool' \in Seq([batch : Nat, maxFeePerGas : Nat])
        /\ \A i \in DOMAIN mempool' : mempool'[i] \in [batch : 1..batch, maxFeePerGas : Nat]
    BY <1>6, TypeAppend DEF AnswerLost
  <2>2. sent' \in Nat
    BY <1>6 DEF AnswerLost, TypeInv, TypeOK
  <2> QED
    BY <1>2, <1>3, <1>4, <2>1, <2>2, TypeEnds
<1> QED
  BY <1>5, <1>6 DEF Failure

LEMMA TypeNext == TypeInv /\ [Next]_vars => TypeInv'
<1> SUFFICES ASSUME TypeInv, [Next]_vars PROVE TypeInv'
  OBVIOUS
<1>1. CASE BotStep
  BY <1>1, TypeCallMoves, TypeCallEnds, TypeCalculateGasParameters, TypePrepareTransaction,
     TypeGasLimitExceeded, TypeFeeCheck, TypeSendTransaction DEF BotStep
<1>2. CASE UNCHANGED vars
  <2>1. HistoryInv'
    BY <1>2, HistoryUnchanged DEF vars, TypeInv
  <2>2. HistoryTypeOK'
    BY <2>1 DEF HistoryInv
  <2> QED
    BY <1>2, <2>1, <2>2 DEF vars, attemptVars, sentVars, TypeInv, TypeOK
<1> QED
  BY <1>1, <1>2, TypeFailure, TypeChainStep DEF Next

(* Every variable of the execution loop keeps its type: in particular the  *)
(* cache of the fee history is full for ever after its first update, what  *)
(* waits in the mempool is of a batch that exists, and no transaction has  *)
(* more gas than the configuration allows.                                 *)
THEOREM ExecutionTypes == Spec => []TypeOK
<1>1. TypeInv => TypeOK
  BY DEF TypeInv
<1> QED
  BY <1>1, TypeInit, TypeNext, PTL DEF Spec

-----------------------------------------------------------------------------
(* The fee of a transaction. *)

(* What a base fee may be, `blocks` blocks after it was `base`, as long as  *)
(* it has not doubled: each block adds the fraction 1/D of twice the base. *)
Within(D, base, blocks, fee) == D * fee <= D * base + base * (2 * blocks)

(* In D / 2 blocks it does not double. *)
LEMMA NotDoubled ==
    ASSUME NEW D \in Nat \ {0}, NEW base \in Nat, NEW blocks \in Nat, NEW fee \in Nat,
           2 * blocks <= D, Within(D, base, blocks, fee)
    PROVE  fee <= 2 * base
<1> DEFINE slack == D - 2 * blocks
<1>1. slack \in Nat
  OBVIOUS
<1> HIDE DEF slack
<1>2. base * slack >= 0
  BY <1>1
<1>3. base * (2 * blocks) + base * slack = D * base
  <2>1. 2 * blocks + slack = D
    BY DEF slack
  <2>2. \A x, y, z \in Nat : x * y + x * z = (y + z) * x
    OBVIOUS
  <2> QED
    BY <1>1, <2>1, <2>2
<1>4. D * fee <= D * (2 * base)
  BY <1>2, <1>3 DEF Within
<1>5. fee > 2 * base => D * fee > D * (2 * base)
  <2>1. \A x, y \in Nat : x > y => D * x > D * y
    OBVIOUS
  <2> QED
    BY <2>1
<1> QED
  BY <1>4, <1>5

LEMMA OneMoreBlock ==
    ASSUME NEW D \in Nat \ {0}, NEW base \in Nat, NEW blocks \in Nat, NEW fee \in Nat,
           2 * blocks <= D, Within(D, base, blocks, fee),
           NEW next \in Nat, next <= fee + fee \div D
    PROVE  Within(D, base, blocks + 1, next)
<1>1. fee <= 2 * base
  BY NotDoubled
<1> DEFINE change == fee \div D
<1>2. change \in Nat /\ D * change <= fee
  OBVIOUS
<1> HIDE DEF change
<1>3. D * next <= D * fee + D * change
  <2>1. \A x, y, z \in Nat : x <= y + z => D * x <= D * y + D * z
    OBVIOUS
  <2> QED
    BY <1>2, <2>1 DEF change
<1>4. base * (2 * (blocks + 1)) = base * (2 * blocks) + 2 * base
  OBVIOUS
<1> QED
  BY <1>1, <1>2, <1>3, <1>4 DEF Within

(* The base fee that maxFeePerGas was computed from, and what may have     *)
(* become of it.  Nothing is compared with it before it is read again.     *)
PricedFrom(base) ==
    /\ gasParameters.maxFeePerGas >= 2 * base
    /\ Fresh(age) => /\ Within(BASE_FEE_MAX_CHANGE_DENOMINATOR, base, age, pendingBaseFee)
                     /\ current <= 2 * base

FeeInv ==
    /\ pc \notin {"history", "send", "wait"} => current = 0
    /\ Priced => \E base \in Fees : PricedFrom(base)

LEMMA FeeTypes ==
    ASSUME TypeInv
    PROVE  /\ pendingBaseFee \in Nat /\ pendingBaseFee \in Fees /\ age \in Nat
           /\ BASE_FEE_MAX_CHANGE_DENOMINATOR \in Nat \ {0}
           /\ \A base \in Fees : base \in Nat
           /\ gasParameters.maxFeePerGas \in Nat /\ current \in Nat
BY GasFeeHistoryAssumption DEF TypeInv, TypeOK, HistoryTypeOK

LEMMA FeeCalculated == TypeInv /\ FeeInv /\ CalculateGasParameters => FeeInv'
<1> SUFFICES ASSUME TypeInv, FeeInv, CalculateGasParameters PROVE FeeInv'
  OBVIOUS
<1>1. gasParameters'.maxFeePerGas >= 2 * pendingBaseFee
  BY FeeTypes, PriorityFeeType DEF CalculateGasParameters, GAS_BUFFER_MULTIPLIER
<1>2. pc' = "estimate" /\ age' = 0 /\ current' = 0 /\ pendingBaseFee' = pendingBaseFee
  BY DEF CalculateGasParameters, FeeInv, historyVars
<1>3. PricedFrom(pendingBaseFee)'
  <2>1. Within(BASE_FEE_MAX_CHANGE_DENOMINATOR, pendingBaseFee, 0, pendingBaseFee)
    BY FeeTypes DEF Within
  <2> QED
    BY <1>1, <1>2, <2>1, FeeTypes DEF PricedFrom
<1> QED
  BY <1>2, <1>3, FeeTypes DEF FeeInv

(* A block comes between the calculation and the end of the call. *)
LEMMA FeeBlock == TypeInv /\ FeeInv /\ BaseFeeMoves => FeeInv'
<1> SUFFICES ASSUME TypeInv, FeeInv, BaseFeeMoves, Priced PROVE FeeInv'
  BY DEF BaseFeeMoves, FeeInv, Priced
<1> DEFINE D == BASE_FEE_MAX_CHANGE_DENOMINATOR
<1>1. PICK base \in Fees : PricedFrom(base)
  BY DEF FeeInv
<1>2. UNCHANGED <<pc, gasParameters, current>>
  BY DEF BaseFeeMoves
<1>3. Fresh(age') => Fresh(age) /\ age' = age + 1
  BY FeeTypes DEF BaseFeeMoves, Fresh
<1>4. pendingBaseFee' \in Nat /\ pendingBaseFee' <= pendingBaseFee + pendingBaseFee \div D
  BY FeeTypes DEF BaseFeeMoves, NewBlock, mayFollow
<1>5. Fresh(age') => Within(D, base, age', pendingBaseFee')
  <2> SUFFICES ASSUME Fresh(age') PROVE Within(D, base, age + 1, pendingBaseFee')
    BY <1>3
  <2>1. 2 * age <= D /\ Within(D, base, age, pendingBaseFee)
    BY <1>1, <1>3 DEF Fresh, PricedFrom
  <2> QED
    BY <1>4, <2>1, FeeTypes, OneMoreBlock
<1>6. PricedFrom(base)'
  BY <1>1, <1>2, <1>3, <1>5 DEF PricedFrom
<1> QED
  BY <1>2, <1>6 DEF FeeInv

LEMMA FeeRead == TypeInv /\ FeeInv /\ ReadCurrentFee => FeeInv'
<1> SUFFICES ASSUME TypeInv, FeeInv, ReadCurrentFee PROVE FeeInv'
  OBVIOUS
<1>1. PICK base \in Fees : PricedFrom(base)
  BY DEF FeeInv, ReadCurrentFee, Priced
<1>2. /\ UNCHANGED <<gasParameters, age, pendingBaseFee>>
      /\ current' = pendingBaseFee /\ pc' = "history"
  BY DEF ReadCurrentFee, historyVars
<1>3. Fresh(age) => pendingBaseFee <= 2 * base
  BY <1>1, FeeTypes, NotDoubled DEF PricedFrom, Fresh
<1>4. PricedFrom(base)'
  BY <1>1, <1>2, <1>3 DEF PricedFrom
<1> QED
  BY <1>2, <1>4 DEF FeeInv

(* The price stays as it is, and so does the base fee. *)
LEMMA FeeKept ==
    ASSUME FeeInv, UNCHANGED <<gasParameters, age, pendingBaseFee, current>>,
           pc' \in {"history", "send", "wait"} \/ current = 0, Priced' => Priced
    PROVE  FeeInv'
<1>1. \A base \in Fees : PricedFrom(base) => PricedFrom(base)'
  BY DEF PricedFrom
<1> QED
  BY <1>1 DEF FeeInv

(* No price is left. *)
LEMMA FeeReset == ASSUME current' = 0, ~Priced' PROVE FeeInv'
BY DEF FeeInv

LEMMA FeeNext == TypeInv /\ FeeInv /\ [Next]_vars => FeeInv'
<1> SUFFICES ASSUME TypeInv, FeeInv, [Next]_vars PROVE FeeInv'
  OBVIOUS
<1> USE DEF attemptVars, sentVars, ResetAttempt, Priced, historyVars
<1>1. CASE PrepareTransaction \/ FeeAcceptable \/ SendTransaction
  BY <1>1, FeeKept DEF PrepareTransaction, EstimateGasLimit, FeeAcceptable, CalculateGasFeeData,
                       SendTransaction, FeeInv
<1>2. CASE Call \/ Populate \/ Emulate
  BY <1>2, FeeReset DEF Call, Populate, Emulate, FeeInv
<1>3. CASE \/ EmulatedCallError \/ GasLimitExceededError \/ DryRunEnds \/ WaitForConfirmation
           \/ HighGasFeeError
  BY <1>3, FeeReset DEF EmulatedCallError, GasLimitExceededError, DryRunEnds,
                        WaitForConfirmation, HighGasFeeError, Ends
<1>4. CASE Failure
  BY <1>4, FeeReset DEF Failure, WaitingTimesOut, CallFails, AnswerLost, HandleExecutionError,
                        Ends
<1>5. CASE ChainStep /\ ~BaseFeeMoves
  BY <1>5, FeeKept DEF ChainStep, Mine, ReportedElsewhere, NextBatch, FeeInv
<1>6. CASE UNCHANGED vars
  BY <1>6, FeeKept DEF vars, FeeInv
<1> QED
  BY <1>1, <1>2, <1>3, <1>4, <1>5, <1>6, FeeCalculated, FeeBlock, FeeRead
  DEF Next, BotStep, ChainStep

(* The buffer is enough for BASE_FEE_MAX_CHANGE_DENOMINATOR / 2 blocks,    *)
(* four of them on the chain the bot works with: as long as no more have   *)
(* come since maxFeePerGas was computed, a transaction can pay the base    *)
(* fee it was checked with, and the one of the next block, at every level  *)
(* of the fees.  Only that a block changes the base fee by no more than    *)
(* the protocol allows is assumed.                                         *)
THEOREM BufferIsEnough == Spec => []NotUnderpriced
<1>1. Init => FeeInv
  BY DEF Init, FeeInv, Priced
<1>2. TypeInv /\ FeeInv => NotUnderpriced
  <2> SUFFICES ASSUME TypeInv, FeeInv, Priced, Fresh(age)
               PROVE  /\ gasParameters.maxFeePerGas >= pendingBaseFee
                      /\ gasParameters.maxFeePerGas >= current
    BY DEF NotUnderpriced
  <2>1. PICK base \in Fees : PricedFrom(base)
    BY DEF FeeInv
  <2>2. pendingBaseFee <= 2 * base
    BY <2>1, FeeTypes, NotDoubled DEF PricedFrom, Fresh
  <2>3. current <= 2 * base /\ gasParameters.maxFeePerGas >= 2 * base
    BY <2>1 DEF PricedFrom
  <2> QED
    BY <2>2, <2>3, FeeTypes
<1> QED
  BY <1>1, <1>2, TypeInit, TypeNext, FeeNext, PTL DEF Spec

-----------------------------------------------------------------------------
(* The recommended fee. *)

Ascending(fees) == \A i, j \in DOMAIN fees : i <= j => fees[i] <= fees[j]

(* Of every amount: no more of these fees than of the others are at most  *)
(* that amount.                                                            *)
NotBelow(fees, others) ==
    \A fee \in Int : Cardinality(atMost(fees, fee)) <= Cardinality(atMost(others, fee))

LEMMA CountIsInteger ==
    ASSUME NEW n \in Nat, NEW f \in [1..n -> Nat], NEW x \in Int
    PROVE  Cardinality(atMost(f, x)) \in Int
<1>1. Cardinality(atMost(f, x)) \in 0..n
  BY CountAtMost
<1> QED
  BY <1>1

LEMMA CountGrows ==
    ASSUME NEW n \in Nat, NEW f \in [1..n -> Nat], NEW x \in Int, NEW y \in Int, x <= y
    PROVE  Cardinality(atMost(f, x)) <= Cardinality(atMost(f, y))
<1>1. atMost(f, x) \in SUBSET atMost(f, y)
  BY DEF atMost
<1>2. IsFiniteSet(atMost(f, y))
  BY CountAtMost
<1> QED
  BY <1>1, <1>2, FS_Subset

(* Sorting puts the fees in order and makes none of them smaller. *)
LEMMA SortedProperties ==
    ASSUME NEW n \in Nat, NEW f \in [1..n -> Nat]
    PROVE  Ascending(Sorted(f)) /\ NotBelow(Sorted(f), f)
<1> DEFINE s == Sorted(f)
<1>1. s \in [1..n -> Nat]
  BY SortedType
<1>2. \A k \in 1..n : /\ k <= Cardinality(atMost(f, s[k]))
                      /\ Cardinality(atMost(f, s[k] - 1)) < k
  BY KthSmallest DEF Sorted
<1>3. \A x \in Int : Cardinality(atMost(f, x)) \in 0..n
  BY CountAtMost
<1> HIDE DEF s
<1>4. ASSUME NEW i \in 1..n, NEW j \in 1..n, i <= j PROVE s[i] <= s[j]
  <2> SUFFICES ASSUME s[j] < s[i] PROVE FALSE
    BY <1>1
  <2>1. s[j] \in Int /\ s[i] - 1 \in Int /\ s[j] <= s[i] - 1
    BY <1>1
  <2>2. Cardinality(atMost(f, s[j])) <= Cardinality(atMost(f, s[i] - 1))
    BY <2>1, CountGrows
  <2>3. Cardinality(atMost(f, s[j])) \in Int
    BY <2>1, CountIsInteger
  <2>4. Cardinality(atMost(f, s[i] - 1)) \in Int
    BY <2>1, CountIsInteger
  <2> QED
    BY <1>2, <1>4, <2>2, <2>3, <2>4
<1>5. ASSUME NEW x \in Int PROVE Cardinality(atMost(s, x)) <= Cardinality(atMost(f, x))
  <2> DEFINE m == Cardinality(atMost(f, x))
  <2>1. m \in 0..n
    BY <1>3
  <2>2. ASSUME NEW k \in 1..n, s[k] <= x PROVE k <= m
    <3>1. s[k] \in Int
      BY <1>1
    <3>2. Cardinality(atMost(f, s[k])) <= m
      BY <2>2, <3>1, CountGrows
    <3>3. k <= Cardinality(atMost(f, s[k])) /\ Cardinality(atMost(f, s[k])) \in Int
      BY <1>2, <1>3, <3>1
    <3> HIDE DEF m
    <3> QED
      BY <2>1, <3>2, <3>3
  <2> HIDE DEF m
  <2>3. atMost(s, x) \in SUBSET (1..m)
    BY <1>1, <2>1, <2>2 DEF atMost
  <2>4. IsFiniteSet(1..m) /\ Cardinality(1..m) = m
    BY <2>1, FS_Interval
  <2> QED
    BY <2>3, <2>4, FS_Subset DEF m
<1> QED
  BY <1>1, <1>4, <1>5 DEF Ascending, NotBelow, s

(* Of fees in order, the first ones are at most a given fee. *)
LEMMA AscendingCount ==
    ASSUME NEW n \in Nat, NEW f \in [1..n -> Nat], Ascending(f), NEW x \in Int
    PROVE  atMost(f, x) = 1..Cardinality(atMost(f, x))
<1> DEFINE S == atMost(f, x)
           m == Cardinality(S)
<1>1. S \in SUBSET (1..n) /\ IsFiniteSet(S) /\ m \in 0..n
  BY CountAtMost
<1>2. ASSUME NEW k \in S PROVE k <= m
  <2>1. k \in 1..n /\ f[k] <= x
    BY DEF atMost
  <2>2. \A i \in 1..k : i \in 1..n /\ f[i] <= f[k] /\ f[i] \in Nat /\ f[k] \in Nat
    BY <2>1 DEF Ascending
  <2>3. 1..k \in SUBSET S
    BY <2>1, <2>2 DEF atMost
  <2>4. Cardinality(1..k) = k
    BY <2>1, FS_Interval
  <2>5. Cardinality(1..k) <= m
    BY <1>1, <2>3, FS_Subset
  <2> QED
    BY <2>4, <2>5
<1> HIDE DEF S
<1>3. S \in SUBSET (1..m)
  BY <1>1, <1>2
<1>4. IsFiniteSet(1..m) /\ Cardinality(1..m) = m
  BY <1>1, FS_Interval
<1>5. 1..m = S
  BY <1>3, <1>4, FS_Subset
<1> QED
  BY <1>5 DEF S

(* What an update leaves of the cache, and what it adds, count apart. *)
LeftAtMost(fees, n, b, x)  == {i \in 1..(n - b) : fees[b + i] <= x}
AddedAtMost(new, n, b, x) == {i \in (n - b + 1)..n : new[i - (n - b)] <= x}

LEMMA CountWithNewFees ==
    ASSUME NEW n \in Nat, NEW b \in 0..n, NEW new \in [1..b -> Fees], NEW f \in [1..n -> Fees],
           f # <<>>, NEW x \in Int
    PROVE  /\ Cardinality(LeftAtMost(f, n, b, x)) \in Nat
           /\ Cardinality(AddedAtMost(new, n, b, x)) \in Nat
           /\ Cardinality(atMost(withNewFees(f, new), x))
                = Cardinality(LeftAtMost(f, n, b, x)) + Cardinality(AddedAtMost(new, n, b, x))
<1> DEFINE left  == LeftAtMost(f, n, b, x)
           added == AddedAtMost(new, n, b, x)
           longer == withNewFees(f, new)
<1> USE DEF LeftAtMost, AddedAtMost
<1>1. /\ longer \in [1..n -> Fees]
      /\ \A i \in 1..n : longer[i] = IF i <= n - b THEN f[b + i] ELSE new[i - (n - b)]
  BY WithNewFees
<1>2. atMost(longer, x) = left \cup added
  <2> HIDE DEF longer
  <2>1. \A i \in 1..n : i \in left \cup added <=> longer[i] <= x
    <3> SUFFICES ASSUME NEW i \in 1..n PROVE i \in left \cup added <=> longer[i] <= x
      OBVIOUS
    <3>1. CASE i <= n - b
      BY <1>1, <3>1
    <3>2. CASE ~(i <= n - b)
      BY <1>1, <3>2
    <3> QED
      BY <3>1, <3>2
  <2>2. left \cup added \in SUBSET (1..n)
    OBVIOUS
  <2>3. atMost(longer, x) = {i \in 1..n : longer[i] <= x}
    BY <1>1 DEF atMost
  <2> HIDE DEF left, added
  <2> QED
    BY <2>1, <2>2, <2>3
<1>3. left \cap added = {}
  OBVIOUS
<1>4. IsFiniteSet(left) /\ IsFiniteSet(added)
  <2>1. IsFiniteSet(1..n)
    BY FS_Interval
  <2>2. left \in SUBSET (1..n) /\ added \in SUBSET (1..n)
    OBVIOUS
  <2> HIDE DEF left, added
  <2> QED
    BY <2>1, <2>2, FS_Subset
<1> HIDE DEF left, added, longer
<1>5. Cardinality(left) \in Nat /\ Cardinality(added) \in Nat
  BY <1>4, FS_CardinalityType
<1>6. Cardinality(left \cup added) = Cardinality(left) + Cardinality(added)
  <2>1. Cardinality(left \cap added) = 0
    BY <1>3, FS_EmptySet
  <2>2. Cardinality(left \cup added)
          = Cardinality(left) + Cardinality(added) - Cardinality(left \cap added)
    BY <1>4, FS_Union
  <2> QED
    BY <1>5, <2>1, <2>2
<1> QED
  BY <1>2, <1>5, <1>6 DEF left, added, longer

(* Of fees in no order, what b fees less leaves: b fewer are at most x, at *)
(* most.                                                                   *)
LEMMA CountLeft ==
    ASSUME NEW n \in Nat, NEW b \in 0..n, NEW f \in [1..n -> Nat], NEW x \in Int,
           Cardinality(LeftAtMost(f, n, b, x)) \in Nat
    PROVE  Cardinality(atMost(f, x)) <= b + Cardinality(LeftAtMost(f, n, b, x))
<1> DEFINE left  == LeftAtMost(f, n, b, x)
           moved == {i \in (b + 1)..n : f[i] <= x}
           shift == [i \in left |-> b + i]
<1>1. shift \in Surjection(left, moved)
  <2>1. \A i \in left : b + i \in moved
    BY DEF LeftAtMost
  <2>2. \A j \in moved : j - b \in left /\ b + (j - b) = j
    BY DEF LeftAtMost
  <2> HIDE DEF moved, left
  <2> QED
    BY <2>1, <2>2 DEF Surjection
<1>2. atMost(f, x) \in SUBSET ((1..b) \cup moved)
  BY DEF atMost
<1>0. IsFiniteSet(left)
  <2>1. n - b \in Int /\ left \in SUBSET (1..(n - b))
    BY DEF LeftAtMost
  <2> HIDE DEF left
  <2>2. IsFiniteSet(1..(n - b))
    BY <2>1, FS_Interval
  <2> QED
    BY <2>1, <2>2, FS_Subset
<1> HIDE DEF shift, moved, left
<1>3. IsFiniteSet(moved) /\ Cardinality(moved) <= Cardinality(left)
  BY <1>0, <1>1, FS_Surjection
<1>4. IsFiniteSet(1..b) /\ Cardinality(1..b) = b
  BY FS_Interval
<1>5. /\ IsFiniteSet((1..b) \cup moved)
      /\ Cardinality((1..b) \cup moved) = b + Cardinality(moved) - Cardinality((1..b) \cap moved)
  BY <1>3, <1>4, FS_Union
<1>6. Cardinality((1..b) \cap moved) \in Nat /\ Cardinality(moved) \in Nat
  <2>1. (1..b) \cap moved \in SUBSET (1..b)
    OBVIOUS
  <2>2. IsFiniteSet((1..b) \cap moved)
    BY <1>4, <2>1, FS_Subset
  <2> QED
    BY <1>3, <2>2, FS_CardinalityType
<1>7. Cardinality(atMost(f, x)) <= Cardinality((1..b) \cup moved)
  BY <1>2, <1>5, FS_Subset
<1>8. Cardinality(atMost(f, x)) \in Nat
  BY CountAtMost
<1>9. Cardinality(left) \in Nat
  BY DEF left
<1>10. Cardinality(atMost(f, x)) <= b + Cardinality(left)
  BY <1>3, <1>5, <1>6, <1>7, <1>8, <1>9
<1> QED
  BY <1>10 DEF left

(* Dropping the lowest fees instead of the oldest leaves none that are     *)
(* lower.                                                                  *)
LEMMA UpdateNotBelow ==
    ASSUME NEW n \in Nat, NEW b \in 0..n, NEW new \in [1..b -> Fees],
           NEW c \in [1..n -> Fees], NEW f \in [1..n -> Fees], c # <<>>, f # <<>>,
           Ascending(c), NotBelow(c, f)
    PROVE  NotBelow(withNewFees(c, new), withNewFees(f, new))
<1> SUFFICES ASSUME NEW x \in Int
             PROVE  Cardinality(atMost(withNewFees(c, new), x))
                      <= Cardinality(atMost(withNewFees(f, new), x))
  BY DEF NotBelow
<1> DEFINE leftOfC == LeftAtMost(c, n, b, x)
           leftOfF == LeftAtMost(f, n, b, x)
           added == AddedAtMost(new, n, b, x)
           inC == Cardinality(atMost(c, x))
           inF == Cardinality(atMost(f, x))
<1>1. c \in [1..n -> Nat] /\ f \in [1..n -> Nat]
  BY GasFeeHistoryAssumption
<1>2. inC \in 0..n /\ inF \in 0..n /\ inC <= inF
  BY <1>1, CountAtMost DEF NotBelow
<1>3. leftOfC = 1..(inC - b)
  <2>1. atMost(c, x) = 1..inC
    BY <1>1, AscendingCount
  <2>2. \A i \in 1..n : c[i] <= x <=> i \in 1..inC
    BY <2>1 DEF atMost
  <2> HIDE DEF inC
  <2> QED
    BY <1>2, <2>2 DEF LeftAtMost
<1>4. Cardinality(leftOfC) = IF inC > b THEN inC - b ELSE 0
  <2> HIDE DEF leftOfC, inC
  <2>1. Cardinality(1..(inC - b)) = IF 1 > inC - b THEN 0 ELSE (inC - b) - 1 + 1
    BY <1>2, FS_Interval
  <2> QED
    BY <1>2, <1>3, <2>1
<1>5. /\ Cardinality(leftOfF) \in Nat /\ Cardinality(added) \in Nat
      /\ Cardinality(atMost(withNewFees(f, new), x)) = Cardinality(leftOfF) + Cardinality(added)
  BY CountWithNewFees
<1>6. Cardinality(atMost(withNewFees(c, new), x)) = Cardinality(leftOfC) + Cardinality(added)
  BY CountWithNewFees
<1>7. inF <= b + Cardinality(leftOfF)
  BY <1>1, <1>5, CountLeft
<1> HIDE DEF leftOfC, leftOfF, added, inC, inF
<1> QED
  BY <1>2, <1>4, <1>5, <1>6, <1>7

(* Fees in order that are not below others: the k-th of them is not below  *)
(* the k-th smallest of the others.                                        *)
LEMMA NotBelowPointwise ==
    ASSUME NEW n \in Nat, NEW c \in [1..n -> Nat], NEW f \in [1..n -> Nat],
           Ascending(c), NotBelow(c, f)
    PROVE  \A k \in 1..n : Sorted(f)[k] <= c[k]
<1> SUFFICES ASSUME NEW k \in 1..n PROVE Sorted(f)[k] <= c[k]
  OBVIOUS
<1> DEFINE y == Sorted(f)[k]
<1>1. y \in Nat /\ c[k] \in Nat
  <2>1. Sorted(f) \in [1..n -> Nat]
    BY SortedType
  <2> QED
    BY <2>1
<1>2. Cardinality(atMost(f, y - 1)) < k
  BY KthSmallest DEF Sorted
<1> HIDE DEF y
<1>3. SUFFICES ASSUME c[k] <= y - 1 PROVE FALSE
  BY <1>1 DEF y
<1>4. k \in atMost(c, c[k])
  BY <1>1 DEF atMost
<1>5. /\ k <= Cardinality(atMost(c, c[k]))
      /\ Cardinality(atMost(c, c[k])) \in Int
      /\ Cardinality(atMost(c, c[k])) <= Cardinality(atMost(f, c[k]))
  <2>0. c[k] \in Int
    BY <1>1
  <2>1. /\ atMost(c, c[k]) = 1..Cardinality(atMost(c, c[k]))
        /\ Cardinality(atMost(c, c[k])) \in Int
    BY <2>0, AscendingCount, CountIsInteger
  <2>2. k \in 1..Cardinality(atMost(c, c[k]))
    BY <1>4, <2>1
  <2> QED
    BY <1>1, <2>1, <2>2 DEF NotBelow
<1>6. Cardinality(atMost(f, c[k])) <= Cardinality(atMost(f, y - 1))
  BY <1>1, <1>3, CountGrows
<1>7. Cardinality(atMost(f, c[k])) \in Int
  BY <1>1, CountIsInteger
<1>8. Cardinality(atMost(f, y - 1)) \in Int
  <2>1. y - 1 \in Int
    BY <1>1
  <2> QED
    BY <2>1, CountIsInteger
<1> QED
  BY <1>2, <1>5, <1>6, <1>7, <1>8

(* The places percentile interpolates between are places of the cache, and *)
(* its result grows with the fees there.                                   *)
LEMMA PercentileGrows ==
    ASSUME NEW n \in Nat \ {0}, NEW c \in [1..n -> Nat], NEW f \in [1..n -> Nat],
           \A k \in 1..n : f[k] <= c[k]
    PROVE  percentileOfSorted(f) <= percentileOfSorted(c)
<1> DEFINE p == TX_GAS_FEE_HISTORY_PERCENTILE
           h == p * (n - 1)
           q == h \div 100
           r == h % 100
<1>1. Len(f) = n /\ Len(c) = n
  OBVIOUS
<1>2. p \in 1..100
  BY GasFeeHistoryAssumption
<1>3. h \in Nat /\ h <= 100 * (n - 1)
  <2>1. (100 - p) * (n - 1) \in Nat
    BY <1>2
  <2>2. p * (n - 1) + (100 - p) * (n - 1) = 100 * (n - 1) /\ p * (n - 1) \in Nat
    BY <1>2
  <2> QED
    BY <2>1, <2>2
<1> HIDE DEF h
<1>4. q \in Nat /\ r \in 0..99 /\ h = 100 * q + r
  BY <1>3
<1> HIDE DEF q, r
<1>5. 1 + q \in 1..n /\ (r # 0 => 2 + q \in 1..n)
  BY <1>3, <1>4
<1>6. CASE r = 0
  BY <1>1, <1>5, <1>6 DEF percentileOfSorted, h, q, r
<1>7. CASE r # 0
  <2> DEFINE lo == f[1 + q] + f[2 + q]
             hi == c[1 + q] + c[2 + q]
  <2>1. lo \in Nat /\ hi \in Nat /\ lo <= hi
    BY <1>5, <1>7
  <2>2. percentileOfSorted(f) = lo \div 2 /\ percentileOfSorted(c) = hi \div 2
    BY <1>1, <1>7 DEF percentileOfSorted, h, q, r
  <2> HIDE DEF lo, hi
  <2>3. lo \div 2 <= hi \div 2
    BY <2>1
  <2> QED
    BY <2>2, <2>3
<1> QED
  BY <1>6, <1>7

(* Once it is filled, the cache is in order, and its fees are not below    *)
(* those that a cache which drops the oldest ones would hold.              *)
CacheInv ==
    gasFeeHistoryCache # <<>> =>
        Ascending(gasFeeHistoryCache) /\ NotBelow(gasFeeHistoryCache, fetched)

LEMMA CacheCalculate ==
    ASSUME HistoryInv, CacheInv, CalculateGasFeeData
    PROVE  CacheInv'
<1> DEFINE n == calculateMaxCacheSize
           c == gasFeeHistoryCache
           f == fetched
           b == blocksSinceLastUpdate
           new == fetchGasFeeHistory(b)
           kept == fetched'
<1>1. n \in Nat \ {0} /\ b \in 0..n /\ new \in [1..b -> Fees]
  BY UpdateSize
<1>2. /\ c \in {<<>>} \cup [1..n -> Fees] /\ f \in {<<>>} \cup [1..n -> Fees]
      /\ c = <<>> <=> f = <<>>
      /\ c = <<>> => b = n /\ ~(b < BLOCKS_PER_HOUR)
  BY UpdateSize DEF HistoryInv, HistoryTypeOK
<1>3. updatedCache \in [1..n -> Nat]
  BY UpdatedType, GasFeeHistoryAssumption
<1>4. kept \in [1..n -> Nat] /\ NotBelow(updatedCache, kept)
  <2> HIDE DEF new
  <2>1. CASE b < BLOCKS_PER_HOUR
    <3>1. updatedCache = c /\ kept = f /\ c # <<>>
      BY <1>2, <2>1 DEF updatedCache, CalculateGasFeeData
    <3> QED
      BY <1>2, <3>1, GasFeeHistoryAssumption DEF CacheInv
  <2>2. CASE ~(b < BLOCKS_PER_HOUR)
    <3>1. updatedCache = withNewFees(c, new) /\ kept = withNewFees(f, new)
      BY <2>2 DEF updatedCache, updateCacheWithNewFees, CalculateGasFeeData, new
    <3>2. withNewFees(f, new) \in [1..n -> Fees]
      BY <1>1, <1>2, WithNewFees
    <3>3. NotBelow(withNewFees(c, new), withNewFees(f, new))
      <4>1. CASE c = <<>>
        <5>1. new \in [1..n -> Nat]
          BY <1>1, <1>2, <4>1, GasFeeHistoryAssumption
        <5>2. \A x \in Int : Cardinality(atMost(new, x)) \in 0..n
          BY <1>1, <5>1, CountAtMost
        <5>3. withNewFees(c, new) = new
          BY <1>1, <1>2, <4>1, WithNewFees
        <5>4. f = c
          BY <1>2, <4>1
        <5> QED
          BY <5>2, <5>3, <5>4 DEF NotBelow
      <4>2. CASE c # <<>>
        BY <1>1, <1>2, <4>2, UpdateNotBelow DEF CacheInv
      <4> QED
        BY <4>1, <4>2
    <3> QED
      BY <3>1, <3>2, <3>3, GasFeeHistoryAssumption
  <2> QED
    BY <2>1, <2>2
<1>5. gasFeeHistoryCache' = Sorted(updatedCache)
  BY DEF CalculateGasFeeData
<1>6. Ascending(Sorted(updatedCache)) /\ NotBelow(Sorted(updatedCache), updatedCache)
  BY <1>1, <1>3, SortedProperties
<1>7. NotBelow(Sorted(updatedCache), kept)
  <2> SUFFICES ASSUME NEW x \in Int
               PROVE  Cardinality(atMost(Sorted(updatedCache), x)) <= Cardinality(atMost(kept, x))
    BY DEF NotBelow
  <2>1. Sorted(updatedCache) \in [1..n -> Nat]
    BY <1>1, <1>3, SortedType
  <2>2. /\ Cardinality(atMost(Sorted(updatedCache), x)) <= Cardinality(atMost(updatedCache, x))
        /\ Cardinality(atMost(updatedCache, x)) <= Cardinality(atMost(kept, x))
    BY <1>4, <1>6 DEF NotBelow
  <2>3. Cardinality(atMost(Sorted(updatedCache), x)) \in Int
    BY <1>1, <2>1, CountIsInteger
  <2>4. Cardinality(atMost(updatedCache, x)) \in Int
    BY <1>1, <1>3, CountIsInteger
  <2> HIDE DEF kept
  <2>5. Cardinality(atMost(kept, x)) \in Int
    BY <1>1, <1>4, CountIsInteger
  <2> QED
    BY <2>2, <2>3, <2>4, <2>5
<1> QED
  BY <1>5, <1>6, <1>7 DEF CacheInv

LEMMA CacheUnchanged ==
    CacheInv /\ UNCHANGED <<gasFeeHistoryCache, fetched>> => CacheInv'
BY DEF CacheInv, Ascending, NotBelow, atMost

LEMMA CacheNext == TypeInv /\ CacheInv /\ [Next]_vars => CacheInv'
<1> SUFFICES ASSUME TypeInv, CacheInv, [Next]_vars PROVE CacheInv'
  OBVIOUS
<1>1. CASE FeeAcceptable \/ HighGasFeeError
  <2>1. CalculateGasFeeData
    BY <1>1 DEF FeeAcceptable, HighGasFeeError
  <2> QED
    BY <2>1, CacheCalculate DEF TypeInv
<1>2. CASE BotStep /\ ~(FeeAcceptable \/ HighGasFeeError)
  <2>1. UNCHANGED historyVars
    BY <1>2
    DEF BotStep, Call, Populate, Emulate, EmulatedCallError, CalculateGasParameters,
        PrepareTransaction, GasLimitExceededError, ReadCurrentFee, DryRunEnds, SendTransaction,
        WaitForConfirmation
  <2> QED
    BY <2>1, CacheUnchanged DEF historyVars
<1>3. CASE Failure
  <2>1. UNCHANGED <<gasFeeHistoryCache, fetched>>
    BY <1>3
    DEF Failure, WaitingTimesOut, CallFails, AnswerLost, HandleExecutionError, historyVars
  <2> QED
    BY <2>1, CacheUnchanged
<1>4. CASE ChainStep
  BY <1>4, CacheUnchanged
  DEF ChainStep, BaseFeeMoves, NewBlock, Mine, ReportedElsewhere, NextBatch, historyVars
<1>5. CASE UNCHANGED vars
  BY <1>5, CacheUnchanged DEF vars, historyVars
<1> QED
  BY <1>1, <1>2, <1>3, <1>4, <1>5 DEF Next

(* However many updates have sorted the cache in place and dropped its     *)
(* lowest fees instead of its oldest, the fee the bot accepts is never     *)
(* below the percentile of the fees it fetched: for every size of the      *)
(* cache and of a request, every percentile, and every history of fees.    *)
THEOREM SortingNeverLowers == Spec => []NeverTooLow
<1>1. Init => CacheInv
  BY DEF Init, HistoryInit, CacheInv
<1>2. TypeInv /\ CacheInv => NeverTooLow
  <2> SUFFICES ASSUME TypeInv, CacheInv, gasFeeHistoryCache # <<>>
               PROVE  percentileOfSorted(gasFeeHistoryCache) >= percentileOfSorted(Sorted(fetched))
    BY DEF NeverTooLow, calculatePercentile
  <2> DEFINE n == calculateMaxCacheSize
  <2>1. /\ n \in Nat \ {0} /\ gasFeeHistoryCache \in [1..n -> Nat] /\ fetched \in [1..n -> Nat]
    BY CacheSize, GasFeeHistoryAssumption DEF TypeInv, HistoryInv, HistoryTypeOK
  <2>2. \A k \in 1..n : Sorted(fetched)[k] <= gasFeeHistoryCache[k]
    BY <2>1, NotBelowPointwise DEF CacheInv
  <2>3. Sorted(fetched) \in [1..n -> Nat]
    BY <2>1, SortedType
  <2> QED
    BY <2>1, <2>2, <2>3, PercentileGrows
<1> QED
  BY <1>1, <1>2, TypeInit, TypeNext, CacheNext, PTL DEF Spec

-----------------------------------------------------------------------------
(* What a call promises. *)

(* A call waits for the last transaction of the mempool until that one is  *)
(* mined; then, by the order of the nonces, nothing is left in the         *)
(* mempool, whatever the receipt says.                                     *)
OwnInv ==
    /\ pc # "wait" => own = 0
    /\ pc \notin {"idle", "wait"} => receipt = "none"
    /\ pc = "wait" /\ receipt = "none" =>
           own = Len(mempool) /\ own > 0 /\ mempool[own].batch = batch
    /\ pc = "wait" /\ receipt # "none" => own = 0 /\ mempool = <<>>

Sent == [batch : Nat, maxFeePerGas : Nat]

LEMMA OwnMine == TypeInv /\ OwnInv /\ Mine => OwnInv'
<1> SUFFICES ASSUME TypeInv, OwnInv, Mine PROVE OwnInv'
  OBVIOUS
<1>1. UNCHANGED <<pc, batch>>
  BY DEF Mine
<1>2. mempool \in Seq(Sent) /\ mempool # <<>>
  BY DEF TypeInv, TypeOK, Mine, Sent
<1>3. /\ mempool' \in Seq(Sent) /\ Len(mempool') = Len(mempool) - 1
      /\ \A i \in 1..Len(mempool') : mempool'[i] = mempool[i + 1]
      /\ Len(mempool) \in Nat /\ Head(mempool) = mempool[1]
  <2> HIDE DEF Sent
  <2> QED
    BY <1>2, HeadTailProperties, LenProperties DEF Mine
<1>4. CASE pc # "wait"
  BY <1>1, <1>4 DEF OwnInv, Mine, Receipt
<1>5. CASE pc = "wait"
  <2>1. receipt = "none" /\ own = Len(mempool) /\ own > 0 /\ mempool[own].batch = batch
    BY <1>2, <1>5 DEF OwnInv
  <2>2. CASE own = 1
    <3>1. mempool' = <<>>
      BY <1>3, <2>1, <2>2, EmptySeq
    <3>2. own' = 0 /\ receipt' # "none"
      BY <2>2 DEF Mine, Receipt
    <3> QED
      BY <1>1, <1>5, <3>1, <3>2 DEF OwnInv
  <2>3. CASE own # 1
    <3>1. own \in Nat /\ own' = own - 1 /\ receipt' = "none"
      BY <1>3, <2>1, <2>3 DEF Mine, Receipt
    <3>2. own' = Len(mempool') /\ own' > 0 /\ own' \in 1..Len(mempool')
      BY <1>3, <2>1, <2>3, <3>1
    <3>3. mempool'[own'] = mempool[own]
      <4>1. mempool'[own'] = mempool[own' + 1] /\ own' + 1 = own
        BY <1>3, <3>1, <3>2
      <4> QED
        BY <4>1
    <3> QED
      BY <1>1, <1>5, <2>1, <3>1, <3>2, <3>3 DEF OwnInv
  <2> QED
    BY <2>2, <2>3
<1> QED
  BY <1>4, <1>5

LEMMA OwnSend == TypeInv /\ OwnInv /\ SendTransaction => OwnInv'
<1> SUFFICES ASSUME TypeInv, OwnInv, SendTransaction PROVE OwnInv'
  OBVIOUS
<1>1. pc' = "wait" /\ receipt' = "none" /\ batch' = batch /\ own' = Len(mempool')
  BY DEF SendTransaction, OwnInv
<1>2. mempool \in Seq(Sent) /\ Transaction \in Sent
  BY DEF TypeInv, TypeOK, Sent, Transaction
<1>3. Len(mempool') = Len(mempool) + 1 /\ mempool'[Len(mempool) + 1] = Transaction
      /\ Len(mempool) \in Nat
  <2> HIDE DEF Sent
  <2> QED
    BY <1>2, AppendProperties, LenProperties DEF SendTransaction
<1>4. Transaction.batch = batch
  BY DEF Transaction
<1> QED
  BY <1>1, <1>3, <1>4 DEF OwnInv

LEMMA OwnNext == TypeInv /\ OwnInv /\ [Next]_vars => OwnInv'
<1> SUFFICES ASSUME TypeInv, OwnInv, [Next]_vars PROVE OwnInv'
  OBVIOUS
<1> USE DEF sentVars
<1>1. CASE BotStep /\ ~SendTransaction
  <2>1. CASE pc' = "idle"
    BY <1>1, <2>1
    DEF OwnInv, BotStep, Call, Populate, Emulate, EmulatedCallError, CalculateGasParameters,
        PrepareTransaction, GasLimitExceededError, DryRunEnds, ReadCurrentFee, FeeAcceptable,
        HighGasFeeError, WaitForConfirmation, Ends
  <2>2. CASE pc' # "idle"
    <3>1. Call \/ (pc \notin {"idle", "wait"} /\ pc' # "wait" /\ UNCHANGED <<own, receipt>>)
      BY <1>1, <2>2
      DEF BotStep, Populate, Emulate, EmulatedCallError, CalculateGasParameters,
          PrepareTransaction, EstimateGasLimit, GasLimitExceededError, DryRunEnds,
          ReadCurrentFee, FeeAcceptable, HighGasFeeError, WaitForConfirmation, Ends
    <3> QED
      BY <2>2, <3>1 DEF OwnInv, Call
  <2> QED
    BY <2>1, <2>2
<1>2. CASE Failure
  BY <1>2 DEF OwnInv, Failure, WaitingTimesOut, CallFails, AnswerLost, HandleExecutionError, Ends
<1>3. CASE ChainStep /\ ~Mine
  BY <1>3 DEF OwnInv, ChainStep, BaseFeeMoves, ReportedElsewhere, NextBatch
<1>4. CASE UNCHANGED vars
  BY <1>4 DEF OwnInv, vars
<1> QED
  BY <1>1, <1>2, <1>3, <1>4, OwnMine, OwnSend DEF Next, BotStep, ChainStep

(* The batches of the transactions: as many, in the same order. *)
LEMMA BatchesOfAppend ==
    ASSUME NEW m \in Seq(Sent), NEW t \in Sent
    PROVE  batchesOf(Append(m, t)) = Append(batchesOf(m), t.batch)
<1> DEFINE n == Len(m)
           bs == batchesOf(m)
           longer == Append(m, t)
<1>1. n \in Nat /\ m \in [1..n -> Sent] /\ DOMAIN m = 1..n
  BY LenProperties
<1>2. bs \in [1..n -> Nat]
  BY <1>1 DEF batchesOf, Sent
<1>3. bs \in Seq(Nat) /\ Len(bs) = n
  BY <1>1, <1>2, FunctionsAreSequences
<1>4. t.batch \in Nat
  BY DEF Sent
<1>5. /\ DOMAIN longer = 1..(n + 1) /\ longer[n + 1] = t
      /\ \A i \in 1..n : longer[i] = m[i]
  <2> HIDE DEF Sent
  <2>1. longer \in Seq(Sent) /\ Len(longer) = n + 1 /\ longer[n + 1] = t
        /\ \A i \in 1..n : longer[i] = m[i]
    BY <1>1, AppendProperties
  <2> QED
    BY <2>1, LenProperties
<1> HIDE DEF bs, longer
<1>6. /\ Append(bs, t.batch) \in [1..(n + 1) -> Nat] /\ Append(bs, t.batch)[n + 1] = t.batch
      /\ \A i \in 1..n : Append(bs, t.batch)[i] = bs[i]
  <2>1. /\ Append(bs, t.batch) \in Seq(Nat) /\ Len(Append(bs, t.batch)) = n + 1
        /\ Append(bs, t.batch)[n + 1] = t.batch
        /\ \A i \in 1..n : Append(bs, t.batch)[i] = bs[i]
    BY <1>3, <1>4, AppendProperties
  <2>2. n + 1 \in Nat
    BY <1>1
  <2> HIDE DEF n
  <2> QED
    BY <2>1, <2>2, FunctionsAreSequences
<1>7. \A i \in 1..(n + 1) : longer[i].batch = Append(bs, t.batch)[i]
  <2> SUFFICES ASSUME NEW i \in 1..(n + 1) PROVE longer[i].batch = Append(bs, t.batch)[i]
    OBVIOUS
  <2>1. CASE i = n + 1
    BY <1>5, <1>6, <2>1
  <2>2. CASE i # n + 1
    <3>1. i \in 1..n
      BY <1>1, <2>2
    <3>2. bs[i] = m[i].batch
      BY <1>1, <3>1 DEF bs, batchesOf
    <3> QED
      BY <1>5, <1>6, <3>1, <3>2
  <2> QED
    BY <2>1, <2>2
<1>8. batchesOf(longer) = [i \in 1..(n + 1) |-> longer[i].batch]
  BY <1>5 DEF batchesOf
<1>9. Append(bs, t.batch) = [i \in 1..(n + 1) |-> Append(bs, t.batch)[i]]
  BY <1>6
<1> QED
  BY <1>7, <1>8, <1>9 DEF bs, longer

LEMMA BatchesOfTail ==
    ASSUME NEW m \in Seq(Sent), m # <<>>
    PROVE  /\ batchesOf(m) # <<>>
           /\ Head(batchesOf(m)) = Head(m).batch
           /\ batchesOf(Tail(m)) = Tail(batchesOf(m))
<1> DEFINE n == Len(m)
           bs == batchesOf(m)
<1>1. n \in Nat /\ n # 0 /\ m \in [1..n -> Sent] /\ DOMAIN m = 1..n
  BY LenProperties, EmptySeq
<1>2. bs \in [1..n -> Nat] /\ \A i \in 1..n : bs[i] = m[i].batch
  BY <1>1 DEF batchesOf, Sent
<1>3. bs \in Seq(Nat) /\ Len(bs) = n
  BY <1>1, <1>2, FunctionsAreSequences
<1>4. bs # <<>>
  BY <1>1, <1>3
<1>5. /\ DOMAIN Tail(m) = 1..(n - 1) /\ Head(m) = m[1]
      /\ \A i \in 1..(n - 1) : Tail(m)[i] = m[i + 1]
  <2> HIDE DEF Sent
  <2>1. Tail(m) \in Seq(Sent) /\ Len(Tail(m)) = n - 1 /\ Head(m) = m[1]
        /\ \A i \in 1..(n - 1) : Tail(m)[i] = m[i + 1]
    BY <1>1, HeadTailProperties
  <2> QED
    BY <2>1, LenProperties
<1> HIDE DEF bs
<1>6. /\ Tail(bs) \in [1..(n - 1) -> Nat] /\ Head(bs) = bs[1]
      /\ \A i \in 1..(n - 1) : Tail(bs)[i] = bs[i + 1]
  <2>1. Tail(bs) \in Seq(Nat) /\ Len(Tail(bs)) = n - 1 /\ Head(bs) = bs[1]
        /\ \A i \in 1..(n - 1) : Tail(bs)[i] = bs[i + 1]
    BY <1>3, <1>4, HeadTailProperties
  <2>2. n - 1 \in Nat
    BY <1>1
  <2> QED
    BY <2>1, <2>2, FunctionsAreSequences
<1>7. \A i \in 1..(n - 1) : Tail(m)[i].batch = Tail(bs)[i]
  <2> SUFFICES ASSUME NEW i \in 1..(n - 1) PROVE Tail(m)[i].batch = Tail(bs)[i]
    OBVIOUS
  <2>1. i + 1 \in 1..n
    BY <1>1
  <2> QED
    BY <1>2, <1>5, <1>6, <2>1
<1>8. batchesOf(Tail(m)) = [i \in 1..(n - 1) |-> Tail(m)[i].batch]
  BY <1>5 DEF batchesOf
<1>9. Tail(bs) = [i \in 1..(n - 1) |-> Tail(bs)[i]]
  BY <1>6
<1>10. Head(bs) = Head(m).batch
  BY <1>1, <1>2, <1>5, <1>6
<1> QED
  BY <1>4, <1>7, <1>8, <1>9, <1>10 DEF bs

(* What happens outside a call, to the call in hand or to its transaction. *)
LEMMA PromiseStill ==
    ASSUME UNCHANGED <<dryRun, batch, penalty, mempool, sent, receipt>>,
           \/ UNCHANGED <<pc, outcome>>
           \/ pc # "idle" /\ pc' # "idle" /\ UNCHANGED outcome
    PROVE  UNCHANGED Promise!submissionVars
BY DEF Promise!submissionVars, onRecord, inFlight, batchesOf, call, answer, Batches

LEMMA PromiseInit == Init => Promise!Init
<1> SUFFICES ASSUME Init PROVE Promise!Init
  OBVIOUS
<1>1. onRecord = {}
  BY DEF Init, onRecord, Batches
<1>2. inFlight = <<>>
  BY DEF Init, inFlight, batchesOf
<1>3. call = NoBatch /\ answer = "none" /\ sent = 0 /\ receipt = "none" /\ dryRun \in {"yes", "no"}
  BY DEF Init, call, answer
<1> QED
  BY <1>1, <1>2, <1>3 DEF Promise!Init

(* What is on record, as batches. *)
LEMMA OnRecord ==
    ASSUME TypeInv
    PROVE  /\ batch \in Batches /\ batch # NoBatch
           /\ batch \in onRecord <=> penalty = "recorded"
           /\ \A b \in Batches : b < batch => b \in onRecord
<1>1. batch \in 1..MaxBatches
  BY DEF TypeInv, TypeOK
<1> QED
  BY <1>1, ExecutionAssumption DEF Batches, NoBatch, onRecord

(* The transaction a call waits for is the newest, so it is the oldest if  *)
(* there is but one.                                                       *)
LEMMA OwnIsOldest ==
    ASSUME TypeInv, CallInv, OwnInv, mempool # <<>>
    PROVE  own = 1 <=> Promise!OwnIsOldest
<1>1. Len(inFlight) = Len(mempool)
  <2>1. mempool \in Seq(Sent)
    BY DEF TypeInv, Sent
  <2>2. Len(mempool) \in Nat /\ DOMAIN mempool = 1..Len(mempool)
    <3> HIDE DEF Sent
    <3> QED
      BY <2>1, LenProperties
  <2>3. batchesOf(mempool) = [i \in 1..Len(mempool) |-> mempool[i].batch]
    BY <2>2 DEF batchesOf
  <2> QED
    BY <2>2, <2>3 DEF inFlight
<1>2. CASE pc = "wait"
  <2>1. receipt = "none" /\ own = Len(mempool)
    BY <1>2 DEF OwnInv
  <2>2. call # NoBatch /\ sent = 1
    BY <1>2, OnRecord DEF CallInv, call
  <2> QED
    BY <1>1, <2>1, <2>2 DEF Promise!OwnIsOldest
<1>3. CASE pc # "wait"
  <2>1. own = 0
    BY <1>3 DEF OwnInv
  <2>2. call = NoBatch \/ sent = 0
    BY <1>3 DEF CallInv, call
  <2> QED
    BY <2>1, <2>2 DEF Promise!OwnIsOldest
<1> QED
  BY <1>2, <1>3

LEMMA PromiseMine == TypeInv /\ CallInv /\ OwnInv /\ Mine => Promise!Mine
<1> SUFFICES ASSUME TypeInv, CallInv, OwnInv, Mine PROVE Promise!Mine
  OBVIOUS
<1>1. mempool \in Seq(Sent) /\ mempool # <<>> /\ mempool' = Tail(mempool)
  BY DEF TypeInv, Mine, Sent
<1>2. /\ inFlight # <<>> /\ inFlight' = Tail(inFlight)
      /\ Head(inFlight) = Head(mempool).batch
  <2>1. inFlight' = batchesOf(mempool')
    BY DEF inFlight
  <2> QED
    BY <1>1, <2>1, BatchesOfTail DEF inFlight
<1>3. Head(mempool).batch \in 1..batch
  <2>1. Len(mempool) \in Nat /\ Len(mempool) # 0 /\ Head(mempool) = mempool[1]
        /\ DOMAIN mempool = 1..Len(mempool)
    <3> HIDE DEF Sent
    <3> QED
      BY <1>1, HeadTailProperties, LenProperties, EmptySeq
  <2>2. 1 \in DOMAIN mempool
    BY <2>1
  <2> QED
    BY <2>1, <2>2 DEF TypeInv, TypeOK
<1> DEFINE h == Head(mempool).batch
           due == h = batch /\ penalty = "due"
<1>4. \E status \in {"success", "reverted"} :
          /\ Receipt(status)
          /\ status = "success" => due /\ penalty' = "recorded"
          /\ status = "reverted" => penalty' = penalty
  BY DEF Mine
<1>5. UNCHANGED <<dryRun, batch, call, sent, answer>>
  BY DEF Mine, call, answer
<1>6. ASSUME due, penalty' = "recorded" PROVE onRecord' = onRecord \cup {Head(inFlight)}
  <2>1. onRecord = {b \in Batches : b < batch}
    BY <1>6 DEF onRecord
  <2>2. onRecord' = {b \in Batches : b < batch \/ b = batch}
    BY <1>5, <1>6 DEF onRecord, Batches
  <2>3. batch \in Batches /\ Head(inFlight) = batch
    BY <1>2, <1>6, OnRecord
  <2> QED
    BY <2>1, <2>2, <2>3
<1>7. penalty' = penalty => onRecord' = onRecord
  BY <1>5 DEF onRecord, Batches
<1>8. \E status \in {"success", "reverted"} :
          /\ onRecord' = IF status = "success" THEN onRecord \cup {Head(inFlight)} ELSE onRecord
          /\ receipt' = IF Promise!OwnIsOldest THEN status ELSE receipt
  <2>1. PICK status \in {"success", "reverted"} :
            /\ Receipt(status)
            /\ status = "success" => due /\ penalty' = "recorded"
            /\ status = "reverted" => penalty' = penalty
    BY <1>4
  <2>2. receipt' = IF Promise!OwnIsOldest THEN status ELSE receipt
    BY <1>1, <2>1, OwnIsOldest DEF Receipt
  <2> HIDE DEF due
  <2> QED
    BY <1>6, <1>7, <2>1, <2>2
<1> QED
  BY <1>2, <1>5, <1>8 DEF Promise!Mine

LEMMA PromiseChainStep ==
    TypeInv /\ CallInv /\ OwnInv /\ ChainStep => [Promise!Next]_(Promise!submissionVars)
<1> SUFFICES ASSUME TypeInv, CallInv, OwnInv, ChainStep
             PROVE  [Promise!Next]_(Promise!submissionVars)
  OBVIOUS
<1>1. CASE BaseFeeMoves
  BY <1>1, PromiseStill DEF BaseFeeMoves, sentVars
<1>2. CASE Mine
  BY <1>2, PromiseMine DEF Promise!Next
<1>3. CASE ReportedElsewhere
  <2>1. /\ UNCHANGED <<dryRun, batch, mempool, sent, receipt, pc, outcome>>
        /\ penalty' = "recorded"
    BY <1>3 DEF ReportedElsewhere, sentVars
  <2>2. UNCHANGED <<dryRun, inFlight, call, sent, receipt, answer>>
    BY <2>1 DEF inFlight, batchesOf, call, answer
  <2>3. onRecord' = onRecord \cup {batch}
    BY <2>1, OnRecord DEF onRecord, Batches
  <2> QED
    BY <2>2, <2>3, OnRecord DEF Promise!Next, Promise!ReportedElsewhere
<1>4. CASE NextBatch
  <2>1. UNCHANGED <<dryRun, mempool, sent, receipt, pc, outcome>> /\ pc = "idle"
    BY <1>4 DEF NextBatch, sentVars
  <2>2. UNCHANGED <<dryRun, inFlight, call, sent, receipt, answer>>
    BY <2>1 DEF inFlight, batchesOf, call, answer
  <2>3. onRecord' = onRecord
    <3>1. batch \in Nat /\ batch' = batch + 1 /\ penalty = "recorded" /\ penalty' # "recorded"
      BY <1>4 DEF NextBatch, TypeInv, TypeOK
    <3>2. \A b \in Batches : b < batch + 1 <=> (b < batch \/ b = batch)
      BY <3>1 DEF Batches
    <3> QED
      BY <3>1, <3>2 DEF onRecord, Batches
  <2> QED
    BY <2>2, <2>3 DEF Promise!submissionVars
<1> QED
  BY <1>1, <1>2, <1>3, <1>4 DEF ChainStep

(* A transaction that is sent is the latest report under way. *)
LEMMA PromiseSends ==
    ASSUME TypeInv, CallInv, UNCHANGED <<dryRun, batch, penalty, receipt>>, pc = "send",
           mempool' = Append(mempool, Transaction), sent' = sent + 1
    PROVE  Promise!SendsReport
<1>1. mempool \in Seq(Sent) /\ Transaction \in Sent /\ Transaction.batch = batch
  BY DEF TypeInv, TypeOK, Sent, Transaction
<1>2. inFlight' = Append(inFlight, batch)
  <2>1. inFlight' = batchesOf(mempool')
    BY DEF inFlight
  <2> QED
    BY <1>1, <2>1, BatchesOfAppend DEF inFlight
<1>3. call = batch /\ call # NoBatch
  BY OnRecord DEF call
<1>4. dryRun = "no" /\ sent = 0
  BY DEF CallInv
<1>5. onRecord' = onRecord
  BY DEF onRecord, Batches
<1> QED
  BY <1>2, <1>3, <1>4, <1>5 DEF Promise!SendsReport

(* A call that fails without sending anything now. *)
LEMMA PromiseFails ==
    ASSUME TypeInv, UNCHANGED <<dryRun, batch, penalty, mempool, sent, receipt>>, pc # "idle",
           Ends("threw") \/ Ends("gasLimitExceeded")
    PROVE  Promise!Fail
<1>1. call # NoBatch /\ call' = NoBatch /\ answer' = "failed"
  BY OnRecord DEF Ends, call, answer
<1>2. UNCHANGED <<onRecord, inFlight>>
  BY DEF onRecord, inFlight, batchesOf, Batches
<1> QED
  BY <1>1, <1>2 DEF Promise!Fail

(* A call that returns: it was a dry run, or its transaction is mined, and *)
(* with it all that were sent before.                                      *)
LEMMA PromiseCompletes ==
    ASSUME TypeInv, CallInv, OwnInv, DryRunEnds \/ WaitForConfirmation
    PROVE  Promise!Complete
<1>1. /\ UNCHANGED <<dryRun, batch, penalty, mempool, sent, receipt>>
      /\ pc # "idle" /\ Ends("returned")
  BY DEF DryRunEnds, WaitForConfirmation
<1>2. call = batch /\ call # NoBatch /\ call' = NoBatch /\ answer' = "completed"
  BY <1>1, OnRecord DEF Ends, call, answer
<1>3. UNCHANGED <<onRecord, inFlight>>
  BY <1>1 DEF onRecord, inFlight, batchesOf, Batches
<1>4. IF dryRun = "yes" THEN sent = 0 ELSE sent = 1 /\ receipt # "none" /\ inFlight = <<>>
  <2>1. CASE DryRunEnds
    BY <2>1 DEF DryRunEnds, CallInv
  <2>2. CASE WaitForConfirmation
    <3>1. pc = "wait" /\ receipt # "none"
      BY <2>2 DEF WaitForConfirmation
    <3>2. mempool = <<>> /\ sent = 1 /\ dryRun = "no"
      BY <3>1 DEF OwnInv, CallInv
    <3>3. inFlight = <<>>
      BY <3>2 DEF inFlight, batchesOf
    <3> QED
      BY <3>1, <3>2, <3>3
  <2> QED
    BY <2>1, <2>2
<1> QED
  BY <1>1, <1>2, <1>3, <1>4 DEF Promise!Complete

LEMMA PromiseBotStep ==
    TypeInv /\ CallInv /\ OwnInv /\ BotStep => [Promise!Next]_(Promise!submissionVars)
<1> SUFFICES ASSUME TypeInv, CallInv, OwnInv, BotStep
             PROVE  [Promise!Next]_(Promise!submissionVars)
  OBVIOUS
<1>1. CASE Call
  <2>1. /\ pc = "idle" /\ pc' = "populate" /\ outcome' = "none" /\ sent' = 0 /\ receipt' = "none"
        /\ penalty = "due"
        /\ UNCHANGED <<dryRun, batch, penalty, mempool>>
    BY <1>1 DEF Call
  <2>2. call = NoBatch /\ call' = batch /\ answer' = "none"
    BY <2>1 DEF call, answer
  <2>3. UNCHANGED <<onRecord, inFlight>>
    BY <2>1 DEF onRecord, inFlight, batchesOf, Batches
  <2>4. batch \in Batches /\ batch \notin onRecord
    BY <2>1, OnRecord
  <2> QED
    BY <2>1, <2>2, <2>3, <2>4 DEF Promise!Next, Promise!Call
<1>2. CASE \/ Populate \/ Emulate \/ CalculateGasParameters \/ PrepareTransaction
           \/ ReadCurrentFee \/ FeeAcceptable \/ HighGasFeeError
  BY <1>2, PromiseStill
  DEF Populate, Emulate, CalculateGasParameters, PrepareTransaction, EstimateGasLimit,
      ReadCurrentFee, FeeAcceptable, HighGasFeeError, sentVars
<1>3. CASE EmulatedCallError \/ GasLimitExceededError
  <2>1. Promise!Fail
    BY <1>3, PromiseFails DEF EmulatedCallError, GasLimitExceededError, EstimateGasLimit
  <2> QED
    BY <2>1 DEF Promise!Next
<1>4. CASE DryRunEnds \/ WaitForConfirmation
  BY <1>4, PromiseCompletes DEF Promise!Next
<1>5. CASE SendTransaction
  <2>1. Promise!SendsReport
    BY <1>5, PromiseSends DEF SendTransaction
  <2>2. UNCHANGED <<call, answer>>
    BY <1>5 DEF SendTransaction, call, answer
  <2> QED
    BY <2>1, <2>2 DEF Promise!Next, Promise!Send
<1> QED
  BY <1>1, <1>2, <1>3, <1>4, <1>5 DEF BotStep

LEMMA PromiseFailure == TypeInv /\ CallInv /\ Failure => Promise!Next
<1> SUFFICES ASSUME TypeInv, CallInv, Failure PROVE Promise!Next
  OBVIOUS
<1>1. CASE WaitingTimesOut \/ CallFails
  <2>1. Promise!Fail
    BY <1>1, PromiseFails DEF WaitingTimesOut, CallFails, HandleExecutionError
  <2> QED
    BY <2>1 DEF Promise!Next
<1>2. CASE AnswerLost
  <2>1. Promise!SendsReport
    BY <1>2, PromiseSends DEF AnswerLost, HandleExecutionError
  <2>2. call' = NoBatch /\ answer' = "failed"
    BY <1>2 DEF AnswerLost, HandleExecutionError, Ends, call, answer
  <2> QED
    BY <2>1, <2>2 DEF Promise!Next, Promise!SendAndFail
<1> QED
  BY <1>1, <1>2 DEF Failure

(* The loop of execute, with its retries, timeouts and lost answers, keeps *)
(* its promise to the prover: a call that returns has sent one transaction *)
(* which is mined, with its batch on record if it succeeded, and leaves    *)
(* nothing under way of what earlier calls gave up.                        *)
THEOREM SubmissionKept == Spec => KeepsSubmissionPromise
<1> DEFINE Inv == TypeInv /\ CallInv /\ OwnInv
<1>1. Init => Inv
  BY TypeInit, CallInit DEF Init, OwnInv
<1>2. Inv /\ [Next]_vars => Inv'
  BY TypeNext, CallNext, OwnNext
<1>3. Inv /\ [Next]_vars => [Promise!Next]_(Promise!submissionVars)
  <2>1. UNCHANGED vars => UNCHANGED Promise!submissionVars
    BY PromiseStill DEF vars, sentVars
  <2> QED
    BY <2>1, PromiseChainStep, PromiseBotStep, PromiseFailure DEF Next
<1> QED
  BY <1>1, <1>2, <1>3, PromiseInit, PTL DEF Spec, KeepsSubmissionPromise, Promise!Spec

=============================================================================
