------------------------------ MODULE Chain_proofs ----------------------------
(***************************************************************************)
(* Lemmas about the chains: the types of what is computed from a request,  *)
(* and what a step of the chains leaves as it is.                          *)
(***************************************************************************)
EXTENDS Chain, SlotMath_proofs

-----------------------------------------------------------------------------
(* Types and bounds of the operators. *)

(* Slots are whole numbers, for a timestamp before the genesis too. *)
LEMMA DivisionIsInt ==
    ASSUME NEW x \in Int
    PROVE  x \div SECONDS_PER_SLOT \in Int
BY SlotMathAssumption

(* The epoch of a slot is an integer. *)
LEMMA EpochOfSlotIsInt ==
    ASSUME NEW s \in Int
    PROVE  slotToEpoch(s) \in Int
BY SlotMathAssumption DEF slotToEpoch

(* The timestamp of a slot is an integer. *)
LEMMA TimestampIsInt ==
    ASSUME NEW s \in Int
    PROVE  slotToTimestamp(s) \in Int
BY SlotMathAssumption DEF slotToTimestamp

(* So is the moment from which a validator is expected to exit. *)
LEMMA EligibleTimestampIsInt ==
    ASSUME NEW t \in Int, NEW v \in Validators
    PROVE  getEligibleExitRequestTimestamp(t, ActivationEpoch[v]) \in Int
<1>1. ActivationEpoch[v] \in Nat
  BY ChainAssumption
<1>2. ActivationEpoch[v] * SLOTS_PER_EPOCH \in Nat
  BY <1>1, SlotMathAssumption
<1>3. ActivationEpoch[v] * SLOTS_PER_EPOCH * SECONDS_PER_SLOT \in Nat
  BY <1>2, SlotMathAssumption
<1> QED
  BY <1>3, SlotMathAssumption DEF getEligibleExitRequestTimestamp

(* And the slot in which it must have exited. *)
LEMMA DeadlineIsInt ==
    ASSUME NEW b \in Int, NEW v \in Validators
    PROVE  DeadlineIfDelivered(b, v) \in Int
<1>1. slotToTimestamp(b) \in Int
  BY TimestampIsInt
<1>2. getEligibleExitRequestTimestamp(slotToTimestamp(b), ActivationEpoch[v]) \in Int
  BY <1>1, EligibleTimestampIsInt
<1>3. ExitDeadlineThreshold[v] \in Nat
  BY ChainAssumption
<1> QED
  BY <1>2, <1>3, ProofSlotPastDeadline DEF DeadlineIfDelivered

(* The entries of a request's data are entries. *)
LEMMA DecodedType ==
    ASSUME NEW r \in Requests
    PROVE  decodeValidatorsData(r) \subseteq Entry
<1>1. ExitData[r] \in Seq(Validators)
  BY ChainAssumption
<1>2. \A i \in DOMAIN ExitData[r] : i \in Nat /\ ExitData[r][i] \in Validators
  BY <1>1
<1> QED
  BY <1>2 DEF decodeValidatorsData, Entry

(* The pubkeys of entries are validators. *)
LEMMA PubkeysType ==
    ASSUME NEW entries \in SUBSET Entry
    PROVE  pubkeys(entries) \subseteq Validators
BY DEF pubkeys, Entry

(* The deadline slots of a request are integers. *)
LEMMA DeadlinesType ==
    ASSUME NEW b \in Int, NEW r \in Requests
    PROVE  Deadlines(b, r) \subseteq Int
<1>1. \A e \in decodeValidatorsData(r) : e.pubkey \in Validators
  BY DecodedType DEF Entry
<1> QED
  BY <1>1, DeadlineIsInt DEF Deadlines

(* The earlier a request is delivered, the earlier a validator is eligible *)
(* to exit.                                                                *)
LEMMA EligibleMonotone ==
    ASSUME NEW t1 \in Int, NEW t2 \in Int, t1 <= t2, NEW v \in Validators
    PROVE  getEligibleExitRequestTimestamp(slotToTimestamp(t1), ActivationEpoch[v])
             <= getEligibleExitRequestTimestamp(slotToTimestamp(t2), ActivationEpoch[v])
<1>1. slotToTimestamp(t1) <= slotToTimestamp(t2)
  BY SlotMathAssumption DEF slotToTimestamp
<1>2. slotToTimestamp(t1) \in Int /\ slotToTimestamp(t2) \in Int
  BY TimestampIsInt
<1> DEFINE P == GENESIS_TIME + ActivationEpoch[v] * SLOTS_PER_EPOCH * SECONDS_PER_SLOT
                  + SHARD_COMMITTEE_PERIOD_IN_SECONDS
<1>3. P \in Int
  BY ChainAssumption, SlotMathAssumption
<1> HIDE DEF P
<1> QED
  BY <1>1, <1>2, <1>3 DEF getEligibleExitRequestTimestamp, P

(* Measured against a request as old as its own, a validator is past the   *)
(* moment of eligibility by its threshold at least, in the slot after its  *)
(* deadline.                                                               *)
LEMMA PastThreshold ==
    ASSUME ChainTypeOK, NEW p \in Requests, NEW r \in Requests, NEW v \in Validators,
           deliveredAt[p] <= deliveredAt[r],
           NEW s, s = ExitDeadlineSlot(r, v)
    PROVE  LET eligibleFrom == getEligibleExitRequestTimestamp(
                                    slotToTimestamp(deliveredAt[p]), ActivationEpoch[v])
           IN  /\ eligibleFrom \in Int
               /\ slotToTimestamp(s + 1) \in Int
               /\ slotToTimestamp(s + 1) - eligibleFrom >= ExitDeadlineThreshold[v]
<1> DEFINE E == getEligibleExitRequestTimestamp(slotToTimestamp(deliveredAt[p]),
                                                ActivationEpoch[v])
           F == getEligibleExitRequestTimestamp(slotToTimestamp(deliveredAt[r]),
                                                ActivationEpoch[v])
           T == ExitDeadlineThreshold[v]
           N == slotToTimestamp(s + 1)
<1>1. deliveredAt[p] \in Int /\ deliveredAt[r] \in Int
  BY DEF ChainTypeOK
<1>2. E \in Int /\ F \in Int
  BY <1>1, TimestampIsInt, EligibleTimestampIsInt
<1>3. T \in Nat
  BY ChainAssumption
<1>4. s = calculateSlotFromExitDeadline(F + T)
  BY DEF ExitDeadlineSlot, DeadlineIfDelivered
<1>5. F + T < N /\ N \in Int
  <2>1. F + T \in Int
    BY <1>2, <1>3
  <2>2. s \in Int /\ F + T < N
    BY <1>4, <2>1, ProofSlotPastDeadline
  <2> QED
    BY <2>2, TimestampIsInt
<1>6. E <= F
  BY <1>1, EligibleMonotone
<1>7. N - E >= T
  <2> HIDE DEF E, F, T, N
  <2> QED
    BY <1>2, <1>3, <1>5, <1>6
<1> QED
  BY <1>2, <1>5, <1>7

-----------------------------------------------------------------------------
(* What a step of the chains leaves as it is. *)

(* Every step of them keeps their types. *)
LEMMA ChainTypesStay ==
    ASSUME ChainTypeOK, ChainNext
    PROVE  ChainTypeOK'
<1> USE DEF ChainTypeOK
<1>1. ASSUME NEW R \in SUBSET Requests, NewBlock(R) PROVE ChainTypeOK'
  BY <1>1 DEF NewBlock
<1>2. ASSUME NEW s \in finalized..head, Finalize(s) PROVE ChainTypeOK'
  BY <1>2 DEF Finalize
<1>3. ASSUME NEW v \in Validators, InitiateExit(v) PROVE ChainTypeOK'
  BY <1>3 DEF InitiateExit
<1>4. ASSUME NEW tx \in mempool, MineLate(tx) PROVE ChainTypeOK'
  BY <1>4 DEF MineLate
<1> QED
  BY <1>1, <1>2, <1>3, <1>4 DEF ChainNext

(* A request is delivered once. *)
LEMMA DeliveredStable ==
    ASSUME ChainNext, NEW r \in Requests, deliveredAt[r] > 0
    PROVE  deliveredAt'[r] = deliveredAt[r]
<1>1. ASSUME NEW R \in SUBSET Requests, NewBlock(R) PROVE deliveredAt'[r] = deliveredAt[r]
  BY <1>1 DEF NewBlock
<1> QED
  BY <1>1 DEF ChainNext, Finalize, InitiateExit, MineLate

(* A request is delivered in a new block, so in none that was scanned. *)
LEMMA NewlyDelivered ==
    ASSUME ChainTypeOK, ChainNext, NEW r \in Requests, deliveredAt'[r] # deliveredAt[r]
    PROVE  deliveredAt'[r] = head + 1
<1>1. ASSUME NEW R \in SUBSET Requests, NewBlock(R) PROVE deliveredAt'[r] = head + 1
  BY <1>1 DEF NewBlock
<1> QED
  BY <1>1 DEF ChainNext, Finalize, InitiateExit, MineLate

(* The chain grows. *)
LEMMA HeadGrows ==
    ASSUME ChainTypeOK, ChainNext
    PROVE  head <= head' /\ head' \in Nat
BY DEF ChainNext, NewBlock, Finalize, InitiateExit, MineLate, ChainTypeOK

(* Who was out in time stays so. *)
LEMMA TimelyStable ==
    ASSUME ChainTypeOK, ChainNext, NEW v \in Validators, NEW s, TimelyExit(v, s)
    PROVE  TimelyExit(v, s)'
<1>1. exitAt'[v] = exitAt[v]
  <2>1. ASSUME NEW w \in Validators, InitiateExit(w) PROVE exitAt'[v] = exitAt[v]
    BY <2>1 DEF InitiateExit, TimelyExit, ExitEpochBelow, ExitEpochSet, ChainTypeOK
  <2> QED
    BY <2>1 DEF ChainNext, NewBlock, Finalize, MineLate
<1> QED
  BY <1>1 DEF TimelyExit, ExitEpochBelow, ExitEpochSet

(* A penalty on record stays on record. *)
LEMMA SettledGrows == ASSUME ChainNext PROVE settled \subseteq settled'
BY DEF ChainNext, NewBlock, Finalize, InitiateExit, MineLate

(* A validator that was not out in time for a finalized deadline never     *)
(* will be: exits that are initiated now show in a later slot.             *)
LEMMA VerdictStable ==
    ASSUME ChainTypeOK, finalized < head, ChainNext \/ UNCHANGED <<exitAt>>,
           NEW v \in Validators, NEW s \in Int, s <= finalized, ~TimelyExit(v, s)
    PROVE  ~TimelyExit(v, s)'
<1>1. exitAt'[v] = exitAt[v] \/ exitAt'[v] = head + 1
  <2>1. ASSUME NEW w \in Validators, InitiateExit(w)
        PROVE  exitAt'[v] = exitAt[v] \/ exitAt'[v] = head + 1
    BY <2>1 DEF InitiateExit, ChainTypeOK
  <2> QED
    BY <2>1 DEF ChainNext, NewBlock, Finalize, MineLate
<1>2. head \in Int /\ finalized \in Int
  BY DEF ChainTypeOK
<1> QED
  BY <1>1, <1>2 DEF TimelyExit, ExitEpochBelow, ExitEpochSet

(* Finality advances and stays behind the head. *)
LEMMA ClockTick ==
    ASSUME ChainTypeOK, finalized < head, ChainNext
    PROVE  finalized <= finalized' /\ finalized' < head' /\ finalized' \in Nat
<1>1. head \in Int /\ finalized \in Nat
  BY DEF ChainTypeOK
<1>2. ASSUME NEW R \in SUBSET Requests, NewBlock(R)
      PROVE  finalized <= finalized' /\ finalized' < head' /\ finalized' \in Nat
  BY <1>1, <1>2 DEF NewBlock
<1>3. ASSUME NEW s \in finalized..head, Finalize(s)
      PROVE  finalized <= finalized' /\ finalized' < head' /\ finalized' \in Nat
  BY <1>1, <1>3, ChainAssumption DEF Finalize
<1> QED
  BY <1>1, <1>2, <1>3 DEF ChainNext, InitiateExit, MineLate

=============================================================================
