---------------------------- MODULE SlotMath_proofs ---------------------------
(***************************************************************************)
(* What the slot arithmetic guarantees for every beacon chain              *)
(* configuration.                                                          *)
(***************************************************************************)
EXTENDS SlotMath, TLAPS

(* Division rounds down: the quotient is the last multiple not above x. *)
LEMMA DivBounds ==
    ASSUME NEW x \in Int, NEW n \in Nat \ {0}
    PROVE  /\ x \div n \in Int
           /\ (x \div n) * n <= x
           /\ x < (x \div n) * n + n
BY SMT

(* Integer division is monotone. *)
LEMMA DivMonotone ==
    ASSUME NEW x \in Int, NEW y \in Int, NEW n \in Nat \ {0}, x <= y
    PROVE  x \div n <= y \div n
BY SMT

(* processEligibleValidators proves the slot after the deadline slot: its  *)
(* timestamp is past the deadline, by one slot at most.  So the check      *)
(* "not eligible yet" never stops a validator that is measured against its *)
(* own exit request.                                                       *)
THEOREM ProofSlotPastDeadline ==
    ASSUME NEW deadline \in Int
    PROVE  LET s == calculateSlotFromExitDeadline(deadline)
           IN  /\ s \in Int
               /\ deadline < slotToTimestamp(s + 1)
               /\ slotToTimestamp(s + 1) <= deadline + SECONDS_PER_SLOT
<1> DEFINE s == calculateSlotFromExitDeadline(deadline)
<1>1. /\ SECONDS_PER_SLOT \in Nat \ {0}
      /\ GENESIS_TIME \in Nat
  BY SlotMathAssumption
<1>2. /\ s \in Int
      /\ s * SECONDS_PER_SLOT <= deadline - GENESIS_TIME
      /\ deadline - GENESIS_TIME < s * SECONDS_PER_SLOT + SECONDS_PER_SLOT
  <2>1. deadline - GENESIS_TIME \in Int
    BY <1>1
  <2> QED
    BY <1>1, <2>1, DivBounds DEF calculateSlotFromExitDeadline
<1>3. slotToTimestamp(s + 1) = GENESIS_TIME + s * SECONDS_PER_SLOT + SECONDS_PER_SLOT
  <2> HIDE DEF s
  <2>1. (s + 1) * SECONDS_PER_SLOT = s * SECONDS_PER_SLOT + SECONDS_PER_SLOT
    BY <1>1, <1>2
  <2> QED
    BY <1>1, <1>2, <2>1 DEF slotToTimestamp
<1>4. s * SECONDS_PER_SLOT \in Int
  <2> HIDE DEF s
  <2> QED BY <1>1, <1>2
<1> QED
  <2> HIDE DEF s
  <2>1. /\ deadline < slotToTimestamp(s + 1)
        /\ slotToTimestamp(s + 1) <= deadline + SECONDS_PER_SLOT
    BY <1>1, <1>2, <1>3, <1>4
  <2> QED BY <1>2, <2>1 DEF s

(* The state a historical proof opens is the first one whose summary       *)
(* covers the slot: it comes after the slot, and at most one summary       *)
(* period after it, and the index that processHistoricalSlot looks up in   *)
(* its block roots is the slot's own, provided the Capella fork came at a  *)
(* summary boundary.                                                       *)
THEOREM SummaryCoversSlot ==
    ASSUME NEW n \in Nat
    PROVE  LET summarySlot == calcSlotOfSummary(calcSummaryIndex(n))
           IN  /\ n < summarySlot
               /\ summarySlot <= n + SLOTS_PER_HISTORICAL_ROOT
               /\ capellaForkSlot % SLOTS_PER_HISTORICAL_ROOT = 0 =>
                    n = summarySlot - SLOTS_PER_HISTORICAL_ROOT + calcRootIndexInSummary(n)
<1> DEFINE P == SLOTS_PER_HISTORICAL_ROOT
           c == capellaForkSlot
           i == calcSummaryIndex(n)
<1>1. P \in Nat \ {0}
  BY SlotMathAssumption
<1>2. c \in Nat
  BY SlotMathAssumption DEF capellaForkSlot, epochToSlot
<1>3. /\ i \in Int
      /\ i * P <= n - c
      /\ n - c < i * P + P
  <2>1. n - c \in Int
    BY <1>2
  <2> QED
    BY <1>1, <2>1, DivBounds DEF calcSummaryIndex
<1>4. calcSlotOfSummary(i) = c + i * P + P
  <2> HIDE DEF i, c, P
  <2>1. (i + 1) * P = i * P + P
    BY <1>1, <1>3
  <2> QED
    BY <1>1, <1>2, <1>3, <2>1 DEF calcSlotOfSummary, c, P
<1>5. ASSUME c % P = 0
      PROVE  n = c + i * P + calcRootIndexInSummary(n)
  <2> HIDE DEF i, c, P
  <2>1. c = (c \div P) * P
    BY <1>1, <1>2, <1>5
  <2>2. c \div P \in Int
    BY <1>1, <1>2, DivBounds
  <2> DEFINE q == c \div P + i
  <2>3. q \in Int /\ q * P = c + i * P
    BY <1>1, <1>3, <2>1, <2>2
  <2>4. n = (n \div P) * P + (n % P) /\ (n \div P) \in Int /\ (n % P) \in 0..(P - 1)
    BY <1>1
  <2> HIDE DEF q
  <2>5. q * P <= n /\ n < q * P + P
    BY <1>1, <1>2, <1>3, <2>3
  <2>6. n \div P = q
    <3>1. (n \div P) * P <= n /\ n < (n \div P) * P + P
      BY <1>1, <2>4
    <3> QED BY <1>1, <2>3, <2>4, <2>5, <3>1
  <2> QED
    BY <1>1, <1>2, <1>3, <2>3, <2>4, <2>6 DEF calcRootIndexInSummary, P
<1> HIDE DEF i, c, P
<1>6. i * P \in Int
  BY <1>1, <1>3
<1>7. n < calcSlotOfSummary(i) /\ calcSlotOfSummary(i) <= n + P
  BY <1>1, <1>2, <1>3, <1>4, <1>6
<1>8. c % P = 0 => n = calcSlotOfSummary(i) - P + calcRootIndexInSummary(n)
  <2>1. n % P \in Int
    BY <1>1
  <2> QED
    BY <1>1, <1>2, <1>4, <1>5, <1>6, <2>1 DEF calcRootIndexInSummary, P
<1> QED
  BY <1>7, <1>8 DEF i, c, P

=============================================================================
