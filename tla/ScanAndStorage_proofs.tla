------------------------- MODULE ScanAndStorage_proofs ------------------------
(***************************************************************************)
(* Theorems of ScanAndStorage, for every number of requests, validators,   *)
(* batches, copies and failures: a scan files all of its range, the group  *)
(* that stands first in an array is the one that leads its slot, what the  *)
(* arrays do is what Storage says of their sets, and the cleanup does not  *)
(* multiply copies twice.                                                  *)
(***************************************************************************)
EXTENDS ScanAndStorage, Chain_proofs, FiniteSetTheorems, SequenceTheorems

-----------------------------------------------------------------------------
(* The invariant: types and phases. *)

(* A finite sequence, of whatever. *)
IsArray(a) == a \in Seq({a[i] : i \in DOMAIN a})

StoreInv ==
    /\ DOMAIN slotMap \subseteq Int
    /\ \A s \in DOMAIN slotMap :
        /\ IsArray(slotMap[s])
        /\ slotMap[s] # <<>>
        /\ \A i \in DOMAIN slotMap[s] :
            /\ slotMap[s][i].exitRequest \in Requests
            /\ entries(slotMap[s][i]) \subseteq Entry
            /\ entries(slotMap[s][i]) # {}

(* v is asked to exit by r, with deadline slot s. *)
DueIn(v, r, s) ==
    /\ deliveredAt[r] > 0
    /\ v \in pubkeys(decodeValidatorsData(r))
    /\ ExitDeadlineSlot(r, v) = s

(* A group holds validators that its own request puts on its slot. *)
GroupsPure ==
    \A s \in DOMAIN slotMap : \A i \in DOMAIN slotMap[s] : \A e \in entries(slotMap[s][i]) :
        DueIn(e.pubkey, slotMap[s][i].exitRequest, s)

ClockInv ==
    /\ ChainTypeOK
    /\ 1 <= finalized
    /\ finalized < head
    /\ head - finalized <= FINALITY_DELAY
    /\ lastProcessed \in Nat
    /\ lastProcessed <= finalized
    /\ currentSlot \in Nat
    /\ currentSlot <= finalized

(* What is in hand in which phase of a cycle. *)
PhaseInv ==
    /\ pc \in {"init", "initScan", "idle", "beacon", "scan", "slots", "failing"}
    /\ pc \in {"init", "initScan"} => lastProcessed = 0
    /\ ~Scanning => events = <<>> /\ results = <<>>
    /\ pc \notin {"initScan", "beacon", "scan"} => batches = <<>>
    /\ pc \notin {"slots", "failing"} => eligible = {} /\ todo = {}
    /\ todo \subseteq eligible
    /\ eligible \subseteq DOMAIN slotMap
    /\ \A s \in eligible : s <= finalized
    /\ "event_error" \notin happened => unread = {}

(* The range in hand begins no later than where the next one would.        *)
RangeInv ==
    pc \notin {"init", "idle"} =>
        /\ fromBlock \in Nat /\ 1 <= fromBlock /\ fromBlock <= prevRoot
        /\ toBlock \in Nat /\ toBlock <= head
        /\ pc # "initScan" => toBlock <= finalized
        /\ pc # "initScan" /\ FINALITY_DELAY <= LOOKBACK => fromBlock <= toBlock

-----------------------------------------------------------------------------
(* The invariant: the scan. *)

(* The batches not yet asked for follow each other up to the range's end.  *)
BatchesInv ==
    /\ batches \in Seq([from : Int, to : Int])
    /\ \A i \in DOMAIN batches : fromBlock <= batches[i].from /\ batches[i].to <= toBlock
    /\ \A i \in 1..(Len(batches) - 1) : batches[i + 1].from = batches[i].to + 1
    /\ batches # <<>> => batches[Len(batches)].to = toBlock

(* The first block not yet asked for. *)
nextBlock == IF batches = <<>> THEN toBlock + 1 ELSE batches[1].from

InHand == {events[i] : i \in DOMAIN events} \cup {results[i] : i \in DOMAIN results}

(* The requests in hand are of the blocks asked for, oldest first. *)
HandInv ==
    /\ events \in Seq(Requests)
    /\ results \in Seq(Direct)
    /\ \A r \in InHand :
        /\ deliveredAt[r] > 0
        /\ fromBlock <= deliveredAt[r]
        /\ deliveredAt[r] <= toBlock
        /\ deliveredAt[r] < nextBlock
    /\ \A i, j \in DOMAIN events : i < j => deliveredAt[events[i]] <= deliveredAt[events[j]]
    /\ \A i, j \in DOMAIN results : i < j => deliveredAt[results[i]] <= deliveredAt[results[j]]
    /\ \A i \in DOMAIN results, j \in DOMAIN events :
            deliveredAt[results[i]] <= deliveredAt[events[j]]

(* Each request of the range is yet to come, in hand, filed, or unread. *)
ProgressInv ==
    pc \in {"initScan", "beacon", "scan"} =>
        \A r \in (ExitRequestsInBlocks(fromBlock, toBlock) \cap Direct) \ unread :
            deliveredAt[r] >= nextBlock \/ r \in InHand \/ Filed(r)

-----------------------------------------------------------------------------
(* The invariant: the order of the groups, while no lookup has failed. *)

Closed(v, s) == v \in settled \/ TimelyExit(v, s)

(* A group before the k-th, of a request no younger than t, has v: unless  *)
(* there is nothing left to do in v's case.                                *)
Ahead(s, k, v, t) ==
    \/ Closed(v, s)
    \/ \E i \in DOMAIN slotMap[s] :
        /\ i < k
        /\ deliveredAt[slotMap[s][i].exitRequest] <= t
        /\ v \in pubkeys(entries(slotMap[s][i]))

(* If an older request's group stands behind a younger one's, it is there  *)
(* again: its validators are listed ahead of both.                         *)
StoredInOrder ==
    \A s \in DOMAIN slotMap : \A k, j \in DOMAIN slotMap[s] :
        LET older == deliveredAt[slotMap[s][j].exitRequest]
        IN  k < j /\ older < deliveredAt[slotMap[s][k].exitRequest] =>
                \A v \in pubkeys(entries(slotMap[s][j])) : Ahead(s, k, v, older)

(* The first block that may still be scanned. *)
nextFrom == IF pc \in {"init", "idle"} THEN prevRoot ELSE fromBlock

(* The same of each request that may still be filed.                       *)
ToBeFiledInOrder ==
    \A r \in Direct : \A v \in pubkeys(decodeValidatorsData(r)) :
        deliveredAt[r] > 0 /\ deliveredAt[r] >= nextFrom =>
            LET s == ExitDeadlineSlot(r, v)
            IN  s \in DOMAIN slotMap =>
                    \A k \in DOMAIN slotMap[s] :
                        deliveredAt[r] < deliveredAt[slotMap[s][k].exitRequest] =>
                            Ahead(s, k, v, deliveredAt[r])

(* A validator of a slot that was processed in this cycle is remembered as *)
(* reported, or need not be kept.                                          *)
ProcessedDone ==
    pc = "slots" =>
        \A s \in eligible \ todo : \A v \in pubkeys(allEntries(s)) :
            v \in reported \/ Closed(v, s)

(* A request is delivered in a block of the chain. *)
DeliveredByHead == \A r \in Requests : deliveredAt[r] <= head

OrderInv ==
    "event_error" \notin happened => StoredInOrder /\ ToBeFiledInOrder /\ ProcessedDone

ArrayInv == StoreInv /\ GroupsPure /\ ClockInv /\ PhaseInv /\ RangeInv

ScanInv == ArrayInv /\ BatchesInv /\ HandInv /\ ProgressInv

LeadInv == ScanInv /\ DeliveredByHead /\ OrderInv

-----------------------------------------------------------------------------
(* Sequences. *)

(* A sequence is one of its own elements. *)
LEMMA SequenceIsArray ==
    ASSUME NEW S, NEW a \in Seq(S)
    PROVE  IsArray(a) /\ Len(a) \in Nat /\ DOMAIN a = 1..Len(a)
<1>1. Len(a) \in Nat /\ a \in [1..Len(a) -> S] /\ DOMAIN a = 1..Len(a)
  BY LenProperties
<1>2. a \in [1..Len(a) -> {a[i] : i \in DOMAIN a}]
  BY <1>1
<1>3. a \in Seq({a[i] : i \in DOMAIN a})
  <2> DEFINE T == {a[i] : i \in DOMAIN a}
  <2>1. \A n \in Nat : a \in [1..n -> T] => a \in Seq(T)
    <3> HIDE DEF T
    <3> QED
      OBVIOUS
  <2> QED
    BY <1>1, <1>2, <2>1
<1> QED
  BY <1>1, <1>3 DEF IsArray

(* A function on 1..n is a sequence. *)
LEMMA FunctionIsArray ==
    ASSUME NEW S, NEW n \in Nat, NEW a \in [1..n -> S]
    PROVE  IsArray(a) /\ Len(a) = n /\ DOMAIN a = 1..n
<1>1. a \in Seq(S) /\ Len(a) = n
  OBVIOUS
<1> QED
  BY <1>1, SequenceIsArray

LEMMA ArrayParts ==
    ASSUME NEW a, IsArray(a)
    PROVE  /\ Len(a) \in Nat
           /\ DOMAIN a = 1..Len(a)
           /\ a = <<>> <=> Len(a) = 0
<1> DEFINE S == {a[i] : i \in DOMAIN a}
<1>1. a \in Seq(S)
  BY DEF IsArray
<1> HIDE DEF S
<1> QED
  BY <1>1, LenProperties, EmptySeq

LEMMA EmptyIsArray == IsArray(<<>>)
BY EmptySeq DEF IsArray

(* A group is pushed behind the others. *)
LEMMA ArrayAppend ==
    ASSUME NEW a, IsArray(a), NEW g
    PROVE  /\ IsArray(Append(a, g))
           /\ Append(a, g) # <<>>
           /\ DOMAIN Append(a, g) = 1..(Len(a) + 1)
           /\ \A i \in DOMAIN a : Append(a, g)[i] = a[i]
           /\ Append(a, g)[Len(a) + 1] = g
<1> DEFINE T == {a[i] : i \in DOMAIN a}
           S == T \cup {g}
<1>1. a \in Seq(T)
  BY DEF IsArray
<1>2. a \in Seq(S) /\ g \in S /\ DOMAIN a = 1..Len(a)
  <2> HIDE DEF T
  <2> QED
    BY <1>1, LenProperties
<1> HIDE DEF S, T
<1>3. /\ Append(a, g) \in Seq(S)
      /\ Append(a, g) # <<>>
      /\ Len(Append(a, g)) = Len(a) + 1
      /\ \A i \in 1..Len(a) : Append(a, g)[i] = a[i]
      /\ Append(a, g)[Len(a) + 1] = g
  BY <1>2, AppendProperties
<1> QED
  BY <1>2, <1>3, SequenceIsArray

-----------------------------------------------------------------------------
(* Places: the k-th element of a finite set of numbers. *)

LEMMA Places ==
    ASSUME NEW n \in Nat, NEW P \in SUBSET (1..n)
    PROVE  /\ Cardinality(P) \in Nat
           /\ \A k \in 1..Cardinality(P) : place(P, k) \in P
           /\ \A i \in P : \E k \in 1..Cardinality(P) : place(P, k) = i
           /\ \A k, l \in 1..Cardinality(P) : k < l => place(P, k) < place(P, l)
<1> DEFINE below(i) == {j \in P : j <= i}
           K == Cardinality(P)
           rank == [i \in P |-> Cardinality(below(i))]
<1>0. \A i \in P : i \in Int
  OBVIOUS
<1>1. IsFiniteSet(P) /\ K \in Nat
  <2>1. IsFiniteSet(1..n)
    BY FS_Interval
  <2> QED
    BY <2>1, FS_Subset, FS_CardinalityType
<1>2. ASSUME NEW i \in P
      PROVE  IsFiniteSet(below(i)) /\ Cardinality(below(i)) \in 1..K
  <2>1. IsFiniteSet(below(i)) /\ Cardinality(below(i)) <= K
    BY <1>1, FS_Subset
  <2>2. Cardinality(below(i)) \in Nat /\ below(i) # {}
    BY <2>1, FS_CardinalityType
  <2> QED
    BY <1>1, <2>1, <2>2, FS_EmptySet
<1>3. ASSUME NEW i \in P, NEW j \in P, i < j
      PROVE  Cardinality(below(i)) < Cardinality(below(j))
  <2>1. i \in Int /\ j \in Int
    BY <1>0
  <2>2. ASSUME NEW x \in below(i) PROVE x \in below(j)
    BY <1>0, <1>3, <2>1, <2>2
  <2>3. j \in below(j) /\ j \notin below(i)
    BY <1>3, <2>1
  <2>4. below(i) \in SUBSET below(j) /\ below(i) # below(j)
    BY <2>2, <2>3
  <2> QED
    BY <1>2, <2>4, FS_Subset
<1>4. \A i, j \in P : rank[i] = rank[j] => i = j
  BY <1>2, <1>3
<1>5. rank \in Injection(P, 1..K)
  BY <1>2, <1>4 DEF Injection, IsInjective
<1>6. rank \in Surjection(P, 1..K)
  <2>1. IsFiniteSet(1..K) /\ Cardinality(1..K) = K
    BY <1>1, FS_Interval
  <2> HIDE DEF rank
  <2> QED
    BY <1>5, <2>1, FS_Injection
<1>7. ASSUME NEW k \in 1..K PROVE place(P, k) \in P /\ rank[place(P, k)] = k
  <2>1. \E i \in P : Cardinality(below(i)) = k
    BY <1>6 DEF Surjection
  <2>2. place(P, k) \in P /\ Cardinality(below(place(P, k))) = k
    BY <2>1 DEF place
  <2> QED
    BY <2>2
<1>8. ASSUME NEW i \in P PROVE \E k \in 1..K : place(P, k) = i
  <2>1. rank[i] \in 1..K
    BY <1>2
  <2> QED
    BY <1>4, <1>7, <2>1
<1>9. ASSUME NEW k \in 1..K, NEW l \in 1..K, k < l PROVE place(P, k) < place(P, l)
  <2>1. /\ place(P, k) \in P /\ place(P, k) \in Int
        /\ place(P, l) \in P /\ place(P, l) \in Int
    BY <1>0, <1>7
  <2>2. /\ Cardinality(below(place(P, k))) = k
        /\ Cardinality(below(place(P, l))) = l
    BY <1>7, <2>1
  <2> HIDE DEF below
  <2>3. ASSUME place(P, l) < place(P, k) PROVE FALSE
    <3>1. l < k
      BY <1>3, <2>1, <2>2, <2>3
    <3> QED
      BY <1>1, <1>9, <3>1
  <2>4. place(P, l) # place(P, k)
    BY <1>1, <1>9, <2>2
  <2> QED
    BY <2>1, <2>3, <2>4
<1> QED
  BY <1>1, <1>7, <1>8, <1>9

-----------------------------------------------------------------------------
(* The storage's operations. *)

(* Each slot has its array, an empty one if none is stored. *)
LEMMA ArrayAtIsArray ==
    ASSUME StoreInv, NEW s
    PROVE  IsArray(arrayAt(s))
BY EmptyIsArray DEF StoreInv, arrayAt

(* A new group holds the request's entries that are due at its slot. *)
LEMMA NewGroup ==
    ASSUME NEW r \in Requests, NEW s
    PROVE  /\ groupFor(r, s).exitRequest = r
           /\ entries(groupFor(r, s)) =
                {x \in decodeValidatorsData(r) : ExitDeadlineSlot(r, x.pubkey) = s}
           /\ entries(groupFor(r, s)) \subseteq Entry
           /\ s \in Deadlines(deliveredAt[r], r) <=> entries(groupFor(r, s)) # {}
<1>1. /\ groupFor(r, s).exitRequest = r
      /\ entries(groupFor(r, s)) =
                {x \in decodeValidatorsData(r) : ExitDeadlineSlot(r, x.pubkey) = s}
  BY DEF groupFor, entries
<1>2. s \in Deadlines(deliveredAt[r], r) <=> entries(groupFor(r, s)) # {}
  BY <1>1 DEF Deadlines, ExitDeadlineSlot
<1> QED
  BY <1>1, <1>2, DecodedType

(* What a push does to the arrays. *)
GrownBy(r) ==
    LET slots == Deadlines(deliveredAt[r], r)
    IN  /\ DOMAIN slotMap' = DOMAIN slotMap \cup slots
        /\ \A s \in DOMAIN slotMap' : IsArray(slotMap'[s]) /\ slotMap'[s] # <<>>
        /\ \A s \in DOMAIN slotMap : \A i \in DOMAIN slotMap[s] :
                i \in DOMAIN slotMap'[s] /\ slotMap'[s][i] = slotMap[s][i]
        /\ \A s \in slots : \E i \in DOMAIN slotMap'[s] : slotMap'[s][i] = groupFor(r, s)
        /\ \A s \in DOMAIN slotMap' : \A i \in DOMAIN slotMap'[s] :
                \/ /\ s \in DOMAIN slotMap
                   /\ i \in DOMAIN slotMap[s]
                \/ /\ s \in slots
                   /\ slotMap'[s][i] = groupFor(r, s)
                   /\ \A j \in DOMAIN slotMap'[s] : j <= i

LEMMA PushGrows ==
    ASSUME StoreInv, NEW r \in Requests, slotMap' = addToValidatorStorage(r)
    PROVE  GrownBy(r)
<1> DEFINE slots == Deadlines(deliveredAt[r], r)
<1>1. /\ DOMAIN slotMap' = DOMAIN slotMap \cup slots
      /\ \A s \in slots : slotMap'[s] = Append(arrayAt(s), groupFor(r, s))
      /\ \A s \in DOMAIN slotMap \ slots : slotMap'[s] = slotMap[s]
  BY DEF addToValidatorStorage
<1> HIDE DEF slots
<1>2. ASSUME NEW s \in slots
      PROVE  /\ IsArray(slotMap'[s]) /\ slotMap'[s] # <<>>
             /\ DOMAIN slotMap'[s] = 1..(Len(arrayAt(s)) + 1)
             /\ \A i \in DOMAIN arrayAt(s) : slotMap'[s][i] = arrayAt(s)[i]
             /\ slotMap'[s][Len(arrayAt(s)) + 1] = groupFor(r, s)
             /\ DOMAIN arrayAt(s) = 1..Len(arrayAt(s)) /\ Len(arrayAt(s)) \in Nat
  <2> DEFINE a == arrayAt(s)
             g == groupFor(r, s)
  <2>1. IsArray(a) /\ slotMap'[s] = Append(a, g)
    BY <1>1, ArrayAtIsArray
  <2> HIDE DEF a, g
  <2>2. /\ IsArray(Append(a, g)) /\ Append(a, g) # <<>>
        /\ DOMAIN Append(a, g) = 1..(Len(a) + 1)
        /\ \A i \in DOMAIN a : Append(a, g)[i] = a[i]
        /\ Append(a, g)[Len(a) + 1] = g
    BY <2>1, ArrayAppend
  <2>3. DOMAIN a = 1..Len(a) /\ Len(a) \in Nat
    BY <2>1, ArrayParts
  <2>4. /\ IsArray(slotMap'[s]) /\ slotMap'[s] # <<>>
        /\ DOMAIN slotMap'[s] = 1..(Len(a) + 1)
        /\ \A i \in DOMAIN a : slotMap'[s][i] = a[i]
        /\ slotMap'[s][Len(a) + 1] = g
    BY <2>1, <2>2
  <2> QED
    BY <2>3, <2>4 DEF a, g
<1>3. \A s \in DOMAIN slotMap : arrayAt(s) = slotMap[s]
  BY DEF arrayAt
<1>4. \A s \in slots \ DOMAIN slotMap : Len(arrayAt(s)) = 0
  BY EmptyIsArray, ArrayParts DEF arrayAt
<1>5. ASSUME NEW s \in DOMAIN slotMap'
      PROVE  IsArray(slotMap'[s]) /\ slotMap'[s] # <<>>
  BY <1>1, <1>2 DEF StoreInv
<1>6. ASSUME NEW s \in DOMAIN slotMap, NEW i \in DOMAIN slotMap[s]
      PROVE  i \in DOMAIN slotMap'[s] /\ slotMap'[s][i] = slotMap[s][i]
  <2>1. CASE s \in slots
    <3>1. i \in DOMAIN arrayAt(s) /\ i \in 1..Len(arrayAt(s))
      BY <1>2, <1>3, <2>1
    <3>2. i \in 1..(Len(arrayAt(s)) + 1)
      BY <1>2, <2>1, <3>1
    <3> QED
      BY <1>2, <1>3, <2>1, <3>1, <3>2
  <2>2. CASE s \notin slots
    BY <1>1, <2>2
  <2> QED
    BY <2>1, <2>2
<1>7. ASSUME NEW s \in slots
      PROVE  \E i \in DOMAIN slotMap'[s] : slotMap'[s][i] = groupFor(r, s)
  <2>1. Len(arrayAt(s)) + 1 \in 1..(Len(arrayAt(s)) + 1)
    BY <1>2
  <2> QED
    BY <1>2, <2>1
<1>8. ASSUME NEW s \in DOMAIN slotMap', NEW i \in DOMAIN slotMap'[s],
             ~(s \in DOMAIN slotMap /\ i \in DOMAIN slotMap[s])
      PROVE  /\ s \in slots
             /\ slotMap'[s][i] = groupFor(r, s)
             /\ \A j \in DOMAIN slotMap'[s] : j <= i
  <2>1. s \in slots
    BY <1>1, <1>8
  <2> DEFINE n == Len(arrayAt(s))
  <2>2. n \in Nat /\ DOMAIN slotMap'[s] = 1..(n + 1) /\ DOMAIN arrayAt(s) = 1..n
    BY <1>2, <2>1
  <2>3. i \notin 1..n
    BY <1>3, <1>4, <1>8, <2>1, <2>2
  <2> HIDE DEF n
  <2>4. i = n + 1
    BY <2>2, <2>3
  <2> QED
    BY <1>2, <2>1, <2>2, <2>4 DEF n
<1> QED
  BY <1>1, <1>5, <1>6, <1>7, <1>8 DEF GrownBy, slots

(* The place in the old array of a group the cleanup kept. *)
placeBefore(s, k) == IF s \in eligible THEN place(keptPlaces(s), k) ELSE k

(* What the cleanup keeps of a group. *)
keptOf(s, g) ==
    IF s \in eligible
    THEN {x \in allEntries(s) : x.pubkey \in reported /\ x.pubkey \in pubkeys(entries(g))}
    ELSE entries(g)

(* What the cleanup does to the arrays. *)
Cleaned ==
    /\ \A s \in DOMAIN slotMap' :
        /\ s \in DOMAIN slotMap
        /\ IsArray(slotMap'[s])
        /\ slotMap'[s] # <<>>
        /\ \A k \in DOMAIN slotMap'[s] :
            /\ placeBefore(s, k) \in DOMAIN slotMap[s]
            /\ slotMap'[s][k].exitRequest = slotMap[s][placeBefore(s, k)].exitRequest
            /\ entries(slotMap'[s][k]) = keptOf(s, slotMap[s][placeBefore(s, k)])
            /\ entries(slotMap'[s][k]) # {}
        /\ \A k, l \in DOMAIN slotMap'[s] : k < l => placeBefore(s, k) < placeBefore(s, l)
    /\ \A s \in DOMAIN slotMap : \A i \in DOMAIN slotMap[s] :
        keptOf(s, slotMap[s][i]) # {} =>
            /\ s \in DOMAIN slotMap'
            /\ \E k \in DOMAIN slotMap'[s] : placeBefore(s, k) = i

LEMMA KeptOfEligible ==
    ASSUME NEW s \in eligible, NEW g
    PROVE  DOMAIN remainingFor(s, g) = keptOf(s, g)
BY DEF remainingFor, remaining, keptOf

LEMMA CleanupCleans ==
    ASSUME StoreInv, slotMap' = cleanup
    PROVE  Cleaned
<1>1. /\ DOMAIN slotMap' = {x \in DOMAIN slotMap : x \notin eligible \/ keptPlaces(x) # {}}
      /\ \A s \in DOMAIN slotMap' :
            slotMap'[s] = IF s \in eligible THEN updatedGroupDataArray(s) ELSE slotMap[s]
  BY DEF cleanup
<1>2. ASSUME NEW s \in DOMAIN slotMap, s \notin eligible
      PROVE  /\ s \in DOMAIN slotMap' /\ slotMap'[s] = slotMap[s]
             /\ \A k : placeBefore(s, k) = k
             /\ \A g : keptOf(s, g) = entries(g)
  BY <1>1, <1>2 DEF placeBefore, keptOf
<1>3. ASSUME NEW s \in DOMAIN slotMap, s \in eligible
      PROVE  LET P == keptPlaces(s)
                 K == Cardinality(P)
             IN  /\ P = {i \in DOMAIN slotMap[s] : keptOf(s, slotMap[s][i]) # {}}
                 /\ K \in Nat
                 /\ P # {} => K > 0
                 /\ \A k \in 1..K : place(P, k) \in P
                 /\ \A i \in P : \E k \in 1..K : place(P, k) = i
                 /\ \A k, l \in 1..K : k < l => place(P, k) < place(P, l)
  <2> DEFINE P == keptPlaces(s)
             K == Cardinality(P)
  <2>1. Len(slotMap[s]) \in Nat /\ DOMAIN slotMap[s] = 1..Len(slotMap[s])
    BY ArrayParts DEF StoreInv
  <2>2. P = {i \in DOMAIN slotMap[s] : keptOf(s, slotMap[s][i]) # {}}
    BY <1>3, KeptOfEligible DEF keptPlaces
  <2>3. P \in SUBSET (1..Len(slotMap[s]))
    BY <2>1, <2>2
  <2>4. /\ K \in Nat
        /\ \A k \in 1..K : place(P, k) \in P
        /\ \A i \in P : \E k \in 1..K : place(P, k) = i
        /\ \A k, l \in 1..K : k < l => place(P, k) < place(P, l)
    <3> HIDE DEF P
    <3> QED
      BY <2>1, <2>3, Places
  <2>5. P # {} => K > 0
    BY <2>4
  <2> QED
    BY <2>2, <2>4, <2>5
<1>4. ASSUME NEW s \in DOMAIN slotMap, s \in eligible, s \in DOMAIN slotMap'
      PROVE  LET P == keptPlaces(s)
                 K == Cardinality(P)
             IN  /\ IsArray(slotMap'[s]) /\ slotMap'[s] # <<>> /\ DOMAIN slotMap'[s] = 1..K
                 /\ \A k \in 1..K :
                        /\ placeBefore(s, k) = place(P, k)
                        /\ slotMap'[s][k].exitRequest = slotMap[s][place(P, k)].exitRequest
                        /\ entries(slotMap'[s][k]) = keptOf(s, slotMap[s][place(P, k)])
  <2> DEFINE P == keptPlaces(s)
             K == Cardinality(P)
             groupAt(k) == [exitRequest |-> slotMap[s][place(P, k)].exitRequest,
                            validators |-> remainingFor(s, slotMap[s][place(P, k)])]
             S == {groupAt(k) : k \in 1..K}
  <2>1. K \in Nat /\ K > 0
    BY <1>1, <1>3, <1>4
  <2>2. slotMap'[s] = [k \in 1..K |-> groupAt(k)]
    BY <1>1, <1>4 DEF updatedGroupDataArray
  <2>3. slotMap'[s] \in [1..K -> S]
    <3> HIDE DEF groupAt, K
    <3> QED
      BY <2>2
  <2>4. IsArray(slotMap'[s]) /\ Len(slotMap'[s]) = K /\ DOMAIN slotMap'[s] = 1..K
    <3> HIDE DEF S, K
    <3> QED
      BY <2>1, <2>3, FunctionIsArray
  <2>5. slotMap'[s] # <<>>
    <3> HIDE DEF K
    <3> QED
      BY <2>1, <2>4, ArrayParts
  <2>6. ASSUME NEW k \in 1..K
        PROVE  /\ placeBefore(s, k) = place(P, k)
               /\ slotMap'[s][k].exitRequest = slotMap[s][place(P, k)].exitRequest
               /\ entries(slotMap'[s][k]) = keptOf(s, slotMap[s][place(P, k)])
    <3>1. slotMap'[s][k] = groupAt(k)
      BY <2>2
    <3>2. entries(groupAt(k)) = keptOf(s, slotMap[s][place(P, k)])
      BY <1>4, KeptOfEligible DEF entries
    <3> QED
      BY <1>4, <3>1, <3>2 DEF placeBefore
  <2> QED
    BY <2>4, <2>5, <2>6
<1>5. ASSUME NEW s \in DOMAIN slotMap'
      PROVE  /\ s \in DOMAIN slotMap
             /\ IsArray(slotMap'[s])
             /\ slotMap'[s] # <<>>
             /\ \A k \in DOMAIN slotMap'[s] :
                 /\ placeBefore(s, k) \in DOMAIN slotMap[s]
                 /\ slotMap'[s][k].exitRequest = slotMap[s][placeBefore(s, k)].exitRequest
                 /\ entries(slotMap'[s][k]) = keptOf(s, slotMap[s][placeBefore(s, k)])
                 /\ entries(slotMap'[s][k]) # {}
             /\ \A k, l \in DOMAIN slotMap'[s] : k < l => placeBefore(s, k) < placeBefore(s, l)
  <2>1. s \in DOMAIN slotMap
    BY <1>1
  <2>2. CASE s \in eligible
    BY <1>3, <1>4, <2>1, <2>2
  <2>3. CASE s \notin eligible
    BY <1>2, <2>1, <2>3 DEF StoreInv
  <2> QED
    BY <2>1, <2>2, <2>3
<1>6. ASSUME NEW s \in DOMAIN slotMap, NEW i \in DOMAIN slotMap[s],
             keptOf(s, slotMap[s][i]) # {}
      PROVE  /\ s \in DOMAIN slotMap'
             /\ \E k \in DOMAIN slotMap'[s] : placeBefore(s, k) = i
  <2>1. CASE s \in eligible
    <3>1. i \in keptPlaces(s)
      BY <1>3, <1>6, <2>1
    <3>2. s \in DOMAIN slotMap'
      BY <1>1, <3>1
    <3> QED
      BY <1>3, <1>4, <2>1, <3>1, <3>2
  <2>2. CASE s \notin eligible
    BY <1>2, <2>2
  <2> QED
    BY <2>1, <2>2
<1> QED
  BY <1>5, <1>6 DEF Cleaned

-----------------------------------------------------------------------------
(* What the steps leave as it is. *)

ChainsStill == UNCHANGED <<head, finalized, deliveredAt, exitAt>>

(* The bot's own steps leave the chains alone but for what is on record.   *)
LEMMA ChainsStillStep ==
    ASSUME BotStep
    PROVE  ChainsStill /\ settled \subseteq settled'
<1> USE DEF ChainsStill, chainVars
<1>1. ASSUME NEW s \in todo, ProcessSlot(s) \/ SlotFails(s)
      PROVE  ChainsStill /\ settled \subseteq settled'
  BY <1>1 DEF ProcessSlot, SlotFails
<1> QED
  BY <1>1 DEF BotStep, StartScan, BeaconState, QueryBatch, LookUpEvent, PushRequest,
              NothingEligible, SomeEligible, Cleanup, CycleFails

(* The arrays change when a request is pushed and in the cleanup. *)
LEMMA ArraysStill ==
    ASSUME [Next]_vars, ~PushRequest, ~Cleanup
    PROVE  UNCHANGED slotMap
<1>1. ASSUME NEW s \in todo, ProcessSlot(s) \/ SlotFails(s) PROVE UNCHANGED slotMap
  BY <1>1 DEF ProcessSlot, SlotFails
<1> QED
  BY <1>1 DEF Next, BotStep, vars, Environment, StartScan, BeaconState, QueryBatch,
              LookUpEvent, NothingEligible, SomeEligible, CycleFails

(* Whose request puts whom on which slot stays so. *)
LEMMA DueStable ==
    ASSUME ChainNext \/ ChainsStill, NEW v, NEW r \in Requests, NEW s, DueIn(v, r, s)
    PROVE  DueIn(v, r, s)' /\ deliveredAt'[r] = deliveredAt[r]
<1>1. deliveredAt'[r] = deliveredAt[r]
  BY DeliveredStable DEF DueIn, ChainsStill
<1> QED
  BY <1>1 DEF DueIn, ExitDeadlineSlot, decodeValidatorsData, pubkeys

(* Where there is nothing left to do there never will be. *)
LEMMA ClosedStable ==
    ASSUME ChainTypeOK, ChainNext \/ (ChainsStill /\ settled \subseteq settled'),
           NEW v \in Validators, NEW s, Closed(v, s)
    PROVE  Closed(v, s)'
<1>1. CASE v \in settled
  BY <1>1, SettledGrows DEF Closed
<1>2. CASE TimelyExit(v, s) /\ ChainNext
  BY <1>2, TimelyStable DEF Closed
<1>3. CASE TimelyExit(v, s) /\ ChainsStill
  BY <1>3 DEF Closed, ChainsStill, TimelyExit, ExitEpochBelow, ExitEpochSet
<1> QED
  BY <1>1, <1>2, <1>3 DEF Closed

(* Every step is one of the chains, of the bot, or none. *)
LEMMA StepKinds ==
    ASSUME [Next]_vars
    PROVE  \/ ChainNext
           \/ ChainsStill /\ settled \subseteq settled'
BY ChainsStillStep DEF Next, Environment, ChainsStill, vars, chainVars

-----------------------------------------------------------------------------
(* The arrays hold groups. *)

LEMMA StoreNext == ArrayInv /\ HandInv /\ [Next]_vars => StoreInv'
<1> SUFFICES ASSUME ArrayInv, HandInv, [Next]_vars PROVE StoreInv'
  OBVIOUS
<1>1. CASE PushRequest
  <2> DEFINE r == Head(results)
  <2>1. r \in Requests
    BY <1>1, HeadTailProperties, ScanAssumption DEF PushRequest, HandInv
  <2>2. GrownBy(r)
    BY <1>1, <2>1, PushGrows DEF PushRequest, ArrayInv
  <2>3. Deadlines(deliveredAt[r], r) \subseteq Int
    BY <2>1, DeadlinesType DEF ArrayInv, ClockInv, ChainTypeOK
  <2> HIDE DEF r
  <2>4. DOMAIN slotMap' \subseteq Int
    BY <2>2, <2>3 DEF GrownBy, ArrayInv, StoreInv
  <2>5. ASSUME NEW s \in DOMAIN slotMap', NEW i \in DOMAIN slotMap'[s]
        PROVE  /\ slotMap'[s][i].exitRequest \in Requests
               /\ entries(slotMap'[s][i]) \subseteq Entry
               /\ entries(slotMap'[s][i]) # {}
    <3>1. CASE s \in DOMAIN slotMap /\ i \in DOMAIN slotMap[s]
      BY <2>2, <3>1 DEF GrownBy, ArrayInv, StoreInv
    <3>2. CASE s \in Deadlines(deliveredAt[r], r) /\ slotMap'[s][i] = groupFor(r, s)
      BY <2>1, <3>2, NewGroup
    <3> QED
      BY <2>2, <3>1, <3>2 DEF GrownBy
  <2> QED
    BY <2>2, <2>4, <2>5 DEF GrownBy, StoreInv, entries
<1>2. CASE Cleanup
  <2>1. Cleaned
    BY <1>2, CleanupCleans DEF Cleanup, ArrayInv
  <2>2. ASSUME NEW s \in DOMAIN slotMap', NEW k \in DOMAIN slotMap'[s]
        PROVE  /\ slotMap'[s][k].exitRequest \in Requests
               /\ entries(slotMap'[s][k]) \subseteq Entry
               /\ entries(slotMap'[s][k]) # {}
    <3>1. s \in DOMAIN slotMap /\ allEntries(s) \subseteq Entry
      BY <2>1 DEF Cleaned, allEntries, ArrayInv, StoreInv
    <3> QED
      BY <2>1, <3>1 DEF Cleaned, keptOf, ArrayInv, StoreInv
  <2> QED
    BY <2>1, <2>2 DEF Cleaned, ArrayInv, StoreInv, entries
<1>3. CASE UNCHANGED slotMap
  BY <1>3 DEF ArrayInv, StoreInv, IsArray, entries
<1> QED
  BY <1>1, <1>2, <1>3, ArraysStill

(* And each of a slot's groups those of its own request. *)
LEMMA PureNext == ArrayInv /\ HandInv /\ [Next]_vars => GroupsPure'
<1> SUFFICES ASSUME ArrayInv, HandInv, [Next]_vars PROVE GroupsPure'
  OBVIOUS
<1>0. /\ ChainNext \/ ChainsStill
      /\ \A s \in DOMAIN slotMap : \A i \in DOMAIN slotMap[s] :
            slotMap[s][i].exitRequest \in Requests
  BY StepKinds DEF ArrayInv, StoreInv
<1>1. ASSUME NEW s \in DOMAIN slotMap, NEW i \in DOMAIN slotMap[s],
             NEW v \in pubkeys(entries(slotMap[s][i]))
      PROVE  DueIn(v, slotMap[s][i].exitRequest, s)
  BY DEF ArrayInv, GroupsPure, pubkeys
<1>2. ASSUME NEW s \in DOMAIN slotMap, NEW r \in Requests, NEW v, DueIn(v, r, s)
      PROVE  DueIn(v, r, s)'
  BY <1>0, <1>2, DueStable
<1>3. CASE PushRequest
  <2> DEFINE r == Head(results)
  <2>1. r \in Requests /\ r \in InHand
    <3>1. results # <<>> /\ results \in Seq(Direct)
      BY <1>3 DEF PushRequest, HandInv
    <3>2. r \in Direct /\ 1 \in DOMAIN results /\ r = results[1]
      BY <3>1, HeadTailProperties, LenProperties, EmptySeq
    <3> QED
      BY <3>2, ScanAssumption DEF InHand
  <2>2. GrownBy(r) /\ deliveredAt[r] > 0 /\ UNCHANGED deliveredAt
    BY <1>3, <2>1, PushGrows DEF PushRequest, ArrayInv, HandInv, chainVars
  <2> HIDE DEF r
  <2>3. ASSUME NEW s \in DOMAIN slotMap', NEW i \in DOMAIN slotMap'[s],
               NEW e \in entries(slotMap'[s][i])
        PROVE  DueIn(e.pubkey, slotMap'[s][i].exitRequest, s)
    <3>1. CASE s \in DOMAIN slotMap /\ i \in DOMAIN slotMap[s]
      BY <2>2, <3>1 DEF GrownBy, ArrayInv, GroupsPure
    <3>2. CASE s \in Deadlines(deliveredAt[r], r) /\ slotMap'[s][i] = groupFor(r, s)
      BY <2>1, <2>2, <3>2, NewGroup DEF DueIn, pubkeys
    <3> QED
      BY <2>2, <3>1, <3>2 DEF GrownBy
  <2> QED
    BY <2>2, <2>3
    DEF GroupsPure, DueIn, ExitDeadlineSlot, pubkeys, decodeValidatorsData, entries
<1>4. CASE Cleanup
  <2>1. Cleaned
    BY <1>4, CleanupCleans DEF Cleanup, ArrayInv
  <2>2. ASSUME NEW s \in DOMAIN slotMap', NEW k \in DOMAIN slotMap'[s],
               NEW e \in entries(slotMap'[s][k])
        PROVE  DueIn(e.pubkey, slotMap'[s][k].exitRequest, s)
    <3> DEFINE g == slotMap[s][placeBefore(s, k)]
    <3>1. /\ s \in DOMAIN slotMap /\ placeBefore(s, k) \in DOMAIN slotMap[s]
          /\ slotMap'[s][k].exitRequest = g.exitRequest
          /\ e \in keptOf(s, g)
      BY <2>1 DEF Cleaned
    <3>2. e.pubkey \in pubkeys(entries(g))
      BY <3>1 DEF keptOf, pubkeys
    <3>3. DueIn(e.pubkey, g.exitRequest, s) /\ g.exitRequest \in Requests
      BY <1>0, <1>1, <3>1, <3>2
    <3> HIDE DEF g
    <3> QED
      BY <3>1, <3>3
  <2>3. UNCHANGED deliveredAt
    BY <1>4 DEF Cleanup, chainVars
  <2> QED
    BY <2>2, <2>3
    DEF GroupsPure, DueIn, ExitDeadlineSlot, pubkeys, decodeValidatorsData, entries
<1>5. CASE UNCHANGED slotMap
  BY <1>0, <1>2, <1>5 DEF ArrayInv, GroupsPure, entries
<1> QED
  BY <1>3, <1>4, <1>5, ArraysStill

-----------------------------------------------------------------------------
(* The clock, the phases of a cycle and its range. *)

(* Whom a slot's check finds late is one of its validators. *)
LEMMA FoundAreListed ==
    ASSUME StoreInv, NEW s \in DOMAIN slotMap
    PROVE  /\ NoLongerTracked(s) \subseteq Checked(s)
           /\ FoundLate(s) \subseteq Checked(s)
           /\ Checked(s) \subseteq pubkeys(allEntries(s))
           /\ allEntries(s) \subseteq Entry
           /\ pubkeys(allEntries(s)) \subseteq Validators
<1>1. allEntries(s) \subseteq Entry
  BY DEF StoreInv, allEntries
<1> QED
  BY <1>1, PubkeysType DEF NoLongerTracked, FoundLate, Checked

LEMMA ClockNext == ArrayInv /\ [Next]_vars => ClockInv'
<1> SUFFICES ASSUME ArrayInv, [Next]_vars PROVE ClockInv'
  OBVIOUS
<1>0. /\ head \in Nat /\ finalized \in Nat /\ lastProcessed \in Nat /\ currentSlot \in Nat
      /\ finalized < head /\ 1 <= finalized /\ head - finalized <= FINALITY_DELAY
      /\ lastProcessed <= finalized /\ currentSlot <= finalized
      /\ ChainTypeOK
  BY DEF ArrayInv, ClockInv, ChainTypeOK
<1>1. CASE Environment
  <2>1. ChainNext /\ UNCHANGED <<lastProcessed, currentSlot>>
    BY <1>1 DEF Environment, scanVars
  <2>2. ChainTypeOK' /\ finalized <= finalized' /\ finalized' < head' /\ finalized' \in Nat
    BY <1>0, <2>1, ChainTypesStay, ClockTick
  <2>3. head' - finalized' <= FINALITY_DELAY
    <3>1. ASSUME NEW R \in SUBSET Requests, NewBlock(R)
          PROVE  head' - finalized' <= FINALITY_DELAY
      BY <1>0, <3>1, ChainAssumption DEF NewBlock
    <3>2. ASSUME NEW s \in finalized..head, Finalize(s)
          PROVE  head' - finalized' <= FINALITY_DELAY
      BY <1>0, <3>2, ChainAssumption DEF Finalize
    <3> QED
      BY <1>0, <2>1, <3>1, <3>2 DEF ChainNext, InitiateExit, MineLate
  <2> QED
    BY <1>0, <2>1, <2>2, <2>3 DEF ClockInv
<1>2. ASSUME NEW s \in todo, ProcessSlot(s) \/ SlotFails(s)
      PROVE  ClockInv'
  <2>1. s \in DOMAIN slotMap
    BY DEF ArrayInv, PhaseInv
  <2>2. FoundLate(s) \subseteq Validators
    BY <2>1, FoundAreListed DEF ArrayInv
  <2>3. ChainTypeOK'
    BY <1>0, <1>2, <2>2 DEF ChainTypeOK, ProcessSlot, SlotFails
  <2> QED
    BY <1>0, <1>2, <2>3 DEF ClockInv, ProcessSlot, SlotFails
<1>3. CASE StartScan \/ QueryBatch \/ LookUpEvent \/ PushRequest \/ SomeEligible
  BY <1>0, <1>3
  DEF ClockInv, ChainTypeOK, chainVars, StartScan, QueryBatch, LookUpEvent, PushRequest,
      SomeEligible
<1>4. CASE BeaconState
  BY <1>0, <1>4 DEF ClockInv, ChainTypeOK, chainVars, BeaconState
<1>5. CASE NothingEligible \/ Cleanup \/ CycleFails
  <2>1. UNCHANGED chainVars /\ currentSlot' = 0
    BY <1>5 DEF NothingEligible, Cleanup, CycleFails, Rest
  <2>2. \/ UNCHANGED lastProcessed
        \/ pc \in {"scan", "slots"} /\ lastProcessed' = toBlock
    BY <1>5 DEF NothingEligible, Cleanup, CycleFails, ScanOver, Scanning
  <2>3. lastProcessed' \in Nat /\ lastProcessed' <= finalized
    BY <1>0, <2>2 DEF ArrayInv, RangeInv
  <2> QED
    BY <1>0, <2>1, <2>3 DEF ClockInv, ChainTypeOK, chainVars
<1>6. CASE UNCHANGED vars
  BY <1>0, <1>6 DEF ClockInv, ChainTypeOK, vars, chainVars, scanVars
<1> QED
  BY <1>1, <1>2, <1>3, <1>4, <1>5, <1>6 DEF Next, BotStep

LEMMA PhaseNext == ArrayInv /\ HandInv /\ [Next]_vars => PhaseInv'
<1> SUFFICES ASSUME ArrayInv, HandInv, [Next]_vars PROVE PhaseInv'
  OBVIOUS
<1> USE DEF PhaseInv, Scanning
<1>0. PhaseInv /\ finalized \in Nat
  BY DEF ArrayInv, ClockInv, ChainTypeOK
<1>1. CASE Environment
  <2>1. UNCHANGED <<slotMap, eligible, pc, batches, events, results, todo, lastProcessed,
                    unread, happened>>
    BY <1>1 DEF Environment, scanVars
  <2>2. ASSUME NEW s \in eligible PROVE s <= finalized'
    <3>1. finalized <= finalized' /\ finalized' \in Nat
      BY <1>1, ClockTick DEF Environment, ArrayInv, ClockInv
    <3>2. s \in Int /\ s <= finalized
      BY <1>0 DEF ArrayInv, StoreInv
    <3> QED
      BY <1>0, <3>1, <3>2
  <2> QED
    BY <1>0, <2>1, <2>2
<1>2. ASSUME NEW s \in todo, ProcessSlot(s) \/ SlotFails(s)
      PROVE  PhaseInv'
  BY <1>0, <1>2 DEF ProcessSlot, SlotFails, Fault
<1>3. CASE StartScan \/ BeaconState \/ QueryBatch
  BY <1>0, <1>3 DEF chainVars, StartScan, BeaconState, QueryBatch
<1>4. CASE LookUpEvent
  <2>1. "event_error" \notin happened' => UNCHANGED unread /\ "event_error" \notin happened
    BY <1>4 DEF LookUpEvent, Fault
  <2> QED
    BY <1>0, <1>4, <2>1 DEF chainVars, LookUpEvent
<1>5. CASE PushRequest
  <2>1. eligible = {}
    BY <1>0, <1>5 DEF PushRequest
  <2> QED
    BY <1>0, <1>5, <2>1 DEF chainVars, PushRequest
<1>6. CASE SomeEligible
  <2>1. ASSUME NEW s \in eligible' PROVE s \in DOMAIN slotMap /\ s <= finalized
    <3>1. s \in DOMAIN slotMap /\ s \in Int /\ s <= currentSlot
      BY <1>6 DEF SomeEligible, EligibleSlots, ArrayInv, StoreInv
    <3> QED
      BY <1>0, <3>1 DEF ArrayInv, ClockInv
  <2> QED
    BY <1>0, <1>6, <2>1 DEF SomeEligible, ScanOver, chainVars
<1>7. CASE NothingEligible \/ Cleanup \/ CycleFails
  BY <1>0, <1>7 DEF NothingEligible, Cleanup, CycleFails, Rest, ScanOver, Fault
<1>8. CASE UNCHANGED vars
  BY <1>0, <1>8 DEF vars, chainVars, scanVars
<1> QED
  BY <1>1, <1>2, <1>3, <1>4, <1>5, <1>6, <1>7, <1>8 DEF Next, BotStep

(* The root to begin from only moves forward while a cycle is under way.   *)
LEMMA RootMoves ==
    ASSUME ClockInv, head' \in Nat, head <= head', UNCHANGED lastProcessed
    PROVE  /\ prevRoot \in Nat /\ prevRoot' \in Nat
           /\ 1 <= prevRoot
           /\ prevRoot <= prevRoot'
           /\ FINALITY_DELAY <= LOOKBACK => prevRoot <= finalized
<1>1. head \in Nat /\ finalized \in Nat /\ lastProcessed \in Nat /\ LOOKBACK \in Nat
  BY ScanAssumption DEF ClockInv, ChainTypeOK
<1>2. /\ lookbackBlock \in Nat /\ lookbackBlock' \in Nat
      /\ 1 <= lookbackBlock /\ lookbackBlock <= lookbackBlock'
  <2> DEFINE back(h) == IF h - LOOKBACK >= 1 THEN h - LOOKBACK ELSE 1
  <2>1. ASSUME NEW h \in Nat PROVE back(h) \in Nat /\ 1 <= back(h)
    BY <1>1
  <2>2. ASSUME NEW h \in Nat, NEW i \in Nat, h <= i PROVE back(h) <= back(i)
    BY <1>1, <2>2
  <2>3. lookbackBlock = back(head) /\ lookbackBlock' = back(head')
    BY DEF lookbackBlock
  <2> HIDE DEF back
  <2> QED
    BY <1>1, <2>1, <2>2, <2>3
<1>3. FINALITY_DELAY <= LOOKBACK => lookbackBlock <= finalized
  BY <1>1, ChainAssumption DEF lookbackBlock, ClockInv
<1> QED
  BY <1>1, <1>2, <1>3 DEF prevRoot, ClockInv

LEMMA RangeNext == ArrayInv /\ [Next]_vars => RangeInv'
<1> SUFFICES ASSUME ArrayInv, [Next]_vars PROVE RangeInv'
  OBVIOUS
<1>0. /\ ClockInv /\ RangeInv /\ head \in Nat /\ finalized \in Nat /\ finalized < head
      /\ lastProcessed \in Nat
  BY DEF ArrayInv, ClockInv, ChainTypeOK
<1>1. ASSUME UNCHANGED <<fromBlock, toBlock, lastProcessed>>,
             head' \in Nat, head <= head', finalized' \in Nat, finalized <= finalized',
             pc \notin {"init", "idle"}, pc' # "initScan" => pc # "initScan"
      PROVE  RangeInv'
  <2>1. prevRoot \in Nat /\ prevRoot' \in Nat /\ prevRoot <= prevRoot'
    BY <1>0, <1>1, RootMoves
  <2> QED
    BY <1>0, <1>1, <2>1 DEF RangeInv
<1>2. CASE Environment
  <2>1. /\ head' \in Nat /\ head <= head' /\ finalized' \in Nat /\ finalized <= finalized'
        /\ UNCHANGED <<fromBlock, toBlock, lastProcessed, pc>>
    BY <1>0, <1>2, HeadGrows, ClockTick DEF Environment, ClockInv, scanVars
  <2>2. CASE pc \in {"init", "idle"}
    BY <2>1, <2>2 DEF RangeInv
  <2> QED
    BY <1>1, <2>1, <2>2
<1>3. CASE StartScan
  <2>1. /\ UNCHANGED <<lastProcessed, head, finalized>>
        /\ prevRoot \in Nat /\ prevRoot' = prevRoot /\ 1 <= prevRoot
        /\ FINALITY_DELAY <= LOOKBACK => prevRoot <= finalized
    BY <1>0, <1>3, RootMoves DEF StartScan, chainVars, prevRoot, lookbackBlock
  <2>2. CASE pc = "init"
    <3>1. fromBlock' = prevRoot /\ toBlock' = head /\ pc' = "initScan"
      BY <1>3, <2>2 DEF StartScan, prevRoot, ArrayInv, PhaseInv
    <3> QED
      BY <1>0, <2>1, <3>1 DEF RangeInv
  <2>3. CASE pc = "idle"
    <3>1. fromBlock' = prevRoot /\ toBlock' = finalized /\ pc' = "beacon"
      BY <1>3, <2>3 DEF StartScan
    <3> QED
      BY <1>0, <2>1, <3>1 DEF RangeInv
  <2> QED
    BY <1>3, <2>2, <2>3 DEF StartScan
<1>4. CASE BeaconState \/ QueryBatch \/ LookUpEvent \/ PushRequest \/ SomeEligible
  <2>1. /\ UNCHANGED <<fromBlock, toBlock, lastProcessed, head, finalized>>
        /\ pc \notin {"init", "idle"}
        /\ pc' # "initScan" => pc # "initScan"
    BY <1>4 DEF BeaconState, QueryBatch, LookUpEvent, PushRequest, SomeEligible, Scanning,
                chainVars
  <2> QED
    BY <1>0, <1>1, <2>1
<1>5. ASSUME NEW s \in todo, ProcessSlot(s) \/ SlotFails(s)
      PROVE  RangeInv'
  <2>1. /\ UNCHANGED <<fromBlock, toBlock, lastProcessed, head, finalized>>
        /\ pc = "slots"
    BY <1>5 DEF ProcessSlot, SlotFails
  <2> QED
    BY <1>0, <1>1, <2>1
<1>6. CASE NothingEligible \/ Cleanup \/ CycleFails
  BY <1>6 DEF NothingEligible, Cleanup, CycleFails, Rest, RangeInv
<1>7. CASE UNCHANGED vars
  BY <1>0, <1>7 DEF RangeInv, vars, chainVars, scanVars, prevRoot, lookbackBlock
<1> QED
  BY <1>2, <1>3, <1>4, <1>5, <1>6, <1>7 DEF Next, BotStep

LEMMA ArrayInit == Init => ArrayInv
<1> SUFFICES ASSUME Init PROVE ArrayInv
  OBVIOUS
<1> USE DEF Init, ChainInit
<1>1. ClockInv
  BY ChainAssumption DEF ClockInv, ChainTypeOK
<1>2. DOMAIN slotMap = {}
  OBVIOUS
<1> QED
  BY <1>1, <1>2 DEF ArrayInv, StoreInv, GroupsPure, PhaseInv, RangeInv, Scanning

LEMMA ArrayNext == ArrayInv /\ HandInv /\ [Next]_vars => ArrayInv'
BY StoreNext, PureNext, ClockNext, PhaseNext, RangeNext DEF ArrayInv

-----------------------------------------------------------------------------
(* The batches of a range. *)

LEMMA MinOfPair ==
    ASSUME NEW a \in Int, NEW b \in Int
    PROVE  Min({a, b}) = IF a <= b THEN a ELSE b
BY DEF Min

LEMMA MaxOfPair ==
    ASSUME NEW a \in Int, NEW b \in Int
    PROVE  Max({a, b}) = IF a >= b THEN a ELSE b
BY DEF Max

(* createBatches leaves no block of the range out, and asks for none twice.*)
LEMMA BatchesCover ==
    ASSUME NEW from \in Int, NEW to \in Int
    PROVE  LET b == createBatches(from, to)
           IN  /\ b \in Seq([from : Int, to : Int])
               /\ b # <<>>
               /\ b[1].from = from
               /\ \A i \in DOMAIN b : from <= b[i].from /\ b[i].to <= to
               /\ \A i \in 1..(Len(b) - 1) : b[i + 1].from = b[i].to + 1
               /\ b[Len(b)].to = to
<1> DEFINE B == BATCH_SIZE
           q == (to - from) \div B
           n == Max({1, q + 1})
           b == createBatches(from, to)
           start(i) == from + (i - 1) * B
           range(i) == [from |-> start(i), to |-> Min({start(i) + B - 1, to})]
<1>1. B \in Nat \ {0}
  BY ScanAssumption
<1>2. q \in Int /\ q * B <= to - from /\ to - from < q * B + B
  <2>1. to - from \in Int
    OBVIOUS
  <2> QED
    BY <1>1, <2>1, DivBounds
<1>3. n \in Nat \ {0} /\ n = IF q >= 0 THEN q + 1 ELSE 1
  <2> HIDE DEF q
  <2>1. n = IF 1 >= q + 1 THEN 1 ELSE q + 1
    BY <1>2, MaxOfPair
  <2> QED
    BY <1>2, <2>1
<1>4. b = [i \in 1..n |-> range(i)]
  BY DEF createBatches
<1> HIDE DEF b, n, q, B
<1>5. ASSUME NEW i \in 1..n
      PROVE  /\ start(i) \in Int
             /\ from <= start(i)
             /\ start(i + 1) = start(i) + B
             /\ range(i).from = start(i)
             /\ range(i).to = IF start(i) + B - 1 <= to THEN start(i) + B - 1 ELSE to
  <2>1. (i - 1) * B \in Nat /\ i * B = (i - 1) * B + B
    BY <1>1, <1>3
  <2>2. start(i) \in Int /\ from <= start(i) /\ start(i + 1) = start(i) + B
    <3>1. i + 1 - 1 = i
      BY <1>3
    <3> QED
      BY <1>1, <2>1, <3>1
  <2> HIDE DEF start
  <2>3. start(i) + B - 1 \in Int
    BY <1>1, <2>2
  <2> QED
    BY <2>2, <2>3, MinOfPair
<1>6. ASSUME NEW i \in 1..n, i < n PROVE start(i) + B - 1 <= to
  <2>1. n = q + 1 /\ i <= q
    BY <1>2, <1>3, <1>6
  <2>2. i * B <= q * B
    BY <1>1, <1>2, <1>3, <2>1
  <2>3. start(i) + B = from + i * B /\ i * B \in Int /\ q * B \in Int
    <3>1. i * B = (i - 1) * B + B /\ (i - 1) * B \in Int /\ i * B \in Int
      BY <1>1, <1>3
    <3> QED
      BY <1>1, <1>2, <3>1
  <2>4. start(i) \in Int
    BY <1>5
  <2> HIDE DEF start
  <2> QED
    BY <1>1, <1>2, <2>2, <2>3, <2>4
<1>7. to <= start(n) + B - 1
  <2>1. to - from < n * B
    <3>1. CASE q >= 0
      <4>1. n * B = q * B + B /\ q * B \in Int
        BY <1>1, <1>2, <1>3, <3>1
      <4> QED
        BY <1>2, <4>1
    <3>2. CASE q < 0
      <4>1. n * B = B /\ q * B \in Int /\ q * B <= 0 - B
        BY <1>1, <1>2, <1>3, <3>2
      <4> QED
        BY <1>1, <1>2, <4>1
    <3> QED
      BY <1>2, <3>1, <3>2
  <2>2. start(n) + B = from + n * B /\ n * B \in Int
    <3>1. n * B = (n - 1) * B + B /\ (n - 1) * B \in Int /\ n * B \in Int
      BY <1>1, <1>3
    <3> QED
      BY <1>1, <3>1
  <2>3. start(n) \in Int
    <3>1. n \in 1..n
      BY <1>3
    <3> HIDE DEF start
    <3> QED
      BY <1>5, <3>1
  <2> HIDE DEF start
  <2> QED
    BY <1>1, <2>1, <2>2, <2>3
<1> HIDE DEF start
<1>8. ASSUME NEW i \in 1..n
      PROVE  range(i) \in [from : Int, to : Int] /\ range(i).to <= to
  BY <1>1, <1>5
<1> HIDE DEF range
<1>9. b \in Seq([from : Int, to : Int]) /\ Len(b) = n /\ DOMAIN b = 1..n
  <2> DEFINE S == [from : Int, to : Int]
  <2>1. b \in [1..n -> S]
    BY <1>4, <1>8
  <2> HIDE DEF S
  <2>2. b \in Seq(S) /\ Len(b) = n /\ DOMAIN b = 1..n
    BY <1>3, <2>1
  <2> QED
    BY <2>2 DEF S
<1>10. b # <<>>
  BY <1>3, <1>9
<1>11. b[1].from = from
  <2>1. 1 \in 1..n /\ start(1) = from
    BY <1>1, <1>3 DEF start
  <2> QED
    BY <1>4, <1>5, <2>1
<1>12. ASSUME NEW i \in 1..(n - 1) PROVE b[i + 1].from = b[i].to + 1
  <2>1. i \in 1..n /\ i + 1 \in 1..n /\ i < n
    BY <1>3
  <2>2. b[i + 1].from = start(i) + B
    BY <1>4, <1>5, <2>1
  <2>3. b[i].to = start(i) + B - 1 /\ start(i) \in Int
    BY <1>4, <1>5, <1>6, <2>1
  <2> QED
    BY <1>1, <2>2, <2>3
<1>13. b[n].to = to
  <2>1. n \in 1..n
    BY <1>3
  <2>2. b[n] = range(n)
    BY <1>4, <2>1
  <2>3. /\ start(n) \in Int
        /\ range(n).to = IF start(n) + B - 1 <= to THEN start(n) + B - 1 ELSE to
    BY <1>5, <2>1
  <2> DEFINE m == start(n) + B - 1
  <2>4. m \in Int /\ to <= m
    BY <1>1, <1>7, <2>3
  <2>5. range(n).to = IF m <= to THEN m ELSE to
    BY <2>3
  <2> HIDE DEF m
  <2>6. range(n).to = to
    BY <2>4, <2>5
  <2> QED
    BY <2>2, <2>6
<1>14. ASSUME NEW i \in DOMAIN b PROVE from <= b[i].from /\ b[i].to <= to
  BY <1>4, <1>5, <1>8, <1>9
<1> QED
  BY <1>9, <1>10, <1>11, <1>12, <1>13, <1>14 DEF b

-----------------------------------------------------------------------------
(* The scan. *)

(* What taking the first of a sequence leaves. *)
LEMMA FirstTaken ==
    ASSUME NEW S, NEW q \in Seq(S), q # <<>>
    PROVE  /\ Head(q) = q[1] /\ Head(q) \in S /\ 1 \in DOMAIN q
           /\ Tail(q) \in Seq(S)
           /\ Len(Tail(q)) = Len(q) - 1
           /\ Len(q) \in Nat \ {0}
           /\ DOMAIN q = 1..Len(q)
           /\ \A i \in DOMAIN Tail(q) : i + 1 \in DOMAIN q /\ Tail(q)[i] = q[i + 1]
           /\ \A i \in DOMAIN q : i = 1 \/ (i - 1 \in DOMAIN Tail(q) /\ q[i] = Tail(q)[i - 1])
<1>1. Len(q) \in Nat \ {0} /\ DOMAIN q = 1..Len(q)
  BY LenProperties, EmptySeq
<1>2. Head(q) = q[1]
  OBVIOUS
<1>3. /\ Head(q) \in S
      /\ Tail(q) \in Seq(S)
      /\ Len(Tail(q)) = Len(q) - 1
      /\ \A i \in 1..Len(Tail(q)) : Tail(q)[i] = q[i + 1]
  BY HeadTailProperties
<1>4. DOMAIN Tail(q) = 1..(Len(q) - 1)
  BY <1>3, LenProperties
<1>5. \A i \in DOMAIN Tail(q) : i + 1 \in DOMAIN q /\ Tail(q)[i] = q[i + 1]
  BY <1>1, <1>3, <1>4
<1>6. ASSUME NEW i \in DOMAIN q, i # 1
      PROVE  i - 1 \in DOMAIN Tail(q) /\ q[i] = Tail(q)[i - 1]
  <2>1. i - 1 \in DOMAIN Tail(q) /\ i - 1 + 1 = i
    BY <1>1, <1>4, <1>6
  <2> QED
    BY <1>5, <2>1
<1> QED
  BY <1>1, <1>2, <1>3, <1>5, <1>6

(* When a batch is asked for, the next one follows it.                     *)
LEMMA NextBatch ==
    ASSUME BatchesInv, toBlock \in Int, batches # <<>>
    PROVE  LET b == Head(batches)
           IN  /\ b.from \in Int /\ b.to \in Int
               /\ nextBlock = b.from
               /\ fromBlock <= b.from /\ b.to <= toBlock
               /\ (IF Tail(batches) = <<>> THEN toBlock + 1 ELSE Tail(batches)[1].from) = b.to + 1
<1> DEFINE S == [from : Int, to : Int]
           t == Tail(batches)
<1>1. /\ batches \in Seq(S)
      /\ \A i \in DOMAIN batches : fromBlock <= batches[i].from /\ batches[i].to <= toBlock
      /\ \A i \in 1..(Len(batches) - 1) : batches[i + 1].from = batches[i].to + 1
      /\ batches[Len(batches)].to = toBlock
  BY DEF BatchesInv
<1>2. /\ Head(batches) = batches[1] /\ Head(batches) \in S /\ 1 \in DOMAIN batches
      /\ t \in Seq(S) /\ Len(t) = Len(batches) - 1 /\ Len(batches) \in Nat \ {0}
      /\ \A i \in DOMAIN t : i + 1 \in DOMAIN batches /\ t[i] = batches[i + 1]
  <2> HIDE DEF S
  <2> QED
    BY <1>1, FirstTaken
<1>3. CASE t = <<>>
  <2>1. Len(batches) = 1
    <3> HIDE DEF t
    <3> QED
      BY <1>2, <1>3, EmptySeq
  <2> QED
    BY <1>1, <1>2, <1>3, <2>1 DEF nextBlock
<1>4. CASE t # <<>>
  <2>1. 1 \in DOMAIN t /\ Len(t) \in Nat \ {0}
    <3> HIDE DEF S, t
    <3> QED
      BY <1>2, <1>4, FirstTaken
  <2>2. t[1] = batches[1 + 1] /\ 1 \in 1..(Len(batches) - 1)
    BY <1>2, <2>1
  <2>3. t[1].from = batches[1].to + 1
    BY <1>1, <2>2
  <2> HIDE DEF t
  <2> QED
    BY <1>1, <1>2, <1>4, <2>3 DEF nextBlock, t
<1> QED
  BY <1>3, <1>4

LEMMA BatchesNext == ArrayInv /\ BatchesInv /\ [Next]_vars => BatchesInv'
<1> SUFFICES ASSUME ArrayInv, BatchesInv, [Next]_vars PROVE BatchesInv'
  OBVIOUS
<1> DEFINE S == [from : Int, to : Int]
<1>1. CASE StartScan
  <2>1. /\ batches' = createBatches(fromBlock', toBlock')
        /\ fromBlock' \in Int /\ toBlock' \in Int
    BY <1>1, RangeNext DEF StartScan, RangeInv
  <2> DEFINE from == fromBlock'
             to == toBlock'
             b == createBatches(from, to)
  <2>2. /\ b \in Seq([from : Int, to : Int])
        /\ \A i \in DOMAIN b : from <= b[i].from /\ b[i].to <= to
        /\ \A i \in 1..(Len(b) - 1) : b[i + 1].from = b[i].to + 1
        /\ b[Len(b)].to = to
    <3> HIDE DEF from, to
    <3> QED
      BY <2>1, BatchesCover DEF from, to
  <2> HIDE DEF b
  <2> QED
    BY <2>1, <2>2 DEF BatchesInv, b
<1>2. CASE QueryBatch
  <2>1. batches # <<>> /\ batches' = Tail(batches) /\ UNCHANGED <<fromBlock, toBlock>>
    BY <1>2 DEF QueryBatch
  <2>2. /\ batches \in Seq(S)
        /\ \A i \in DOMAIN batches : fromBlock <= batches[i].from /\ batches[i].to <= toBlock
        /\ \A i \in 1..(Len(batches) - 1) : batches[i + 1].from = batches[i].to + 1
        /\ batches[Len(batches)].to = toBlock
    BY <2>1 DEF BatchesInv
  <2> DEFINE t == Tail(batches)
             n == Len(batches) - 1
  <2> HIDE DEF S
  <2>3. /\ t \in Seq(S) /\ Len(t) = n /\ n \in Nat /\ DOMAIN t = 1..n
        /\ DOMAIN batches = 1..(n + 1)
        /\ \A i \in DOMAIN t : i + 1 \in DOMAIN batches /\ t[i] = batches[i + 1]
    BY <2>1, <2>2, FirstTaken, LenProperties
  <2> HIDE DEF t, n
  <2>4. \A i \in DOMAIN t : fromBlock <= t[i].from /\ t[i].to <= toBlock
    BY <2>2, <2>3
  <2>5. ASSUME NEW i \in 1..(n - 1) PROVE t[i + 1].from = t[i].to + 1
    <3>1. /\ t[i] = batches[i + 1] /\ t[i + 1] = batches[i + 1 + 1]
      BY <2>3
    <3>2. i + 1 \in 1..(Len(batches) - 1)
      BY <2>3 DEF n
    <3> QED
      BY <2>2, <3>1, <3>2
  <2>6. ASSUME t # <<>> PROVE t[n].to = toBlock
    <3>1. n \in DOMAIN t
      BY <2>3, <2>6, EmptySeq
    <3>2. t[n] = batches[n + 1] /\ n + 1 = Len(batches)
      BY <2>3, <3>1, LenProperties DEF n
    <3> QED
      BY <2>2, <3>2
  <2> QED
    BY <2>1, <2>3, <2>4, <2>5, <2>6 DEF BatchesInv, t, S
<1>3. CASE UNCHANGED <<batches, fromBlock, toBlock>>
  BY <1>3 DEF BatchesInv
<1>4. CASE batches' = <<>>
  <2>1. <<>> \in Seq(S)
    OBVIOUS
  <2>2. DOMAIN <<>> = {} /\ 1..(Len(<<>>) - 1) = {}
    OBVIOUS
  <2> QED
    BY <1>4, <2>1, <2>2 DEF BatchesInv
<1>5. ASSUME NEW s \in todo, ProcessSlot(s) \/ SlotFails(s)
      PROVE  UNCHANGED <<batches, fromBlock, toBlock>>
  BY <1>5 DEF ProcessSlot, SlotFails
<1> QED
  BY <1>1, <1>2, <1>3, <1>4, <1>5
  DEF Next, BotStep, vars, scanVars, Environment, BeaconState, LookUpEvent, PushRequest,
      NothingEligible, SomeEligible, Cleanup, CycleFails, Rest

(* The events of a range are its requests, each once, oldest first. *)
LEMMA LogsOfRange ==
    ASSUME NEW from, NEW to, NEW q \in EventLogs(from, to)
    PROVE  /\ q \in Seq(Requests)
           /\ \A i \in DOMAIN q : q[i] \in ExitRequestsInBlocks(from, to)
           /\ \A r \in ExitRequestsInBlocks(from, to) : \E i \in DOMAIN q : q[i] = r
           /\ \A i, j \in DOMAIN q : i < j => deliveredAt[q[i]] <= deliveredAt[q[j]]
<1> DEFINE R == ExitRequestsInBlocks(from, to)
           n == Cardinality(R)
<1>1. R \in SUBSET Requests
  BY DEF ExitRequestsInBlocks
<1>2. n \in Nat
  <2> HIDE DEF R
  <2> QED
    BY <1>1, ScanAssumption, FS_Subset, FS_CardinalityType
<1>3. /\ q \in [1..n -> R]
      /\ \A r \in R : \E i \in DOMAIN q : q[i] = r
      /\ \A i, j \in DOMAIN q : i < j => deliveredAt[q[i]] <= deliveredAt[q[j]]
  BY DEF EventLogs
<1>4. q \in Seq(Requests)
  <2> HIDE DEF R, n
  <2>1. q \in [1..n -> Requests]
    BY <1>1, <1>3
  <2> QED
    BY <1>2, <2>1
<1> QED
  BY <1>3, <1>4

(* A step that leaves the scan as it is. *)
LEMMA HandStill ==
    ASSUME HandInv, ChainNext \/ ChainsStill,
           UNCHANGED <<events, results, batches, fromBlock, toBlock>>
    PROVE  HandInv'
<1>1. /\ \A i \in DOMAIN events : events[i] \in InHand /\ events[i] \in Requests
      /\ \A i \in DOMAIN results : results[i] \in InHand /\ results[i] \in Requests
  BY ScanAssumption DEF InHand, HandInv
<1>2. \A r \in InHand : r \in Requests /\ deliveredAt[r] > 0
  BY <1>1 DEF InHand, HandInv
<1>3. \A r \in InHand : deliveredAt'[r] = deliveredAt[r]
  BY <1>2, DeliveredStable DEF ChainsStill
<1>4. InHand' = InHand /\ nextBlock' = nextBlock
  BY DEF InHand, nextBlock
<1> QED
  BY <1>1, <1>3, <1>4 DEF HandInv

(* Nothing is in hand. *)
LEMMA HandEmpty ==
    ASSUME events' = <<>>, results' = <<>>
    PROVE  HandInv'
<1>1. <<>> \in Seq(Requests) /\ <<>> \in Seq(Direct) /\ DOMAIN <<>> = {}
  OBVIOUS
<1> QED
  BY <1>1 DEF HandInv, InHand

LEMMA HandQuery ==
    ASSUME ScanInv, QueryBatch
    PROVE  HandInv'
<1> DEFINE b == Head(batches)
<1>1. /\ batches # <<>> /\ batches' = Tail(batches)
      /\ results' = <<>>
      /\ events' \in EventLogs(b.from, b.to)
      /\ UNCHANGED <<deliveredAt, fromBlock, toBlock>>
  BY DEF QueryBatch, chainVars
<1>2. toBlock \in Nat /\ fromBlock \in Nat /\ deliveredAt \in [Requests -> Nat]
  BY DEF QueryBatch, Scanning, ScanInv, ArrayInv, RangeInv, ClockInv, ChainTypeOK
<1>3. /\ b.from \in Int /\ b.to \in Int
      /\ fromBlock <= b.from /\ b.to <= toBlock
      /\ nextBlock' = b.to + 1
  BY <1>1, <1>2, NextBatch DEF nextBlock, ScanInv
<1> HIDE DEF b
<1>4. /\ events' \in Seq(Requests)
      /\ \A i \in DOMAIN events' : events'[i] \in ExitRequestsInBlocks(b.from, b.to)
      /\ \A i, j \in DOMAIN events' :
            i < j => deliveredAt[events'[i]] <= deliveredAt[events'[j]]
  BY <1>1, LogsOfRange
<1>5. results' \in Seq(Direct) /\ DOMAIN results' = {}
  BY <1>1
<1>6. ASSUME NEW r \in InHand'
      PROVE  /\ deliveredAt[r] > 0 /\ fromBlock <= deliveredAt[r]
             /\ deliveredAt[r] <= toBlock /\ deliveredAt[r] < nextBlock'
  <2>1. r \in ExitRequestsInBlocks(b.from, b.to)
    BY <1>4, <1>5 DEF InHand
  <2>2. r \in Requests /\ deliveredAt[r] \in Nat
        /\ b.from <= deliveredAt[r] /\ deliveredAt[r] <= b.to /\ deliveredAt[r] > 0
    BY <1>2, <2>1 DEF ExitRequestsInBlocks
  <2> QED
    BY <1>2, <1>3, <2>2
<1> QED
  BY <1>1, <1>4, <1>5, <1>6 DEF HandInv

LEMMA HandLookUp ==
    ASSUME ScanInv, LookUpEvent
    PROVE  /\ HandInv'
           /\ \A r \in InHand : r \in InHand' \/ r \notin Direct \/ r \in unread'
<1> DEFINE r == Head(events)
           t == Tail(events)
<1>1. /\ events # <<>> /\ events' = t
      /\ UNCHANGED <<deliveredAt, fromBlock, toBlock, batches>>
      /\ \/ r \in Direct /\ results' = Append(results, r)
         \/ r \notin Direct /\ UNCHANGED results
         \/ r \in unread' /\ UNCHANGED results
  BY DEF LookUpEvent, chainVars
<1>2. events \in Seq(Requests) /\ results \in Seq(Direct)
  BY DEF ScanInv, HandInv
<1>3. /\ r = events[1] /\ r \in Requests /\ 1 \in DOMAIN events
      /\ t \in Seq(Requests)
      /\ DOMAIN events = 1..Len(events) /\ Len(events) \in Nat
      /\ \A i \in DOMAIN t : i + 1 \in DOMAIN events /\ t[i] = events[i + 1]
      /\ \A i \in DOMAIN events : i = 1 \/ (i - 1 \in DOMAIN t /\ events[i] = t[i - 1])
      /\ DOMAIN t = 1..(Len(events) - 1)
  <2>1. Len(t) = Len(events) - 1 /\ t \in Seq(Requests)
    BY <1>1, <1>2, FirstTaken
  <2>2. DOMAIN t = 1..(Len(events) - 1)
    BY <2>1, LenProperties
  <2> QED
    BY <1>1, <1>2, <2>2, FirstTaken
<1>4. /\ r \in InHand
      /\ \A i \in DOMAIN t : t[i] \in InHand
      /\ \A i \in DOMAIN results : results[i] \in InHand
  BY <1>3 DEF InHand
<1> HIDE DEF r, t
<1>5. nextBlock' = nextBlock
  BY <1>1 DEF nextBlock
<1>6. /\ \A i, j \in DOMAIN t : i < j => deliveredAt[t[i]] <= deliveredAt[t[j]]
      /\ \A j \in DOMAIN t : deliveredAt[r] <= deliveredAt[t[j]]
  <2>1. \A i, j \in DOMAIN events : i < j => deliveredAt[events[i]] <= deliveredAt[events[j]]
    BY DEF ScanInv, HandInv
  <2>2. ASSUME NEW i \in DOMAIN t, NEW j \in DOMAIN t, i < j
        PROVE  deliveredAt[t[i]] <= deliveredAt[t[j]]
    <3>1. /\ i + 1 \in DOMAIN events /\ j + 1 \in DOMAIN events /\ i + 1 < j + 1
          /\ t[i] = events[i + 1] /\ t[j] = events[j + 1]
      BY <1>3, <2>2
    <3> QED
      BY <2>1, <3>1
  <2>3. ASSUME NEW j \in DOMAIN t PROVE deliveredAt[r] <= deliveredAt[t[j]]
    <3>1. j + 1 \in DOMAIN events /\ 1 < j + 1 /\ t[j] = events[j + 1]
      BY <1>3
    <3> QED
      BY <1>3, <2>1, <3>1
  <2> QED
    BY <2>2, <2>3
<1>7. /\ \A i, j \in DOMAIN results : i < j => deliveredAt[results[i]] <= deliveredAt[results[j]]
      /\ \A i \in DOMAIN results : deliveredAt[results[i]] <= deliveredAt[r]
      /\ \A i \in DOMAIN results, j \in DOMAIN t :
            deliveredAt[results[i]] <= deliveredAt[t[j]]
      /\ DOMAIN results = 1..Len(results) /\ Len(results) \in Nat
  BY <1>2, <1>3, LenProperties DEF ScanInv, HandInv
<1>8. ASSUME NEW x \in InHand
      PROVE  /\ deliveredAt[x] > 0 /\ fromBlock <= deliveredAt[x]
             /\ deliveredAt[x] <= toBlock /\ deliveredAt[x] < nextBlock
  BY DEF ScanInv, HandInv
<1>9. CASE UNCHANGED results
  <2>1. \A x \in InHand' : x \in InHand
    BY <1>1, <1>4, <1>9 DEF InHand
  <2>2. HandInv'
    BY <1>1, <1>2, <1>3, <1>5, <1>6, <1>7, <1>8, <1>9, <2>1 DEF HandInv
  <2>3. ASSUME NEW x \in InHand, x # r PROVE x \in InHand'
    BY <1>1, <1>3, <1>9, <2>3 DEF InHand
  <2>4. r \notin Direct \/ r \in unread' \/ r \in InHand'
    <3>1. CASE r \in Direct /\ results' = Append(results, r)
      <4>1. Len(Append(results, r)) = Len(results) + 1
        BY <1>2, <3>1, AppendProperties
      <4> QED
        BY <1>7, <1>9, <3>1, <4>1
    <3> QED
      BY <1>1, <3>1
  <2> QED
    BY <2>2, <2>3, <2>4
<1>10. CASE r \in Direct /\ results' = Append(results, r)
  <2> DEFINE n == Len(results)
  <2>1. /\ results' \in Seq(Direct) /\ DOMAIN results' = 1..(n + 1) /\ n \in Nat
        /\ DOMAIN results = 1..n
        /\ \A i \in 1..n : results'[i] = results[i]
        /\ results'[n + 1] = r
    <3>1. /\ Append(results, r) \in Seq(Direct)
          /\ Len(Append(results, r)) = n + 1
          /\ \A i \in 1..n : Append(results, r)[i] = results[i]
          /\ Append(results, r)[n + 1] = r
      BY <1>2, <1>10, AppendProperties
    <3>2. DOMAIN Append(results, r) = 1..(n + 1)
      BY <3>1, LenProperties
    <3> QED
      BY <1>7, <1>10, <3>1, <3>2
  <2> HIDE DEF n
  <2>2. \A i \in DOMAIN results' : (i \in DOMAIN results /\ results'[i] = results[i])
                                   \/ (i = n + 1 /\ results'[i] = r)
    BY <2>1
  <2>3. \A x \in InHand' : x \in InHand
    BY <1>1, <1>4, <2>2 DEF InHand
  <2>4. ASSUME NEW i \in DOMAIN results', NEW j \in DOMAIN results', i < j
        PROVE  deliveredAt[results'[i]] <= deliveredAt[results'[j]]
    <3>1. i \in DOMAIN results /\ results'[i] = results[i]
      BY <2>1, <2>4
    <3> QED
      BY <1>7, <2>2, <2>4, <3>1
  <2>5. ASSUME NEW i \in DOMAIN results', NEW j \in DOMAIN t
        PROVE  deliveredAt[results'[i]] <= deliveredAt[t[j]]
    BY <1>6, <1>7, <2>2
  <2>6. HandInv'
    BY <1>1, <1>3, <1>5, <1>6, <1>8, <2>1, <2>3, <2>4, <2>5 DEF HandInv
  <2>7. ASSUME NEW x \in InHand PROVE x \in InHand'
    <3>1. CASE \E i \in DOMAIN results : x = results[i]
      BY <2>1, <3>1 DEF InHand
    <3>2. CASE x = r
      BY <2>1, <3>2 DEF InHand
    <3>3. CASE \E i \in DOMAIN t : x = t[i]
      BY <1>1, <3>3 DEF InHand
    <3> QED
      BY <1>3, <3>1, <3>2, <3>3 DEF InHand
  <2> QED
    BY <2>6, <2>7
<1> QED
  BY <1>1, <1>9, <1>10

LEMMA HandPush ==
    ASSUME ScanInv, PushRequest
    PROVE  /\ HandInv'
           /\ Head(results) \in InHand /\ Head(results) \in Direct
           /\ events = <<>>
           /\ \A x \in InHand : deliveredAt[Head(results)] <= deliveredAt[x]
           /\ \A x \in InHand : x = Head(results) \/ x \in InHand'
<1> DEFINE r == Head(results)
           t == Tail(results)
<1>1. /\ results # <<>> /\ results' = t /\ events = <<>> /\ events' = <<>>
      /\ UNCHANGED <<deliveredAt, fromBlock, toBlock, batches>>
  BY DEF PushRequest, chainVars
<1>2. results \in Seq(Direct) /\ deliveredAt \in [Requests -> Nat]
  BY DEF ScanInv, HandInv, ArrayInv, ClockInv, ChainTypeOK
<1>3. /\ r = results[1] /\ r \in Direct /\ 1 \in DOMAIN results
      /\ t \in Seq(Direct)
      /\ DOMAIN results = 1..Len(results) /\ Len(results) \in Nat
      /\ \A i \in DOMAIN t : i + 1 \in DOMAIN results /\ t[i] = results[i + 1]
      /\ \A i \in DOMAIN results : i = 1 \/ (i - 1 \in DOMAIN t /\ results[i] = t[i - 1])
      /\ DOMAIN t \subseteq Int
  <2>1. Len(t) = Len(results) - 1 /\ t \in Seq(Direct)
    BY <1>1, <1>2, FirstTaken
  <2>2. DOMAIN t = 1..(Len(results) - 1)
    BY <2>1, LenProperties
  <2> QED
    BY <1>1, <1>2, <2>2, FirstTaken
<1> HIDE DEF r, t
<1>4. DOMAIN events = {} /\ DOMAIN events' = {}
  BY <1>1
<1>5. /\ \A x \in InHand : \E i \in DOMAIN results : x = results[i]
      /\ \A x \in InHand' : \E i \in DOMAIN t : x = t[i]
      /\ \A i \in DOMAIN t : t[i] \in InHand'
  BY <1>1, <1>4 DEF InHand
<1>6. r \in InHand /\ \A x \in InHand' : x \in InHand
  BY <1>3, <1>5 DEF InHand
<1>7. ASSUME NEW x \in InHand PROVE x = r \/ x \in InHand'
  BY <1>3, <1>5
<1>8. \A i, j \in DOMAIN results : i < j => deliveredAt[results[i]] <= deliveredAt[results[j]]
  BY DEF ScanInv, HandInv
<1>9. ASSUME NEW x \in InHand PROVE deliveredAt[r] <= deliveredAt[x]
  <2>1. PICK i \in DOMAIN results : x = results[i]
    BY <1>5
  <2>2. CASE i = 1
    BY <1>2, <1>3, <2>1, <2>2, ScanAssumption
  <2>3. CASE i # 1
    <3>1. 1 < i /\ 1 \in DOMAIN results
      BY <1>3, <2>3
    <3>2. deliveredAt[results[1]] <= deliveredAt[results[i]]
      BY <1>8, <3>1
    <3> QED
      BY <1>3, <2>1, <3>2
  <2> QED
    BY <2>2, <2>3
<1>10. ASSUME NEW i \in DOMAIN t, NEW j \in DOMAIN t, i < j
       PROVE  deliveredAt[t[i]] <= deliveredAt[t[j]]
  <2>1. i + 1 < j + 1
    BY <1>3, <1>10
  <2> QED
    BY <1>3, <1>8, <2>1
<1>11. nextBlock' = nextBlock
  BY <1>1 DEF nextBlock
<1>12. events' \in Seq(Requests)
  BY <1>1
<1>13. HandInv'
  BY <1>1, <1>3, <1>4, <1>6, <1>10, <1>11, <1>12 DEF ScanInv, HandInv, t
<1> QED
  BY <1>1, <1>3, <1>6, <1>7, <1>9, <1>13 DEF r

LEMMA HandNext == ScanInv /\ [Next]_vars => HandInv'
<1> SUFFICES ASSUME ScanInv, [Next]_vars PROVE HandInv'
  OBVIOUS
<1>1. ASSUME NEW s \in todo, ProcessSlot(s) \/ SlotFails(s)
      PROVE  UNCHANGED <<events, results, batches, fromBlock, toBlock>>
  BY <1>1 DEF ProcessSlot, SlotFails
<1>2. CASE UNCHANGED <<events, results, batches, fromBlock, toBlock>>
  BY <1>2, StepKinds, HandStill DEF ScanInv
<1>3. CASE StartScan
  <2>1. events = <<>> /\ results = <<>>
    BY <1>3 DEF StartScan, ScanInv, ArrayInv, PhaseInv, Scanning
  <2> QED
    BY <1>3, <2>1, HandEmpty DEF StartScan
<1>4. CASE NothingEligible \/ Cleanup \/ CycleFails
  BY <1>4, HandEmpty DEF NothingEligible, Cleanup, CycleFails, Rest
<1> QED
  BY <1>1, <1>2, <1>3, <1>4, HandQuery, HandLookUp, HandPush
  DEF Next, BotStep, vars, scanVars, Environment, BeaconState, SomeEligible

(* A push files its request, and what is filed stays filed. *)
LEMMA PushFiles ==
    ASSUME UNCHANGED deliveredAt, NEW r \in Requests, GrownBy(r)
    PROVE  \A x \in Requests : x = r \/ Filed(x) => Filed(x)'
<1>1. \A x \in Requests : \A v : ExitDeadlineSlot(x, v)' = ExitDeadlineSlot(x, v)
  BY DEF ExitDeadlineSlot
<1>2. ASSUME NEW e \in decodeValidatorsData(r)
      PROVE  LET a == arrayAt(ExitDeadlineSlot(r, e.pubkey))'
             IN  \E i \in DOMAIN a : a[i].exitRequest = r /\ e \in entries(a[i])
  <2> DEFINE s == ExitDeadlineSlot(r, e.pubkey)
  <2>1. s \in Deadlines(deliveredAt[r], r) /\ s' = s
    BY <1>1 DEF Deadlines, ExitDeadlineSlot
  <2>2. PICK i \in DOMAIN slotMap'[s] : slotMap'[s][i] = groupFor(r, s)
    BY <2>1 DEF GrownBy
  <2>3. s \in DOMAIN slotMap'
    BY <2>1 DEF GrownBy
  <2>4. groupFor(r, s).exitRequest = r /\ e \in entries(groupFor(r, s))
    BY NewGroup
  <2> QED
    BY <2>1, <2>2, <2>3, <2>4 DEF arrayAt
<1>3. ASSUME NEW x \in Requests, Filed(x), NEW e \in decodeValidatorsData(x)
      PROVE  LET a == arrayAt(ExitDeadlineSlot(x, e.pubkey))'
             IN  \E i \in DOMAIN a : a[i].exitRequest = x /\ e \in entries(a[i])
  <2> DEFINE s == ExitDeadlineSlot(x, e.pubkey)
  <2>1. PICK i \in DOMAIN arrayAt(s) :
            arrayAt(s)[i].exitRequest = x /\ e \in entries(arrayAt(s)[i])
    BY <1>3 DEF Filed
  <2>2. s' = s
    BY <1>1
  <2> HIDE DEF s
  <2>3. s \in DOMAIN slotMap /\ i \in DOMAIN slotMap[s] /\ arrayAt(s) = slotMap[s]
    BY <2>1 DEF arrayAt
  <2>4. s \in DOMAIN slotMap' /\ i \in DOMAIN slotMap'[s] /\ slotMap'[s][i] = slotMap[s][i]
    BY <2>3 DEF GrownBy
  <2> QED
    BY <2>1, <2>2, <2>3, <2>4 DEF arrayAt, s
<1>4. Filed(r)'
  BY <1>2 DEF Filed, decodeValidatorsData, entries
<1>5. ASSUME NEW x \in Requests, Filed(x) PROVE Filed(x)'
  BY <1>3, <1>5 DEF Filed, decodeValidatorsData, entries
<1> QED
  BY <1>4, <1>5

LEMMA ProgressNext == ScanInv /\ [Next]_vars => ProgressInv'
<1> SUFFICES ASSUME ScanInv, [Next]_vars, pc' \in {"initScan", "beacon", "scan"},
                    NEW r \in Requests, r \in Direct, r \notin unread',
                    r \in ExitRequestsInBlocks(fromBlock, toBlock)'
             PROVE  deliveredAt'[r] >= nextBlock' \/ r \in InHand' \/ Filed(r)'
  <2>1. \A x : x \in ExitRequestsInBlocks(fromBlock, toBlock)' => x \in Requests
    BY DEF ExitRequestsInBlocks
  <2> QED
    BY <2>1 DEF ProgressInv
<1>0. /\ deliveredAt \in [Requests -> Nat] /\ head \in Nat
      /\ fromBlock' <= deliveredAt'[r] /\ deliveredAt'[r] <= toBlock' /\ deliveredAt'[r] > 0
  BY DEF ScanInv, ArrayInv, ClockInv, ChainTypeOK, ExitRequestsInBlocks
<1>1. ASSUME UNCHANGED <<deliveredAt, fromBlock, toBlock>>,
             pc \in {"initScan", "beacon", "scan"}, r \notin unread
      PROVE  deliveredAt[r] >= nextBlock \/ r \in InHand \/ Filed(r)
  BY <1>0, <1>1 DEF ScanInv, ProgressInv, ExitRequestsInBlocks
<1>2. CASE StartScan
  <2>1. batches' = createBatches(fromBlock', toBlock') /\ fromBlock' \in Int /\ toBlock' \in Int
    BY <1>2, RangeNext DEF StartScan, RangeInv, ScanInv
  <2>2. batches' # <<>> /\ batches'[1].from = fromBlock'
    BY <2>1, BatchesCover
  <2> QED
    BY <1>0, <2>2 DEF nextBlock
<1>3. CASE QueryBatch
  <2> DEFINE b == Head(batches)
  <2>1. /\ batches # <<>> /\ batches' = Tail(batches)
        /\ events = <<>> /\ results = <<>>
        /\ events' \in EventLogs(b.from, b.to)
        /\ UNCHANGED <<deliveredAt, fromBlock, toBlock, slotMap, unread>>
        /\ pc \in {"initScan", "beacon", "scan"}
    BY <1>3 DEF QueryBatch, chainVars, Scanning
  <2>2. toBlock \in Nat /\ deliveredAt[r] \in Nat
    BY <1>0, <2>1 DEF ScanInv, ArrayInv, RangeInv
  <2>3. /\ b.from \in Int /\ b.to \in Int
        /\ nextBlock = b.from
        /\ nextBlock' = b.to + 1
    BY <2>1, <2>2, NextBatch DEF nextBlock, ScanInv
  <2>4. InHand = {}
    BY <2>1 DEF InHand
  <2>5. CASE Filed(r)
    BY <2>1, <2>5 DEF Filed, ExitDeadlineSlot, arrayAt, decodeValidatorsData, entries
  <2>6. CASE deliveredAt[r] >= b.from /\ deliveredAt[r] <= b.to
    <3>1. r \in ExitRequestsInBlocks(b.from, b.to)
      BY <1>0, <2>1, <2>6 DEF ExitRequestsInBlocks
    <3>2. \E i \in DOMAIN events' : events'[i] = r
      <4> HIDE DEF b
      <4> QED
        BY <2>1, <3>1, LogsOfRange
    <3> QED
      BY <3>2 DEF InHand
  <2>7. CASE deliveredAt[r] > b.to
    BY <2>1, <2>2, <2>3, <2>7
  <2> HIDE DEF b
  <2> QED
    BY <1>1, <2>1, <2>2, <2>3, <2>4, <2>5, <2>6, <2>7
<1>4. CASE LookUpEvent
  <2>1. /\ UNCHANGED <<deliveredAt, fromBlock, toBlock, batches, slotMap>>
        /\ unread \subseteq unread'
        /\ pc \in {"initScan", "beacon", "scan"}
    BY <1>4 DEF LookUpEvent, chainVars, Scanning
  <2>2. deliveredAt[r] >= nextBlock \/ r \in InHand \/ Filed(r)
    BY <1>1, <2>1
  <2>3. nextBlock' = nextBlock
    BY <2>1 DEF nextBlock
  <2>4. CASE r \in InHand
    BY <1>4, <2>4, HandLookUp
  <2>5. CASE Filed(r)
    BY <2>1, <2>5 DEF Filed, ExitDeadlineSlot, arrayAt, decodeValidatorsData, entries
  <2> QED
    BY <2>1, <2>2, <2>3, <2>4, <2>5
<1>5. CASE PushRequest
  <2> DEFINE p == Head(results)
  <2>1. /\ UNCHANGED <<deliveredAt, fromBlock, toBlock, batches, unread>>
        /\ slotMap' = addToValidatorStorage(p)
        /\ pc \in {"initScan", "beacon", "scan"}
    BY <1>5 DEF PushRequest, chainVars, Scanning
  <2>2. /\ p \in Requests
        /\ \A x \in InHand : x = p \/ x \in InHand'
    BY <1>5, HandPush, ScanAssumption
  <2>3. GrownBy(p)
    BY <2>1, <2>2, PushGrows DEF ScanInv, ArrayInv
  <2>4. nextBlock' = nextBlock
    BY <2>1 DEF nextBlock
  <2> HIDE DEF p
  <2>5. r = p \/ Filed(r) => Filed(r)'
    BY <2>1, <2>2, <2>3, PushFiles
  <2> QED
    BY <1>1, <2>1, <2>2, <2>4, <2>5
<1>6. CASE BeaconState \/ UNCHANGED vars
  <2>1. /\ UNCHANGED <<deliveredAt, fromBlock, toBlock, batches, events, results, slotMap,
                       unread>>
        /\ pc \in {"initScan", "beacon", "scan"}
    BY <1>6 DEF BeaconState, vars, chainVars, scanVars
  <2>2. deliveredAt[r] >= nextBlock \/ r \in InHand \/ Filed(r)
    BY <1>1, <2>1
  <2> QED
    BY <2>1, <2>2
    DEF InHand, nextBlock, Filed, ExitDeadlineSlot, arrayAt, decodeValidatorsData, entries
<1>7. CASE Environment
  <2>1. /\ UNCHANGED <<fromBlock, toBlock, batches, events, results, slotMap, unread, pc>>
        /\ ChainNext
    BY <1>7 DEF Environment, scanVars
  <2>2. deliveredAt'[r] = deliveredAt[r]
    <3>1. toBlock \in Nat /\ toBlock <= head
      BY <2>1 DEF ScanInv, ArrayInv, RangeInv
    <3>2. deliveredAt'[r] # head + 1
      BY <1>0, <2>1, <3>1
    <3> QED
      BY <2>1, <3>2, NewlyDelivered DEF ScanInv, ArrayInv, ClockInv
  <2>3. deliveredAt[r] >= nextBlock \/ r \in InHand \/ Filed(r)
    BY <1>0, <2>1, <2>2 DEF ScanInv, ProgressInv, ExitRequestsInBlocks
  <2>4. \A v : ExitDeadlineSlot(r, v)' = ExitDeadlineSlot(r, v)
    BY <2>2 DEF ExitDeadlineSlot
  <2> QED
    BY <2>1, <2>2, <2>3, <2>4
    DEF InHand, nextBlock, Filed, arrayAt, decodeValidatorsData, entries
<1>8. ASSUME NEW s \in todo, ProcessSlot(s) \/ SlotFails(s) PROVE FALSE
  BY <1>8 DEF ProcessSlot, SlotFails
<1> QED
  BY <1>2, <1>3, <1>4, <1>5, <1>6, <1>7, <1>8
  DEF Next, BotStep, NothingEligible, SomeEligible, Cleanup, CycleFails, Rest

LEMMA ScanInit == Init => ScanInv
<1> SUFFICES ASSUME Init PROVE ScanInv
  OBVIOUS
<1>1. ArrayInv
  BY ArrayInit
<1>2. /\ <<>> \in Seq(Requests) /\ <<>> \in Seq(Direct) /\ <<>> \in Seq([from : Int, to : Int])
      /\ DOMAIN <<>> = {} /\ 1..(Len(<<>>) - 1) = {}
  OBVIOUS
<1> QED
  BY <1>1, <1>2 DEF Init, ScanInv, BatchesInv, HandInv, ProgressInv, InHand

LEMMA ScanNext == ScanInv /\ [Next]_vars => ScanInv'
BY ArrayNext, BatchesNext, HandNext, ProgressNext DEF ScanInv

(* A scan that is over has filed its range. *)
LEMMA ScanDone == ScanInv => ScanFilesRange
<1> SUFFICES ASSUME ScanInv, ScanOver,
                    NEW r \in (ExitRequestsInBlocks(fromBlock, toBlock) \cap Direct) \ unread
             PROVE  Filed(r)
  BY DEF ScanFilesRange
<1>1. /\ r \in Requests /\ deliveredAt[r] \in Nat /\ toBlock \in Nat
      /\ deliveredAt[r] <= toBlock
  BY DEF ExitRequestsInBlocks, ScanInv, ArrayInv, ClockInv, ChainTypeOK, RangeInv, ScanOver,
         Scanning
<1>2. nextBlock = toBlock + 1 /\ InHand = {}
  BY DEF ScanOver, nextBlock, InHand
<1> QED
  BY <1>1, <1>2 DEF ScanInv, ProgressInv, ScanOver, Scanning

(* processBatches loses no request: whatever the range, the batch size and *)
(* the failures before, each request delivered in the range of a scan that *)
(* is over is filed under the deadlines of all of its validators, unless   *)
(* its own lookups failed or its transaction calls another contract.       *)
THEOREM RangeIsFiled == Spec => []ScanFilesRange
<1>1. Init => ScanInv
  BY ScanInit
<1>2. ScanInv /\ [Next]_vars => ScanInv'
  BY ScanNext
<1>3. ScanInv => ScanFilesRange
  BY ScanDone
<1> QED
  BY <1>1, <1>2, <1>3, PTL DEF Spec


-----------------------------------------------------------------------------
(* The order of the groups. *)

LEMMA DeliveredByHeadNext ==
    ClockInv /\ DeliveredByHead /\ [Next]_vars => DeliveredByHead'
<1> SUFFICES ASSUME ClockInv, DeliveredByHead, [Next]_vars, NEW r \in Requests
             PROVE  deliveredAt'[r] <= head'
  BY DEF DeliveredByHead
<1>1. ChainTypeOK /\ deliveredAt[r] <= head /\ deliveredAt[r] \in Nat /\ head \in Nat
  BY DEF ClockInv, ChainTypeOK, DeliveredByHead
<1>2. CASE ChainNext
  <2>1. ASSUME NEW R \in SUBSET Requests, NewBlock(R) PROVE deliveredAt'[r] <= head'
    BY <1>1, <2>1 DEF NewBlock
  <2> QED
    BY <1>1, <1>2, <2>1 DEF ChainNext, Finalize, InitiateExit, MineLate
<1>3. CASE ChainsStill
  BY <1>1, <1>3 DEF ChainsStill
<1> QED
  BY <1>2, <1>3, StepKinds

(* What is filed is not scanned again from further back. *)
LEMMA NextFromGrows ==
    ASSUME FINALITY_DELAY <= LOOKBACK, ArrayInv, [Next]_vars
    PROVE  nextFrom \in Nat /\ nextFrom' \in Nat /\ nextFrom <= nextFrom'
<1>1. /\ ClockInv /\ RangeInv /\ head \in Nat /\ finalized \in Nat /\ lastProcessed \in Nat
      /\ lookbackBlock \in Nat /\ prevRoot \in Nat
  <2>1. ClockInv /\ head \in Nat /\ finalized \in Nat /\ lastProcessed \in Nat
    BY DEF ArrayInv, ClockInv, ChainTypeOK
  <2>2. lookbackBlock \in Nat
    BY <2>1, ScanAssumption DEF lookbackBlock
  <2> QED
    BY <2>1, <2>2 DEF ArrayInv, prevRoot
<1>2. nextFrom \in Nat
  BY <1>1 DEF nextFrom, RangeInv
<1>3. CASE Environment
  <2>1. ChainNext /\ UNCHANGED <<fromBlock, lastProcessed, pc>>
    BY <1>3 DEF Environment, scanVars
  <2>2. head' \in Nat /\ head <= head'
    BY <1>1, <2>1, HeadGrows DEF ClockInv
  <2>3. prevRoot' \in Nat /\ prevRoot <= prevRoot'
    BY <1>1, <2>1, <2>2, RootMoves
  <2> QED
    BY <1>1, <1>2, <2>1, <2>3 DEF nextFrom
<1>4. CASE StartScan
  <2>1. fromBlock' = nextFrom
    BY <1>4 DEF StartScan, nextFrom, prevRoot, ArrayInv, PhaseInv
  <2> QED
    BY <1>2, <1>4, <2>1 DEF StartScan, nextFrom
<1>5. CASE NothingEligible \/ Cleanup \/ CycleFails
  <2>1. /\ pc' = "idle" /\ UNCHANGED head /\ pc \notin {"init", "idle"}
        /\ \/ UNCHANGED lastProcessed
           \/ pc # "initScan" /\ lastProcessed' = toBlock
    BY <1>5 DEF NothingEligible, Cleanup, CycleFails, Rest, chainVars, ScanOver, Scanning
  <2>2. nextFrom = fromBlock /\ nextFrom' = prevRoot'
    BY <2>1 DEF nextFrom
  <2>3. CASE UNCHANGED lastProcessed
    <3>1. prevRoot' = prevRoot
      BY <2>1, <2>3 DEF prevRoot, lookbackBlock
    <3> QED
      BY <1>1, <2>1, <2>2, <3>1 DEF RangeInv
  <2>4. CASE pc # "initScan" /\ lastProcessed' = toBlock
    <3>1. fromBlock \in Nat /\ toBlock \in Nat /\ 1 <= fromBlock /\ fromBlock <= toBlock
      BY <1>1, <2>1, <2>4 DEF RangeInv
    <3>2. prevRoot' = toBlock
      BY <2>4, <3>1 DEF prevRoot
    <3> QED
      BY <2>2, <3>1, <3>2
  <2> QED
    BY <2>1, <2>3, <2>4
<1>7. ASSUME UNCHANGED fromBlock, pc \notin {"init", "idle"}, pc' \notin {"init", "idle"}
      PROVE  UNCHANGED nextFrom
  BY <1>7 DEF nextFrom
<1>8. CASE BeaconState \/ QueryBatch \/ LookUpEvent \/ PushRequest \/ SomeEligible
  <2>1. UNCHANGED fromBlock /\ pc \notin {"init", "idle"} /\ pc' \notin {"init", "idle"}
    BY <1>8 DEF BeaconState, QueryBatch, LookUpEvent, PushRequest, SomeEligible, Scanning
  <2> QED
    BY <1>2, <1>7, <2>1
<1>9. ASSUME NEW s \in todo, ProcessSlot(s) \/ SlotFails(s)
      PROVE  nextFrom' \in Nat /\ nextFrom <= nextFrom'
  <2>1. UNCHANGED fromBlock /\ pc \notin {"init", "idle"} /\ pc' \notin {"init", "idle"}
    BY <1>9 DEF ProcessSlot, SlotFails
  <2> QED
    BY <1>2, <1>7, <2>1
<1>10. CASE UNCHANGED vars
  BY <1>2, <1>10 DEF vars, scanVars, chainVars, nextFrom, prevRoot, lookbackBlock
<1> QED
  BY <1>2, <1>3, <1>4, <1>5, <1>8, <1>9, <1>10 DEF Next, BotStep

(* A stored group is of a request delivered for good, with validators.     *)
LEMMA GroupDelivered ==
    ASSUME ArrayInv, NEW s \in DOMAIN slotMap, NEW i \in DOMAIN slotMap[s]
    PROVE  /\ slotMap[s][i].exitRequest \in Requests
           /\ deliveredAt[slotMap[s][i].exitRequest] \in Nat
           /\ pubkeys(entries(slotMap[s][i])) \subseteq Validators
           /\ \A v \in pubkeys(entries(slotMap[s][i])) : DueIn(v, slotMap[s][i].exitRequest, s)
           /\ [Next]_vars => deliveredAt'[slotMap[s][i].exitRequest]
                                = deliveredAt[slotMap[s][i].exitRequest]
<1> DEFINE g == slotMap[s][i]
<1>1. /\ g.exitRequest \in Requests /\ entries(g) \subseteq Entry /\ entries(g) # {}
      /\ \A e \in entries(g) : DueIn(e.pubkey, g.exitRequest, s)
      /\ deliveredAt \in [Requests -> Nat]
  BY DEF ArrayInv, StoreInv, GroupsPure, ClockInv, ChainTypeOK
<1>2. pubkeys(entries(g)) \subseteq Validators
  BY <1>1, PubkeysType
<1>3. \A v \in pubkeys(entries(g)) : DueIn(v, g.exitRequest, s)
  BY <1>1 DEF pubkeys
<1>4. ASSUME [Next]_vars PROVE deliveredAt'[g.exitRequest] = deliveredAt[g.exitRequest]
  <2>1. ChainNext \/ ChainsStill
    BY <1>4, StepKinds
  <2>2. PICK e \in entries(g) : DueIn(e.pubkey, g.exitRequest, s)
    BY <1>1
  <2> HIDE DEF g
  <2>3. \A v : \A r \in Requests : DueIn(v, r, s) => deliveredAt'[r] = deliveredAt[r]
    BY <2>1, DueStable
  <2> QED
    BY <1>1, <2>2, <2>3
<1> QED
  BY <1>1, <1>2, <1>3, <1>4

(* Arrays keep their groups in their places, except in the cleanup. *)
PlacesKept ==
    /\ DOMAIN slotMap \subseteq DOMAIN slotMap'
    /\ \A s \in DOMAIN slotMap : \A i \in DOMAIN slotMap[s] :
            i \in DOMAIN slotMap'[s] /\ slotMap'[s][i] = slotMap[s][i]

LEMMA PushOfHead ==
    ASSUME ScanInv, PushRequest
    PROVE  /\ GrownBy(Head(results))
           /\ Head(results) \in Direct /\ Head(results) \in Requests
<1>1. Head(results) \in Direct /\ Head(results) \in Requests
  BY HandPush, ScanAssumption
<1> QED
  BY <1>1, PushGrows DEF PushRequest, ScanInv, ArrayInv

LEMMA PlacesStay ==
    ASSUME ScanInv, [Next]_vars, ~Cleanup
    PROVE  PlacesKept
<1>1. CASE PushRequest
  BY <1>1, PushOfHead DEF GrownBy, PlacesKept
<1>2. CASE UNCHANGED slotMap
  BY <1>2 DEF PlacesKept
<1> QED
  BY <1>1, <1>2, ArraysStill

(* What stands ahead of a place stays there. *)
LEMMA AheadStays ==
    ASSUME ArrayInv, [Next]_vars, PlacesKept,
           NEW s \in DOMAIN slotMap, NEW k, NEW v \in Validators, NEW t, Ahead(s, k, v, t)
    PROVE  Ahead(s, k, v, t)'
<1>1. CASE Closed(v, s)
  BY <1>1, StepKinds, ClosedStable DEF Ahead, ArrayInv, ClockInv
<1>2. CASE ~Closed(v, s)
  <2>1. PICK i \in DOMAIN slotMap[s] :
            /\ i < k
            /\ deliveredAt[slotMap[s][i].exitRequest] <= t
            /\ v \in pubkeys(entries(slotMap[s][i]))
    BY <1>2 DEF Ahead
  <2>2. /\ i \in DOMAIN slotMap'[s] /\ slotMap'[s][i] = slotMap[s][i]
        /\ deliveredAt'[slotMap[s][i].exitRequest] = deliveredAt[slotMap[s][i].exitRequest]
    BY <2>1, GroupDelivered DEF PlacesKept
  <2> QED
    BY <2>1, <2>2 DEF Ahead, pubkeys, entries
<1> QED
  BY <1>1, <1>2


(* The order, when no group comes or goes. *)
LEMMA OrderStill ==
    ASSUME FINALITY_DELAY <= LOOKBACK, ScanInv, DeliveredByHead, [Next]_vars,
           UNCHANGED slotMap, StoredInOrder, ToBeFiledInOrder
    PROVE  StoredInOrder' /\ ToBeFiledInOrder'
<1>1. ArrayInv /\ PlacesKept
  BY DEF ScanInv, PlacesKept
<1>2. ASSUME NEW s \in DOMAIN slotMap, NEW i \in DOMAIN slotMap[s]
      PROVE  /\ deliveredAt'[slotMap[s][i].exitRequest] = deliveredAt[slotMap[s][i].exitRequest]
             /\ deliveredAt[slotMap[s][i].exitRequest] \in Nat
             /\ deliveredAt[slotMap[s][i].exitRequest] <= head
  BY <1>1, GroupDelivered DEF DeliveredByHead
<1>3. ASSUME NEW s \in DOMAIN slotMap, NEW k \in DOMAIN slotMap[s], NEW j \in DOMAIN slotMap[s],
             k < j,
             deliveredAt'[slotMap[s][j].exitRequest] < deliveredAt'[slotMap[s][k].exitRequest],
             NEW v \in pubkeys(entries(slotMap[s][j]))
      PROVE  \A t \in {deliveredAt[slotMap[s][j].exitRequest]} : Ahead(s, k, v, t)'
  <2>1. v \in Validators
    BY <1>1, GroupDelivered
  <2>2. Ahead(s, k, v, deliveredAt[slotMap[s][j].exitRequest])
    BY <1>2, <1>3 DEF StoredInOrder
  <2>3. \A t : Ahead(s, k, v, t) => Ahead(s, k, v, t)'
    BY <1>1, <2>1, AheadStays
  <2> QED
    BY <2>2, <2>3
<1>4. StoredInOrder'
  BY <1>2, <1>3 DEF StoredInOrder, pubkeys, entries
<1>5. ASSUME NEW r \in Direct, NEW v \in pubkeys(decodeValidatorsData(r)),
             deliveredAt'[r] > 0, deliveredAt'[r] >= nextFrom',
             NEW s \in DOMAIN slotMap, s = ExitDeadlineSlot(r, v)',
             NEW k \in DOMAIN slotMap[s],
             deliveredAt'[r] < deliveredAt'[slotMap[s][k].exitRequest]
      PROVE  \A t \in {deliveredAt[r]} : t = deliveredAt'[r] /\ Ahead(s, k, v, t)'
  <2>1. r \in Requests /\ v \in Validators
    <3>1. r \in Requests
      BY ScanAssumption
    <3> QED
      BY <3>1, DecodedType, PubkeysType
  <2>2. /\ nextFrom \in Nat /\ nextFrom' \in Nat /\ nextFrom <= nextFrom'
        /\ deliveredAt[r] \in Nat /\ head \in Nat
    BY <1>1, <2>1, NextFromGrows DEF ArrayInv, ClockInv, ChainTypeOK
  <2>3. deliveredAt'[r] = deliveredAt[r]
    <3>1. CASE ChainNext /\ deliveredAt'[r] # deliveredAt[r]
      <4>1. deliveredAt'[r] = head + 1
        BY <1>1, <2>1, <3>1, NewlyDelivered DEF ArrayInv, ClockInv
      <4> QED
        BY <1>2, <1>5, <2>2, <4>1
    <3> QED
      BY <3>1, StepKinds DEF ChainsStill
  <2>4. s = ExitDeadlineSlot(r, v)
    BY <1>5, <2>3 DEF ExitDeadlineSlot
  <2>5. Ahead(s, k, v, deliveredAt[r])
    BY <1>2, <1>5, <2>2, <2>3, <2>4 DEF ToBeFiledInOrder
  <2>6. \A t : Ahead(s, k, v, t) => Ahead(s, k, v, t)'
    BY <1>1, <2>1, AheadStays
  <2> QED
    BY <2>3, <2>5, <2>6
<1>6. ToBeFiledInOrder'
  <2> SUFFICES ASSUME NEW r \in Direct, NEW v \in pubkeys(decodeValidatorsData(r)),
                      deliveredAt'[r] > 0, deliveredAt'[r] >= nextFrom',
                      ExitDeadlineSlot(r, v)' \in DOMAIN slotMap,
                      NEW k \in DOMAIN slotMap[ExitDeadlineSlot(r, v)'],
                      deliveredAt'[r]
                        < deliveredAt'[slotMap[ExitDeadlineSlot(r, v)'][k].exitRequest]
               PROVE  \A s \in {ExitDeadlineSlot(r, v)'} : \A t \in {deliveredAt'[r]} :
                            Ahead(s, k, v, t)'
    BY DEF ToBeFiledInOrder, pubkeys, decodeValidatorsData
  <2> QED
    BY <1>5
<1> QED
  BY <1>4, <1>6

(* The order, when a request is pushed: of those older than it, none of    *)
(* the range is missing.                                                   *)
LEMMA OrderPush ==
    ASSUME FINALITY_DELAY <= LOOKBACK, ScanInv, PushRequest, unread = {},
           StoredInOrder, ToBeFiledInOrder
    PROVE  StoredInOrder' /\ ToBeFiledInOrder'
<1> DEFINE p == Head(results)
<1>1. /\ UNCHANGED deliveredAt /\ nextFrom' = nextFrom
      /\ nextFrom = fromBlock
      /\ pc \in {"initScan", "scan"}
  BY DEF PushRequest, chainVars, nextFrom, prevRoot, Scanning
<1>2. /\ GrownBy(p) /\ p \in Direct /\ p \in Requests /\ p \in InHand
      /\ \A x \in InHand : deliveredAt[p] <= deliveredAt[x]
  BY PushOfHead, HandPush
<1> HIDE DEF p
<1>3. ArrayInv /\ PlacesKept /\ [Next]_vars /\ deliveredAt \in [Requests -> Nat]
  BY PlacesStay, <1>2 DEF ScanInv, ArrayInv, ClockInv, ChainTypeOK, Next, BotStep, GrownBy,
                          PlacesKept
<1>4. /\ deliveredAt[p] > 0 /\ fromBlock <= deliveredAt[p]
      /\ deliveredAt[p] <= toBlock /\ deliveredAt[p] < nextBlock
      /\ fromBlock \in Nat /\ toBlock \in Nat
  BY <1>1, <1>2 DEF ScanInv, HandInv, ArrayInv, RangeInv
<1>5. ASSUME NEW s \in DOMAIN slotMap, NEW k, NEW v \in Validators, NEW t, Ahead(s, k, v, t)
      PROVE  Ahead(s, k, v, t)'
  BY <1>3, <1>5, AheadStays
<1>6. ASSUME NEW s \in DOMAIN slotMap', NEW k \in DOMAIN slotMap'[s]
      PROVE  \/ /\ s \in DOMAIN slotMap /\ k \in DOMAIN slotMap[s]
                /\ slotMap'[s][k] = slotMap[s][k]
             \/ /\ ~(s \in DOMAIN slotMap /\ k \in DOMAIN slotMap[s])
                /\ slotMap'[s][k] = groupFor(p, s)
                /\ slotMap'[s][k].exitRequest = p
                /\ \A j \in DOMAIN slotMap'[s] : j <= k
  BY <1>2, NewGroup DEF GrownBy
<1>7. ASSUME NEW s \in DOMAIN slotMap' PROVE DOMAIN slotMap'[s] \subseteq Int
  BY <1>2, ArrayParts DEF GrownBy
<1>8. ASSUME NEW s \in DOMAIN slotMap', NEW k \in DOMAIN slotMap'[s],
             NEW j \in DOMAIN slotMap'[s], k < j,
             deliveredAt[slotMap'[s][j].exitRequest] < deliveredAt[slotMap'[s][k].exitRequest],
             NEW v \in pubkeys(entries(slotMap'[s][j]))
      PROVE  \A t \in {deliveredAt[slotMap'[s][j].exitRequest]} : Ahead(s, k, v, t)'
  <2>1. /\ s \in DOMAIN slotMap /\ k \in DOMAIN slotMap[s]
        /\ slotMap'[s][k] = slotMap[s][k]
    BY <1>6, <1>7, <1>8
  <2>2. CASE j \in DOMAIN slotMap[s] /\ slotMap'[s][j] = slotMap[s][j]
    <3>1. v \in Validators
      BY <1>3, <1>8, <2>1, <2>2, GroupDelivered
    <3>2. Ahead(s, k, v, deliveredAt[slotMap[s][j].exitRequest])
      BY <1>8, <2>1, <2>2 DEF StoredInOrder
    <3> QED
      BY <1>5, <2>1, <2>2, <3>1, <3>2
  <2>3. CASE slotMap'[s][j] = groupFor(p, s)
    <3>1. /\ v \in pubkeys(decodeValidatorsData(p)) /\ ExitDeadlineSlot(p, v) = s
          /\ slotMap'[s][j].exitRequest = p
      BY <1>2, <1>8, <2>3, NewGroup DEF pubkeys
    <3>2. v \in Validators
      BY <1>2, <3>1, DecodedType, PubkeysType
    <3>3. Ahead(s, k, v, deliveredAt[p])
      BY <1>1, <1>2, <1>4, <1>8, <2>1, <3>1 DEF ToBeFiledInOrder
    <3> QED
      BY <1>5, <2>1, <3>1, <3>2, <3>3
  <2> QED
    BY <1>6, <2>2, <2>3
<1>9. StoredInOrder'
  BY <1>1, <1>8 DEF StoredInOrder, pubkeys, entries
<1>10. ASSUME NEW r \in Direct, NEW v \in pubkeys(decodeValidatorsData(r)),
              deliveredAt[r] > 0, deliveredAt[r] >= nextFrom,
              NEW s \in DOMAIN slotMap', s = ExitDeadlineSlot(r, v),
              NEW k \in DOMAIN slotMap'[s],
              deliveredAt[r] < deliveredAt[slotMap'[s][k].exitRequest]
       PROVE  \A t \in {deliveredAt[r]} : Ahead(s, k, v, t)'
  <2>1. r \in Requests /\ v \in Validators /\ deliveredAt[r] \in Nat
    <3>1. r \in Requests
      BY ScanAssumption
    <3> QED
      BY <1>3, <3>1, DecodedType, PubkeysType
  <2>2. CASE s \in DOMAIN slotMap /\ k \in DOMAIN slotMap[s] /\ slotMap'[s][k] = slotMap[s][k]
    <3>1. Ahead(s, k, v, deliveredAt[r])
      BY <1>10, <2>2 DEF ToBeFiledInOrder
    <3> QED
      BY <1>5, <2>1, <2>2, <3>1
  <2>3. CASE /\ ~(s \in DOMAIN slotMap /\ k \in DOMAIN slotMap[s])
             /\ slotMap'[s][k].exitRequest = p
             /\ \A j \in DOMAIN slotMap'[s] : j <= k
    <3>1. deliveredAt[r] < deliveredAt[p] /\ deliveredAt[p] \in Nat
      BY <1>2, <1>3, <1>10, <2>3
    <3>2. r \in (ExitRequestsInBlocks(fromBlock, toBlock) \cap Direct) \ unread
      BY <1>1, <1>4, <1>10, <2>1, <3>1 DEF ExitRequestsInBlocks
    <3>3. deliveredAt[r] >= nextBlock \/ r \in InHand \/ Filed(r)
      BY <1>1, <3>2 DEF ScanInv, ProgressInv
    <3>4. Filed(r)
      <4>1. r \notin InHand
        BY <1>2, <2>1, <3>1
      <4>2. nextBlock \in Int
        <5> DEFINE S == [from : Int, to : Int]
        <5>1. batches \in Seq(S)
          BY DEF ScanInv, BatchesInv
        <5>2. batches # <<>> => batches[1] \in S
          <6> HIDE DEF S
          <6> QED
            BY <5>1
        <5> QED
          BY <1>4, <5>2 DEF nextBlock
      <4> QED
        BY <1>4, <2>1, <3>1, <3>3, <4>1, <4>2
    <3>5. PICK e \in decodeValidatorsData(r) : e.pubkey = v
      BY DEF pubkeys
    <3>6. PICK i \in DOMAIN arrayAt(s) :
                arrayAt(s)[i].exitRequest = r /\ e \in entries(arrayAt(s)[i])
      BY <1>10, <3>4, <3>5 DEF Filed
    <3>7. s \in DOMAIN slotMap /\ i \in DOMAIN slotMap[s] /\ arrayAt(s) = slotMap[s]
      BY <3>6 DEF arrayAt
    <3>8. /\ i \in DOMAIN slotMap'[s] /\ slotMap'[s][i] = slotMap[s][i]
          /\ i < k
      <4>1. i \in DOMAIN slotMap'[s] /\ slotMap'[s][i] = slotMap[s][i]
        BY <1>3, <3>7 DEF PlacesKept
      <4>2. i \in Int /\ k \in Int /\ i # k /\ i <= k
        BY <1>7, <2>3, <3>7, <4>1
      <4> QED
        BY <4>1, <4>2
    <3>9. /\ deliveredAt[slotMap'[s][i].exitRequest] <= deliveredAt[r]
          /\ v \in pubkeys(entries(slotMap'[s][i]))
      BY <2>1, <3>5, <3>6, <3>7, <3>8 DEF pubkeys
    <3> QED
      BY <1>1, <3>8, <3>9 DEF Ahead, pubkeys, entries
  <2> QED
    BY <1>6, <2>2, <2>3
<1>11. ToBeFiledInOrder'
  <2> SUFFICES ASSUME NEW r \in Direct, NEW v \in pubkeys(decodeValidatorsData(r)),
                      deliveredAt[r] > 0, deliveredAt[r] >= nextFrom,
                      ExitDeadlineSlot(r, v) \in DOMAIN slotMap',
                      NEW k \in DOMAIN slotMap'[ExitDeadlineSlot(r, v)],
                      deliveredAt[r]
                        < deliveredAt[slotMap'[ExitDeadlineSlot(r, v)][k].exitRequest]
               PROVE  \A s \in {ExitDeadlineSlot(r, v)} : \A t \in {deliveredAt[r]} :
                            Ahead(s, k, v, t)'
    <3>1. \A r : \A v : ExitDeadlineSlot(r, v)' = ExitDeadlineSlot(r, v)
      BY <1>1 DEF ExitDeadlineSlot
    <3> QED
      BY <1>1, <3>1 DEF ToBeFiledInOrder, pubkeys, decodeValidatorsData
  <2> QED
    BY <1>10
<1> QED
  BY <1>9, <1>11


(* The cleanup keeps the order of the groups it leaves, and drops one from *)
(* ahead of another only where nothing is left to do.                      *)
LEMMA AheadCleaned ==
    ASSUME ScanInv, Cleanup, Cleaned, ProcessedDone,
           NEW s \in DOMAIN slotMap', NEW k \in DOMAIN slotMap'[s],
           NEW v \in Validators, NEW t, Ahead(s, placeBefore(s, k), v, t)
    PROVE  Ahead(s, k, v, t)'
<1>1. /\ ArrayInv /\ s \in DOMAIN slotMap /\ placeBefore(s, k) \in DOMAIN slotMap[s]
      /\ UNCHANGED <<chainVars>>
      /\ pc = "slots" /\ todo = {}
  BY DEF ScanInv, Cleaned, Cleanup
<1>2. CASE Closed(v, s)
  BY <1>1, <1>2, ClosedStable DEF Ahead, ArrayInv, ClockInv, ChainsStill, chainVars
<1>3. CASE ~Closed(v, s)
  <2>1. PICK i \in DOMAIN slotMap[s] :
            /\ i < placeBefore(s, k)
            /\ deliveredAt[slotMap[s][i].exitRequest] <= t
            /\ v \in pubkeys(entries(slotMap[s][i]))
    BY <1>3 DEF Ahead
  <2>2. PICK e \in entries(slotMap[s][i]) : e.pubkey = v
    BY <2>1 DEF pubkeys
  <2>3. e \in keptOf(s, slotMap[s][i])
    <3>1. CASE s \in eligible
      <4>1. e \in allEntries(s)
        BY <2>2 DEF allEntries
      <4>2. v \in pubkeys(allEntries(s))
        BY <2>2, <4>1 DEF pubkeys
      <4>3. v \in reported
        BY <1>1, <1>3, <3>1, <4>2 DEF ProcessedDone
      <4> QED
        BY <2>1, <2>2, <3>1, <4>1, <4>3 DEF keptOf
    <3>2. CASE s \notin eligible
      BY <2>2, <3>2 DEF keptOf
    <3> QED
      BY <3>1, <3>2
  <2>4. PICK l \in DOMAIN slotMap'[s] : placeBefore(s, l) = i
    BY <1>1, <2>3 DEF Cleaned
  <2>5. /\ slotMap'[s][l].exitRequest = slotMap[s][i].exitRequest
        /\ e \in entries(slotMap'[s][l])
    BY <2>3, <2>4 DEF Cleaned
  <2>6. l < k
    <3>1. /\ DOMAIN slotMap'[s] \subseteq Int /\ DOMAIN slotMap[s] \subseteq Int
      BY <1>1, ArrayParts DEF Cleaned, ArrayInv, StoreInv
    <3>2. k < l => placeBefore(s, k) < placeBefore(s, l)
      BY DEF Cleaned
    <3>3. placeBefore(s, k) \in Int /\ i \in Int /\ k \in Int /\ l \in Int
      BY <1>1, <3>1
    <3> HIDE DEF placeBefore
    <3> QED
      BY <2>1, <2>4, <3>2, <3>3
  <2> QED
    BY <1>1, <2>1, <2>2, <2>5, <2>6 DEF Ahead, pubkeys, entries, chainVars
<1> QED
  BY <1>2, <1>3

LEMMA OrderCleaned ==
    ASSUME FINALITY_DELAY <= LOOKBACK, ScanInv, Cleanup, StoredInOrder, ToBeFiledInOrder,
           ProcessedDone
    PROVE  StoredInOrder' /\ ToBeFiledInOrder'
<1>1. /\ ArrayInv /\ Cleaned /\ UNCHANGED deliveredAt
      /\ nextFrom \in Nat /\ nextFrom' \in Nat /\ nextFrom <= nextFrom'
      /\ deliveredAt \in [Requests -> Nat]
  BY CleanupCleans, NextFromGrows
  DEF ScanInv, ArrayInv, ClockInv, ChainTypeOK, Cleanup, chainVars, Next, BotStep
<1>2. ASSUME NEW s \in DOMAIN slotMap', NEW k \in DOMAIN slotMap'[s]
      PROVE  /\ s \in DOMAIN slotMap /\ placeBefore(s, k) \in DOMAIN slotMap[s]
             /\ slotMap'[s][k].exitRequest = slotMap[s][placeBefore(s, k)].exitRequest
             /\ \A v \in pubkeys(entries(slotMap'[s][k])) :
                    /\ v \in pubkeys(entries(slotMap[s][placeBefore(s, k)]))
                    /\ v \in Validators
             /\ \A v \in Validators : \A t : Ahead(s, placeBefore(s, k), v, t)
                                                => Ahead(s, k, v, t)'
  <2>1. /\ s \in DOMAIN slotMap /\ placeBefore(s, k) \in DOMAIN slotMap[s]
        /\ slotMap'[s][k].exitRequest = slotMap[s][placeBefore(s, k)].exitRequest
        /\ entries(slotMap'[s][k]) = keptOf(s, slotMap[s][placeBefore(s, k)])
    BY <1>1 DEF Cleaned
  <2>2. ASSUME NEW v \in pubkeys(entries(slotMap'[s][k]))
        PROVE  v \in pubkeys(entries(slotMap[s][placeBefore(s, k)])) /\ v \in Validators
    <3>1. v \in pubkeys(entries(slotMap[s][placeBefore(s, k)]))
      BY <2>1, <2>2 DEF keptOf, pubkeys
    <3> QED
      BY <1>1, <2>1, <3>1, GroupDelivered
  <2> QED
    BY <1>1, <2>1, <2>2, AheadCleaned
<1>3. ASSUME NEW s \in DOMAIN slotMap', NEW k \in DOMAIN slotMap'[s],
             NEW j \in DOMAIN slotMap'[s], k < j,
             deliveredAt[slotMap'[s][j].exitRequest] < deliveredAt[slotMap'[s][k].exitRequest],
             NEW v \in pubkeys(entries(slotMap'[s][j]))
      PROVE  \A t \in {deliveredAt[slotMap'[s][j].exitRequest]} : Ahead(s, k, v, t)'
  <2>1. placeBefore(s, k) < placeBefore(s, j)
    BY <1>1, <1>3 DEF Cleaned
  <2>2. Ahead(s, placeBefore(s, k), v, deliveredAt[slotMap'[s][j].exitRequest])
    BY <1>2, <1>3, <2>1 DEF StoredInOrder
  <2> QED
    BY <1>2, <2>2
<1>4. StoredInOrder'
  BY <1>1, <1>3 DEF StoredInOrder, pubkeys, entries
<1>5. ASSUME NEW r \in Direct, NEW v \in pubkeys(decodeValidatorsData(r)),
             deliveredAt[r] > 0, deliveredAt[r] >= nextFrom',
             NEW s \in DOMAIN slotMap', s = ExitDeadlineSlot(r, v),
             NEW k \in DOMAIN slotMap'[s],
             deliveredAt[r] < deliveredAt[slotMap'[s][k].exitRequest]
      PROVE  \A t \in {deliveredAt[r]} : Ahead(s, k, v, t)'
  <2>1. r \in Requests /\ v \in Validators /\ deliveredAt[r] \in Nat
    <3>1. r \in Requests
      BY ScanAssumption
    <3> QED
      BY <1>1, <3>1, DecodedType, PubkeysType
  <2>2. Ahead(s, placeBefore(s, k), v, deliveredAt[r])
    BY <1>1, <1>2, <1>5, <2>1 DEF ToBeFiledInOrder
  <2> QED
    BY <1>2, <2>1, <2>2
<1>6. ToBeFiledInOrder'
  <2> SUFFICES ASSUME NEW r \in Direct, NEW v \in pubkeys(decodeValidatorsData(r)),
                      deliveredAt[r] > 0, deliveredAt[r] >= nextFrom',
                      ExitDeadlineSlot(r, v) \in DOMAIN slotMap',
                      NEW k \in DOMAIN slotMap'[ExitDeadlineSlot(r, v)],
                      deliveredAt[r]
                        < deliveredAt[slotMap'[ExitDeadlineSlot(r, v)][k].exitRequest]
               PROVE  \A s \in {ExitDeadlineSlot(r, v)} : \A t \in {deliveredAt[r]} :
                            Ahead(s, k, v, t)'
    <3>1. \A r : \A v : ExitDeadlineSlot(r, v)' = ExitDeadlineSlot(r, v)
      BY <1>1 DEF ExitDeadlineSlot
    <3> QED
      BY <1>1, <3>1 DEF ToBeFiledInOrder, pubkeys, decodeValidatorsData
  <2> QED
    BY <1>5
<1> QED
  BY <1>4, <1>6

(* A validator of a slot, not out in time for it, is past its threshold by *)
(* the delivery of the first group's request, unless on record already.    *)
LEMMA FirstGroupDecides ==
    ASSUME ArrayInv, StoredInOrder, NEW s \in DOMAIN slotMap,
           NEW v \in pubkeys(allEntries(s)), ~Closed(v, s)
    PROVE  v \in FoundLate(s)
<1>1. PICK i \in DOMAIN slotMap[s] : v \in pubkeys(entries(slotMap[s][i]))
  BY DEF allEntries, pubkeys
<1>2. 1 \in DOMAIN slotMap[s] /\ DOMAIN slotMap[s] \subseteq Nat /\ \A j \in DOMAIN slotMap[s] : 1 <= j
  <2>1. IsArray(slotMap[s]) /\ slotMap[s] # <<>>
    BY DEF ArrayInv, StoreInv
  <2>2. Len(slotMap[s]) \in Nat /\ DOMAIN slotMap[s] = 1..Len(slotMap[s])
        /\ Len(slotMap[s]) # 0
    BY <2>1, ArrayParts
  <2> QED
    BY <2>2
<1> DEFINE p == slotMap[s][1].exitRequest
           r == slotMap[s][i].exitRequest
<1>3. /\ p \in Requests /\ r \in Requests /\ v \in Validators
      /\ deliveredAt[p] \in Nat /\ deliveredAt[r] \in Nat
      /\ s = ExitDeadlineSlot(r, v)
  BY <1>1, <1>2, GroupDelivered DEF DueIn
<1>4. deliveredAt[p] <= deliveredAt[r]
  <2>1. ASSUME deliveredAt[r] < deliveredAt[p] PROVE FALSE
    <3>1. 1 < i
      BY <1>2, <1>3, <2>1
    <3>2. Ahead(s, 1, v, deliveredAt[r])
      BY <1>1, <1>2, <2>1, <3>1 DEF StoredInOrder
    <3> QED
      BY <1>2, <3>2 DEF Ahead
  <2> QED
    BY <1>3, <2>1
<1>5. /\ secondsSinceEligible(s, v) \in Int
      /\ secondsSinceEligible(s, v) >= ExitDeadlineThreshold[v]
      /\ ExitDeadlineThreshold[v] \in Nat
  <2> HIDE DEF p, r
  <2>1. LET eligibleFrom == getEligibleExitRequestTimestamp(
                                    slotToTimestamp(deliveredAt[p]), ActivationEpoch[v])
        IN  /\ eligibleFrom \in Int
            /\ slotToTimestamp(s + 1) \in Int
            /\ slotToTimestamp(s + 1) - eligibleFrom >= ExitDeadlineThreshold[v]
    BY <1>3, <1>4, PastThreshold DEF ArrayInv, ClockInv
  <2>2. ExitDeadlineThreshold[v] \in Nat
    BY <1>3, ChainAssumption
  <2> QED
    BY <2>1, <2>2 DEF secondsSinceEligible, getSecondsSinceExitIsEligible,
                      getExitRequestDeliveryTimestamp, p
<1>6. v \notin settled /\ ~TimelyExit(v, s)
  BY DEF Closed
<1>7. v \in Checked(s)
  BY <1>5, <1>6 DEF Checked
<1> QED
  BY <1>5, <1>6, <1>7 DEF FoundLate, isValidatorExitDelayPenaltyApplicable


(* So a slot that was processed is done, or remembered.                    *)
LEMMA SlotDone ==
    ASSUME ScanInv, StoredInOrder, ProcessedDone, NEW s0 \in todo, ProcessSlot(s0)
    PROVE  ProcessedDone'
<1>1. /\ pc = "slots" /\ UNCHANGED <<slotMap, eligible>> /\ todo' = todo \ {s0}
      /\ reported' = (reported \ NoLongerTracked(s0)) \cup FoundLate(s0)
      /\ ArrayInv /\ eligible \subseteq DOMAIN slotMap /\ todo \subseteq eligible
      /\ s0 \in DOMAIN slotMap
  BY DEF ProcessSlot, ScanInv, ArrayInv, PhaseInv
<1>2. ChainsStill /\ settled \subseteq settled'
  BY ChainsStillStep DEF BotStep
<1>3. ASSUME NEW s \in eligible \ todo', NEW v \in pubkeys(allEntries(s))
      PROVE  v \in reported' \/ Closed(v, s)'
  <2>1. s \in DOMAIN slotMap /\ v \in Validators
    BY <1>1, FoundAreListed DEF ArrayInv
  <2>2. Closed(v, s) => Closed(v, s)'
    BY <1>1, <1>2, <2>1, ClosedStable DEF ArrayInv, ClockInv
  <2>3. CASE s = s0
    <3>1. ~Closed(v, s) => v \in FoundLate(s0)
      BY <1>1, <1>3, <2>1, <2>3, FirstGroupDecides
    <3> QED
      BY <1>1, <2>2, <3>1
  <2>4. CASE s # s0 /\ v \in reported
    <3>1. CASE v \in NoLongerTracked(s0)
      <4>1. v \in Checked(s0) /\ v \notin FoundLate(s0)
        BY <3>1 DEF NoLongerTracked
      <4>2. v \in pubkeys(allEntries(s0)) /\ ~TimelyExit(v, s0)
        BY <4>1 DEF Checked
      <4>3. Closed(v, s0)
        BY <1>1, <4>1, <4>2, FirstGroupDecides
      <4>4. v \in settled
        BY <4>2, <4>3 DEF Closed
      <4> QED
        BY <1>2, <4>4 DEF Closed
    <3> QED
      BY <1>1, <2>4, <3>1
  <2>5. CASE s # s0 /\ v \notin reported
    <3>1. Closed(v, s)
      BY <1>1, <1>3, <2>5 DEF ProcessedDone
    <3> QED
      BY <2>2, <3>1
  <2> QED
    BY <2>3, <2>4, <2>5
<1> QED
  BY <1>1, <1>3 DEF ProcessedDone, pubkeys, allEntries, entries

LEMMA DoneStill ==
    ASSUME ScanInv, [Next]_vars, ProcessedDone,
           UNCHANGED <<slotMap, reported, eligible, todo, pc>>
    PROVE  ProcessedDone'
<1> SUFFICES ASSUME pc = "slots", NEW s \in eligible \ todo, NEW v \in pubkeys(allEntries(s))
             PROVE  v \in reported \/ Closed(v, s)'
  BY DEF ProcessedDone, pubkeys, allEntries, entries
<1>1. v \in Validators
  BY FoundAreListed DEF ScanInv, ArrayInv, PhaseInv
<1>2. Closed(v, s) => Closed(v, s)'
  BY <1>1, StepKinds, ClosedStable DEF ScanInv, ArrayInv, ClockInv
<1> QED
  BY <1>2 DEF ProcessedDone

LEMMA OrderInit == Init => DeliveredByHead /\ OrderInv
<1> SUFFICES ASSUME Init PROVE DeliveredByHead /\ OrderInv
  OBVIOUS
<1>1. DeliveredByHead
  BY ChainAssumption DEF Init, ChainInit, DeliveredByHead
<1>2. DOMAIN slotMap = {} /\ pc = "init"
  BY DEF Init
<1> QED
  BY <1>1, <1>2 DEF OrderInv, StoredInOrder, ToBeFiledInOrder, ProcessedDone

LEMMA OrderNext ==
    FINALITY_DELAY <= LOOKBACK /\ ScanInv /\ DeliveredByHead /\ OrderInv /\ [Next]_vars
        => OrderInv'
<1> SUFFICES ASSUME FINALITY_DELAY <= LOOKBACK, ScanInv, DeliveredByHead, OrderInv,
                    [Next]_vars, "event_error" \notin happened'
             PROVE  StoredInOrder' /\ ToBeFiledInOrder' /\ ProcessedDone'
  BY DEF OrderInv
<1>1. happened \subseteq happened'
  <2>1. ASSUME NEW s \in todo, ProcessSlot(s) \/ SlotFails(s) PROVE happened \subseteq happened'
    BY <2>1 DEF ProcessSlot, SlotFails, Fault
  <2> QED
    BY <2>1 DEF Next, BotStep, vars, scanVars, Environment, StartScan, BeaconState, QueryBatch,
                LookUpEvent, PushRequest, NothingEligible, SomeEligible, Cleanup, CycleFails,
                Fault
<1>2. StoredInOrder /\ ToBeFiledInOrder /\ ProcessedDone /\ unread = {}
  BY <1>1 DEF OrderInv, ScanInv, ArrayInv, PhaseInv
<1>3. CASE PushRequest
  <2>1. pc' # "slots"
    BY <1>3 DEF PushRequest, Scanning
  <2> QED
    BY <1>2, <1>3, <2>1, OrderPush DEF ProcessedDone
<1>4. CASE Cleanup
  <2>1. pc' # "slots"
    BY <1>4 DEF Cleanup, Rest
  <2> QED
    BY <1>2, <1>4, <2>1, OrderCleaned DEF ProcessedDone
<1>5. CASE UNCHANGED slotMap
  <2>1. StoredInOrder' /\ ToBeFiledInOrder'
    BY <1>2, <1>5, OrderStill
  <2>2. CASE UNCHANGED <<slotMap, reported, eligible, todo, pc>>
    BY <1>2, <2>1, <2>2, DoneStill
  <2>3. CASE pc' # "slots"
    BY <2>1, <2>3 DEF ProcessedDone
  <2>4. CASE SomeEligible
    <3>1. todo' = eligible'
      BY <2>4 DEF SomeEligible
    <3> QED
      BY <2>1, <3>1 DEF ProcessedDone
  <2>5. ASSUME NEW s \in todo, ProcessSlot(s) PROVE ProcessedDone'
    BY <1>2, <2>5, SlotDone
  <2>6. ASSUME NEW s \in todo, SlotFails(s) PROVE pc' # "slots"
    BY <2>6 DEF SlotFails
  <2>7. \/ UNCHANGED <<slotMap, reported, eligible, todo, pc>>
        \/ pc' # "slots"
        \/ SomeEligible
        \/ \E s \in todo : ProcessSlot(s) \/ SlotFails(s)
        \/ PushRequest \/ Cleanup
    BY DEF Next, BotStep, vars, scanVars, Environment, StartScan, BeaconState, QueryBatch,
           LookUpEvent, NothingEligible, CycleFails, Rest, Scanning
  <2> QED
    BY <1>3, <1>4, <2>1, <2>2, <2>3, <2>4, <2>5, <2>6, <2>7
<1> QED
  BY <1>3, <1>4, <1>5, ArraysStill

(* In an array in that order, the first group leads. *)
LEMMA OrderLeads == ScanInv /\ OrderInv => FirstGroupLeads
<1> SUFFICES ASSUME ScanInv, StoredInOrder, NEW s \in DOMAIN slotMap,
                    NEW i \in DOMAIN slotMap[s],
                    ~(deliveredAt[slotMap[s][1].exitRequest]
                        <= deliveredAt[slotMap[s][i].exitRequest]),
                    NEW e \in entries(slotMap[s][i])
             PROVE  Sets!Closed(e, s)
  BY DEF FirstGroupLeads, OrderInv
<1>1. 1 \in DOMAIN slotMap[s] /\ i \in Nat /\ 1 <= i
  <2>1. IsArray(slotMap[s]) /\ slotMap[s] # <<>>
    BY DEF ScanInv, ArrayInv, StoreInv
  <2>2. Len(slotMap[s]) \in Nat /\ DOMAIN slotMap[s] = 1..Len(slotMap[s])
        /\ Len(slotMap[s]) # 0
    BY <2>1, ArrayParts
  <2> QED
    BY <2>2
<1>2. /\ deliveredAt[slotMap[s][1].exitRequest] \in Nat
      /\ deliveredAt[slotMap[s][i].exitRequest] \in Nat
  BY <1>1, GroupDelivered DEF ScanInv
<1>3. 1 < i /\ deliveredAt[slotMap[s][i].exitRequest] < deliveredAt[slotMap[s][1].exitRequest]
  BY <1>1, <1>2
<1>4. e.pubkey \in pubkeys(entries(slotMap[s][i]))
  BY DEF pubkeys
<1>5. Ahead(s, 1, e.pubkey, deliveredAt[slotMap[s][i].exitRequest])
  BY <1>1, <1>3, <1>4 DEF StoredInOrder
<1>6. ASSUME NEW j \in DOMAIN slotMap[s] PROVE ~(j < 1)
  BY ArrayParts DEF ScanInv, ArrayInv, StoreInv
<1>7. Closed(e.pubkey, s)
  BY <1>5, <1>6 DEF Ahead
<1> QED
  BY <1>7 DEF Closed, TimelyExit, ExitEpochBelow, ExitEpochSet, slotToEpoch, Sets!Closed, Sets!TimelyExit,
              Sets!ExitEpochBelow, Sets!ExitEpochSet, Sets!slotToEpoch

(* processDeadlineSlot may take the request of the first group of a slot:  *)
(* however often blocks were scanned and groups dropped and filed again,   *)
(* none of the groups behind it is of an older request, unless there is    *)
(* nothing left to do in that group or a lookup failed.  The lookback must *)
(* reach as far as finality lags.                                          *)
THEOREM OldestLeads ==
    ASSUME FINALITY_DELAY <= LOOKBACK
    PROVE  Spec => []FirstGroupLeads
<1>1. Init => LeadInv
  BY ScanInit, OrderInit DEF LeadInv
<1>2. LeadInv /\ [Next]_vars => LeadInv'
  BY ScanNext, OrderNext, DeliveredByHeadNext DEF LeadInv, ScanInv, ArrayInv
<1>3. LeadInv => FirstGroupLeads
  BY OrderLeads DEF LeadInv
<1> QED
  BY <1>1, <1>2, <1>3, PTL DEF Spec


-----------------------------------------------------------------------------
(* The arrays implement the set of groups. *)

groupAt(s, i) ==
    [deadlineSlot |-> s, exitRequest |-> slotMap[s][i].exitRequest,
     validators |-> entries(slotMap[s][i])]

LEMMA GroupsAre ==
    /\ \A s \in DOMAIN slotMap : \A i \in DOMAIN slotMap[s] : groupAt(s, i) \in groups
    /\ \A g \in groups : \E s \in DOMAIN slotMap : \E i \in DOMAIN slotMap[s] : g = groupAt(s, i)
BY DEF groups, groupAt

(* What Storage says of a slot is what its array holds. *)
LEMMA SlotsOfGroups ==
    ASSUME StoreInv
    PROVE  /\ {g.deadlineSlot : g \in groups} = DOMAIN slotMap
           /\ \A s \in DOMAIN slotMap : Sets!allValidators(s) = allEntries(s)
<1>1. ASSUME NEW s \in DOMAIN slotMap, NEW i \in DOMAIN slotMap[s]
      PROVE  groupAt(s, i).deadlineSlot = s /\ groupAt(s, i).validators = entries(slotMap[s][i])
  BY DEF groupAt
<1>2. ASSUME NEW s \in DOMAIN slotMap PROVE \E g \in groups : g.deadlineSlot = s
  <2>1. 1 \in DOMAIN slotMap[s]
    BY ArrayParts DEF StoreInv
  <2> QED
    BY <1>1, <2>1, GroupsAre
<1>3. {g.deadlineSlot : g \in groups} = DOMAIN slotMap
  BY <1>1, <1>2, GroupsAre
<1>4. ASSUME NEW s \in DOMAIN slotMap, NEW e
      PROVE  e \in Sets!allValidators(s) <=> e \in allEntries(s)
  <2>1. e \in Sets!allValidators(s) <=>
            \E g \in groups : g.deadlineSlot = s /\ e \in g.validators
    BY DEF Sets!allValidators, Sets!groupDataArray
  <2>2. e \in allEntries(s) <=> \E i \in DOMAIN slotMap[s] : e \in entries(slotMap[s][i])
    BY DEF allEntries
  <2> QED
    BY <1>1, <2>1, <2>2, GroupsAre
<1> QED
  BY <1>3, <1>4

(* A push files the groups of its request. *)
LEMMA PushImplements ==
    ASSUME ScanInv, PushRequest
    PROVE  \E r \in Requests : Sets!File(r)
<1> DEFINE p == Head(results)
           slots == Deadlines(deliveredAt[p], p)
<1>1. /\ GrownBy(p) /\ p \in Requests /\ deliveredAt[p] > 0
      /\ UNCHANGED <<deliveredAt, reported, eligible>>
  BY PushOfHead, HandPush DEF ScanInv, HandInv, PushRequest, chainVars
<1> HIDE DEF p
<1> DEFINE new == Sets!groupValidatorsByDeadlineSlot(p)
           newAt(s) == [deadlineSlot |-> s, exitRequest |-> groupFor(p, s).exitRequest,
                        validators |-> entries(groupFor(p, s))]
<1>2. \A g : g \in new <=> \E s \in slots : g = newAt(s)
  <2>1. \A s : newAt(s) =
            [deadlineSlot |-> s, exitRequest |-> p,
             validators |-> {x \in decodeValidatorsData(p) : ExitDeadlineSlot(p, x.pubkey) = s}]
    BY <1>1, NewGroup
  <2>2. new = {[deadlineSlot |-> s, exitRequest |-> p,
                validators |-> {x \in decodeValidatorsData(p) : ExitDeadlineSlot(p, x.pubkey) = s}]
               : s \in slots}
    BY DEF Sets!groupValidatorsByDeadlineSlot, Sets!decodeValidatorsData, decodeValidatorsData,
           Sets!ExitDeadlineSlot, ExitDeadlineSlot, Sets!Deadlines, Deadlines,
           Sets!DeadlineIfDelivered, DeadlineIfDelivered,
           Sets!calculateSlotFromExitDeadline, calculateSlotFromExitDeadline,
           Sets!getEligibleExitRequestTimestamp, getEligibleExitRequestTimestamp,
           Sets!slotToTimestamp, slotToTimestamp
  <2> HIDE DEF newAt, new, slots
  <2> QED
    BY <2>1, <2>2
<1> HIDE DEF new, newAt
<1>3. ASSUME NEW g \in groups PROVE g \in groups'
  <2>0. PICK s \in DOMAIN slotMap : \E i \in DOMAIN slotMap[s] : g = groupAt(s, i)
    BY GroupsAre
  <2>1. PICK i \in DOMAIN slotMap[s] : g = groupAt(s, i)
    BY <2>0
  <2>2. s \in DOMAIN slotMap' /\ i \in DOMAIN slotMap'[s] /\ slotMap'[s][i] = slotMap[s][i]
    BY <1>1 DEF GrownBy
  <2> QED
    BY <2>1, <2>2 DEF groupAt, groups, entries
<1>4. ASSUME NEW g \in new PROVE g \in groups'
  <2>1. PICK s \in slots : g = newAt(s)
    BY <1>2
  <2>2. PICK i \in DOMAIN slotMap'[s] : slotMap'[s][i] = groupFor(p, s)
    BY <1>1 DEF GrownBy
  <2>3. s \in DOMAIN slotMap'
    BY <1>1 DEF GrownBy
  <2> QED
    BY <2>1, <2>2, <2>3 DEF newAt, groups, entries
<1>5. ASSUME NEW g \in groups' PROVE g \in groups \/ g \in new
  <2>0. PICK s \in DOMAIN slotMap' : \E i \in DOMAIN slotMap'[s] : g = groupAt(s, i)'
    BY DEF groups, groupAt
  <2>1. PICK i \in DOMAIN slotMap'[s] :
            g = [deadlineSlot |-> s, exitRequest |-> slotMap'[s][i].exitRequest,
                 validators |-> entries(slotMap'[s][i])]
    BY <2>0 DEF groupAt, entries
  <2>2. CASE s \in DOMAIN slotMap /\ i \in DOMAIN slotMap[s]
    <3>1. slotMap'[s][i] = slotMap[s][i]
      BY <1>1, <2>2 DEF GrownBy
    <3> QED
      BY <2>1, <2>2, <3>1, GroupsAre DEF groupAt
  <2>3. CASE s \in slots /\ slotMap'[s][i] = groupFor(p, s)
    BY <1>2, <2>1, <2>3 DEF newAt
  <2> QED
    BY <1>1, <2>2, <2>3 DEF GrownBy
<1>6. groups' = groups \cup new
  BY <1>3, <1>4, <1>5
<1> QED
  BY <1>1, <1>6 DEF Sets!File, new

(* The cleanup's arrays hold the groups Storage keeps. *)
LEMMA CleanupImplements ==
    ASSUME ScanInv, Cleanup
    PROVE  Sets!Clean
<1>1. /\ StoreInv /\ Cleaned /\ UNCHANGED reported /\ eligible' = {}
  BY CleanupCleans DEF ScanInv, ArrayInv, Cleanup, Rest
<1> DEFINE keptAt(s, i) ==
               [deadlineSlot |-> s, exitRequest |-> slotMap[s][i].exitRequest,
                validators |-> keptOf(s, slotMap[s][i])]
           after == Sets!cleanupProcessedEntries
<1>2. ASSUME NEW s \in DOMAIN slotMap, NEW i \in DOMAIN slotMap[s]
      PROVE  /\ s \in eligible => Sets!remainingForThisGroup(groupAt(s, i))
                                    = keptOf(s, slotMap[s][i])
             /\ s \in eligible => [groupAt(s, i) EXCEPT !.validators =
                                        Sets!remainingForThisGroup(groupAt(s, i))]
                                    = keptAt(s, i)
             /\ s \notin eligible => keptAt(s, i) = groupAt(s, i)
             /\ groupAt(s, i).deadlineSlot = s
  <2>1. ASSUME s \in eligible
        PROVE  Sets!remainingForThisGroup(groupAt(s, i)) = keptOf(s, slotMap[s][i])
    <3>1. Sets!remainingValidators(s) = {e \in allEntries(s) : e.pubkey \in reported}
      BY <1>1, SlotsOfGroups DEF Sets!remainingValidators
    <3>2. Sets!remainingForThisGroup(groupAt(s, i)) =
            {e \in Sets!remainingValidators(s) : e.pubkey \in pubkeys(entries(slotMap[s][i]))}
      BY DEF Sets!remainingForThisGroup, groupAt, Sets!pubkeys, pubkeys
    <3> QED
      BY <2>1, <3>1, <3>2 DEF keptOf
  <2>2. \A R : [groupAt(s, i) EXCEPT !.validators = R] =
                [deadlineSlot |-> s, exitRequest |-> slotMap[s][i].exitRequest,
                 validators |-> R]
    BY DEF groupAt
  <2>3. s \notin eligible => keptOf(s, slotMap[s][i]) = entries(slotMap[s][i])
    BY DEF keptOf
  <2> QED
    BY <2>1, <2>2, <2>3 DEF groupAt
<1>3. \A g : g \in after <=> \E s \in DOMAIN slotMap : \E i \in DOMAIN slotMap[s] :
                                keptOf(s, slotMap[s][i]) # {} /\ g = keptAt(s, i)
  <2>1. ASSUME NEW s \in DOMAIN slotMap, NEW i \in DOMAIN slotMap[s]
        PROVE  s \notin eligible => keptOf(s, slotMap[s][i]) # {}
    BY <1>1 DEF StoreInv, keptOf
  <2>2. \A g : g \in after <=>
            \/ g \in groups /\ g.deadlineSlot \notin eligible
            \/ \E h \in groups :
                /\ h.deadlineSlot \in eligible
                /\ Sets!remainingForThisGroup(h) # {}
                /\ g = [h EXCEPT !.validators = Sets!remainingForThisGroup(h)]
    BY DEF Sets!cleanupProcessedEntries
  <2> HIDE DEF after, keptAt
  <2>3. ASSUME NEW g, g \in after
        PROVE  \E s \in DOMAIN slotMap : \E i \in DOMAIN slotMap[s] :
                    keptOf(s, slotMap[s][i]) # {} /\ g = keptAt(s, i)
    BY <1>2, <2>1, <2>2, <2>3, GroupsAre
  <2>4. ASSUME NEW s \in DOMAIN slotMap, NEW i \in DOMAIN slotMap[s],
               keptOf(s, slotMap[s][i]) # {}
        PROVE  keptAt(s, i) \in after
    BY <1>2, <2>2, <2>4, GroupsAre
  <2> QED
    BY <2>3, <2>4
<1> HIDE DEF after
<1>4. ASSUME NEW g \in groups' PROVE g \in after
  <2>0. PICK s \in DOMAIN slotMap' : \E k \in DOMAIN slotMap'[s] : g = groupAt(s, k)'
    BY DEF groups, groupAt
  <2>1. PICK k \in DOMAIN slotMap'[s] :
            g = [deadlineSlot |-> s, exitRequest |-> slotMap'[s][k].exitRequest,
                 validators |-> entries(slotMap'[s][k])]
    BY <2>0 DEF groupAt, entries
  <2>2. /\ s \in DOMAIN slotMap /\ placeBefore(s, k) \in DOMAIN slotMap[s]
        /\ slotMap'[s][k].exitRequest = slotMap[s][placeBefore(s, k)].exitRequest
        /\ entries(slotMap'[s][k]) = keptOf(s, slotMap[s][placeBefore(s, k)])
        /\ entries(slotMap'[s][k]) # {}
    BY <1>1 DEF Cleaned
  <2> QED
    BY <1>3, <2>1, <2>2
<1>5. ASSUME NEW g \in after PROVE g \in groups'
  <2>0. PICK s \in DOMAIN slotMap :
            \E i \in DOMAIN slotMap[s] : keptOf(s, slotMap[s][i]) # {} /\ g = keptAt(s, i)
    BY <1>3
  <2>1. PICK i \in DOMAIN slotMap[s] : keptOf(s, slotMap[s][i]) # {} /\ g = keptAt(s, i)
    BY <2>0
  <2>2. /\ s \in DOMAIN slotMap'
        /\ \E k \in DOMAIN slotMap'[s] : placeBefore(s, k) = i
    BY <1>1, <2>1 DEF Cleaned
  <2>3. PICK k \in DOMAIN slotMap'[s] : placeBefore(s, k) = i
    BY <2>2
  <2>4. /\ slotMap'[s][k].exitRequest = slotMap[s][i].exitRequest
        /\ entries(slotMap'[s][k]) = keptOf(s, slotMap[s][i])
    BY <1>1, <2>2, <2>3 DEF Cleaned
  <2> QED
    BY <2>1, <2>2, <2>4 DEF groups, entries
<1>6. groups' = after
  BY <1>4, <1>5
<1> QED
  BY <1>1, <1>6 DEF Sets!Clean, after


(* A slot's check is of validators that its groups list. *)
LEMMA ProcessImplements ==
    ASSUME ScanInv, NEW s \in todo, ProcessSlot(s) \/ SlotFails(s)
    PROVE  Sets!Check(s)
<1>1. /\ StoreInv /\ s \in eligible /\ s \in DOMAIN slotMap /\ UNCHANGED <<slotMap, eligible>>
  BY DEF ScanInv, ArrayInv, PhaseInv, ProcessSlot, SlotFails
<1>2. UNCHANGED groups
  BY <1>1 DEF groups, entries
<1>3. Sets!pubkeys(Sets!allValidators(s)) = pubkeys(allEntries(s))
  BY <1>1, SlotsOfGroups DEF Sets!pubkeys, pubkeys
<1>4. NoLongerTracked(s) \subseteq pubkeys(allEntries(s))
      /\ FoundLate(s) \subseteq pubkeys(allEntries(s))
  BY <1>1, FoundAreListed
<1>5. \E late, done \in SUBSET pubkeys(allEntries(s)) : reported' = (reported \ done) \cup late
  <2>1. CASE ProcessSlot(s)
    BY <1>4, <2>1 DEF ProcessSlot
  <2>2. CASE SlotFails(s)
    <3>1. PICK done \in SUBSET NoLongerTracked(s), late \in SUBSET FoundLate(s) :
                reported' = (reported \ done) \cup late
      BY <2>2 DEF SlotFails
    <3>2. done \in SUBSET pubkeys(allEntries(s)) /\ late \in SUBSET pubkeys(allEntries(s))
      BY <1>4
    <3> QED
      BY <3>1, <3>2
  <2> QED
    BY <2>1, <2>2
<1> QED
  BY <1>1, <1>2, <1>3, <1>5 DEF Sets!Check

LEMMA StorageStep == ScanInv /\ [Next]_vars => [Sets!StorageNext]_(Sets!storageVars)
<1> SUFFICES ASSUME ScanInv, [Next]_vars
             PROVE  Sets!StorageNext \/ UNCHANGED <<groups, reported, eligible>>
  BY DEF Sets!storageVars
<1>1. ASSUME UNCHANGED <<slotMap>> PROVE UNCHANGED groups
  BY <1>1 DEF groups, entries
<1>2. CASE PushRequest
  BY <1>2, PushImplements DEF Sets!StorageNext
<1>3. ASSUME NEW s \in todo, ProcessSlot(s) \/ SlotFails(s) PROVE Sets!StorageNext
  <2>1. s \in eligible
    BY DEF ScanInv, ArrayInv, PhaseInv
  <2> QED
    BY <1>3, <2>1, ProcessImplements DEF Sets!StorageNext
<1>4. CASE Cleanup
  BY <1>4, CleanupImplements DEF Sets!StorageNext
<1>5. CASE SomeEligible
  <2>1. /\ EligibleSlots \subseteq DOMAIN slotMap
        /\ eligible' = EligibleSlots /\ UNCHANGED <<slotMap, reported>>
    BY <1>5 DEF SomeEligible, EligibleSlots
  <2>2. {g.deadlineSlot : g \in groups} = DOMAIN slotMap
    BY SlotsOfGroups DEF ScanInv, ArrayInv
  <2>3. ASSUME NEW s \in EligibleSlots PROVE s <= finalized
    <3>1. s \in Int /\ s <= currentSlot
      BY DEF EligibleSlots, ScanInv, ArrayInv, StoreInv
    <3> QED
      BY <3>1 DEF ScanInv, ArrayInv, ClockInv, ChainTypeOK
  <2>4. Sets!Select(EligibleSlots)
    BY <1>1, <2>1, <2>2, <2>3 DEF Sets!Select
  <2> HIDE DEF EligibleSlots
  <2> QED
    BY <2>1, <2>2, <2>4 DEF Sets!StorageNext
<1>6. CASE NothingEligible \/ CycleFails
  <2>1. UNCHANGED <<slotMap, reported>> /\ eligible' = {}
    BY <1>6 DEF NothingEligible, CycleFails, Rest
  <2> QED
    BY <1>1, <2>1 DEF Sets!Abandon, Sets!StorageNext
<1>7. CASE UNCHANGED <<slotMap, reported, eligible>>
  BY <1>1, <1>7
<1> QED
  BY <1>2, <1>3, <1>4, <1>5, <1>6, <1>7
  DEF Next, BotStep, vars, Environment, StartScan, BeaconState, QueryBatch, LookUpEvent

(* The set of groups that Prover keeps is a sound reading of the arrays,   *)
(* in every step: groupValidatorsByDeadlineSlot and the pushes after it,   *)
(* the choice of the eligible slots, the checks of a slot, whether they    *)
(* all succeed or not, and cleanupProcessedEntries do to the arrays what   *)
(* Storage does to the set, whatever copies the arrays hold.               *)
THEOREM ArraysImplementSets == Spec => StorageImplemented
<1>1. Init => ScanInv /\ Sets!StorageInit
  BY ScanInit DEF Init, Sets!StorageInit, groups
<1>2. ScanInv /\ [Next]_vars => ScanInv'
  BY ScanNext
<1>3. ScanInv /\ [Next]_vars => [Sets!StorageNext]_(Sets!storageVars)
  BY StorageStep
<1> QED
  BY <1>1, <1>2, <1>3, PTL DEF Spec, StorageImplemented, Sets!StorageSpec

-----------------------------------------------------------------------------
(* Counting the copies. *)

(* A union of finitely many finite sets. *)
LEMMA FiniteUnion ==
    ASSUME NEW S, IsFiniteSet(S), NEW f, \A x \in S : IsFiniteSet(f[x])
    PROVE  IsFiniteSet(UNION {f[x] : x \in S})
<1> DEFINE T == {f[x] : x \in S}
           h == [x \in S |-> f[x]]
<1>1. h \in Surjection(S, T)
  BY DEF Surjection
<1>2. IsFiniteSet(T)
  <2> HIDE DEF T, h
  <2> QED
    BY <1>1, FS_Surjection
<1>3. \A t \in T : IsFiniteSet(t)
  OBVIOUS
<1> QED
  BY <1>2, <1>3, FS_UNION

(* The groups of an array are of requests that exist. *)
GroupArray(a) == IsArray(a) /\ \A i \in DOMAIN a : a[i].exitRequest \in Requests

LEMMA FinitePlaces ==
    ASSUME NEW r \in Requests, NEW v
    PROVE  IsFiniteSet(PlacesIn(r, v))
<1>1. ExitData[r] \in Seq(Validators)
  BY ChainAssumption
<1>2. DOMAIN ExitData[r] = 1..Len(ExitData[r]) /\ Len(ExitData[r]) \in Nat
  BY <1>1, LenProperties
<1>3. IsFiniteSet(DOMAIN ExitData[r])
  BY <1>2, FS_Interval
<1>4. PlacesIn(r, v) \in SUBSET DOMAIN ExitData[r]
  BY DEF PlacesIn
<1> QED
  BY <1>3, <1>4, FS_Subset

LEMMA FiniteDomain ==
    ASSUME NEW a, IsArray(a)
    PROVE  IsFiniteSet(DOMAIN a)
BY ArrayParts, FS_Interval

LEMMA ListingsAre ==
    ASSUME NEW a, NEW v, NEW i, NEW k
    PROVE  <<i, k>> \in Listings(a, v)
             <=> i \in GroupsWith(a, v) /\ k \in PlacesIn(a[i].exitRequest, v)
BY DEF Listings

LEMMA ListingIsPair ==
    ASSUME NEW a, NEW v, NEW p \in Listings(a, v)
    PROVE  /\ p = <<p[1], p[2]>>
           /\ p[1] \in GroupsWith(a, v)
           /\ p[2] \in PlacesIn(a[p[1]].exitRequest, v)
BY DEF Listings

LEMMA ListingsFinite ==
    ASSUME NEW a, GroupArray(a), NEW v
    PROVE  IsFiniteSet(Listings(a, v)) /\ Cardinality(Listings(a, v)) \in Nat
<1> DEFINE G == GroupsWith(a, v)
           f == [i \in G |-> {i} \X PlacesIn(a[i].exitRequest, v)]
<1>1. IsFiniteSet(G)
  <2>1. G \in SUBSET DOMAIN a
    BY DEF GroupsWith
  <2> QED
    BY <2>1, FiniteDomain, FS_Subset DEF GroupArray
<1>2. ASSUME NEW i \in G PROVE IsFiniteSet(f[i])
  <2>1. a[i].exitRequest \in Requests
    BY DEF GroupArray, GroupsWith
  <2>2. IsFiniteSet({i}) /\ IsFiniteSet(PlacesIn(a[i].exitRequest, v))
    BY <2>1, FinitePlaces, FS_Singleton
  <2>3. IsFiniteSet({i} \X PlacesIn(a[i].exitRequest, v))
    BY <2>2, FS_Product
  <2> QED
    BY <2>3
<1>3. Listings(a, v) = UNION {f[i] : i \in G}
  BY DEF Listings
<1>4. IsFiniteSet(Listings(a, v))
  <2> HIDE DEF G, f
  <2> QED
    BY <1>1, <1>2, <1>3, FiniteUnion
<1> QED
  BY <1>4, FS_CardinalityType

(* Where the groups with v of one array are among those of another, v is   *)
(* listed as often at least.                                               *)
LEMMA ListingsGrow ==
    ASSUME NEW a, NEW b, GroupArray(b), NEW v, NEW h,
           \A i \in GroupsWith(a, v) :
                h[i] \in GroupsWith(b, v) /\ b[h[i]].exitRequest = a[i].exitRequest,
           \A i, j \in GroupsWith(a, v) : h[i] = h[j] => i = j
    PROVE  /\ Cardinality(Listings(a, v)) \in Nat
           /\ Cardinality(Listings(a, v)) <= Cardinality(Listings(b, v))
<1> DEFINE S == Listings(a, v)
           T == Listings(b, v)
           m == [p \in S |-> <<h[p[1]], p[2]>>]
<1>1. ASSUME NEW p \in S
      PROVE  m[p] \in T
  <2>1. p[1] \in GroupsWith(a, v) /\ p[2] \in PlacesIn(a[p[1]].exitRequest, v)
    BY ListingIsPair
  <2> QED
    BY <2>1, ListingsAre
<1>2. ASSUME NEW p \in S, NEW q \in S, m[p] = m[q]
      PROVE  p = q
  <2>1. /\ p = <<p[1], p[2]>> /\ p[1] \in GroupsWith(a, v)
        /\ q = <<q[1], q[2]>> /\ q[1] \in GroupsWith(a, v)
    BY ListingIsPair
  <2>2. h[p[1]] = h[q[1]] /\ p[2] = q[2]
    BY <1>2
  <2> QED
    BY <2>1, <2>2
<1>3. m \in Injection(S, T)
  BY <1>1, <1>2 DEF Injection, IsInjective
<1>4. IsFiniteSet(T)
  BY ListingsFinite
<1>5. IsFiniteSet(S) /\ Cardinality(S) <= Cardinality(T)
  <2> HIDE DEF S, T, m
  <2> QED
    BY <1>3, <1>4, FS_Injection
<1> QED
  BY <1>5, FS_CardinalityType

(* A group lists one of its own request's entries, once. *)
ListedOnce(g, e) == e \in decodeValidatorsData(g.exitRequest) /\ g.validators[e] = 1

(* Where it stands in the data of the request. *)
LEMMA PlaceOfEntry ==
    ASSUME NEW r, NEW e \in decodeValidatorsData(r)
    PROVE  /\ e = [exitDataIndex |-> e.exitDataIndex, pubkey |-> e.pubkey]
           /\ e.exitDataIndex \in PlacesIn(r, e.pubkey)
BY DEF decodeValidatorsData, PlacesIn

LEMMA CopyIsPair ==
    ASSUME NEW g, NEW v, NEW p \in CopiesIn(g, v)
    PROVE  /\ p = <<p[1], p[2]>>
           /\ p[1] \in entries(g) /\ p[1].pubkey = v
           /\ p[2] \in 1..g.validators[p[1]]
BY DEF CopiesIn

(* The copies of v in a group are finitely many, and no more than the      *)
(* listings of v in an array.                                              *)
WithinBound(g, a, v) ==
    /\ IsFiniteSet(CopiesIn(g, v))
    /\ Cardinality(CopiesIn(g, v)) <= Cardinality(Listings(a, v))

(* Entries of a validator listed once are no more than its listings.       *)
LEMMA OnceIsWithinBound ==
    ASSUME NEW a, GroupArray(a), NEW i \in DOMAIN a, NEW v,
           \A e \in entries(a[i]) : e.pubkey = v => ListedOnce(a[i], e)
    PROVE  WithinBound(a[i], a, v)
<1> DEFINE S == CopiesIn(a[i], v)
           T == Listings(a, v)
           m == [p \in S |-> <<i, p[1].exitDataIndex>>]
<1>1. ASSUME NEW p \in S
      PROVE  /\ p = <<p[1], 1>>
             /\ p[1] = [exitDataIndex |-> p[1].exitDataIndex, pubkey |-> v]
             /\ m[p] \in T
  <2>1. /\ p = <<p[1], p[2]>> /\ p[1] \in entries(a[i]) /\ p[1].pubkey = v
        /\ p[2] \in 1..a[i].validators[p[1]]
    BY CopyIsPair
  <2>2. p[1] \in decodeValidatorsData(a[i].exitRequest) /\ a[i].validators[p[1]] = 1
    BY <2>1 DEF ListedOnce
  <2>3. p[2] = 1
    BY <2>1, <2>2
  <2>4. /\ p[1] = [exitDataIndex |-> p[1].exitDataIndex, pubkey |-> p[1].pubkey]
        /\ p[1].exitDataIndex \in PlacesIn(a[i].exitRequest, p[1].pubkey)
    BY <2>2, PlaceOfEntry
  <2>5. i \in GroupsWith(a, v)
    BY <2>1 DEF GroupsWith, pubkeys
  <2>6. <<i, p[1].exitDataIndex>> \in T
    BY <2>1, <2>4, <2>5, ListingsAre
  <2> QED
    BY <2>1, <2>3, <2>4, <2>6
<1>2. ASSUME NEW p \in S, NEW q \in S, m[p] = m[q]
      PROVE  p = q
  <2>1. p[1].exitDataIndex = q[1].exitDataIndex
    BY <1>2
  <2>2. p[1] = q[1]
    BY <1>1, <2>1
  <2> QED
    BY <1>1, <2>2
<1>3. m \in Injection(S, T)
  BY <1>1, <1>2 DEF Injection, IsInjective
<1>4. IsFiniteSet(T)
  BY ListingsFinite
<1> HIDE DEF S, T, m
<1> QED
  BY <1>3, <1>4, FS_Injection DEF WithinBound, S, T

(* All the copies of validators that each group lists once are no more     *)
(* than the listings.                                                      *)
LEMMA TogetherWithinBound ==
    ASSUME NEW s \in DOMAIN slotMap, GroupArray(slotMap[s]), NEW v,
           \A i \in DOMAIN slotMap[s] : \A e \in entries(slotMap[s][i]) :
                e.pubkey = v => ListedOnce(slotMap[s][i], e),
           NEW g,
           \A e \in entries(g) : e.pubkey = v =>
                e \in allEntries(s) /\ g.validators[e] = copiesOf(s, e)
    PROVE  WithinBound(g, slotMap[s], v)
<1> DEFINE a == slotMap[s]
           E == {e \in allEntries(s) : e.pubkey = v}
           S == CopiesIn(g, v)
           T == Listings(a, v)
           F(e) == CHOOSE f : f \in Bijection(1..copiesOf(s, e), copies(s, e))
           m == [p \in S |-> <<F(p[1])[p[2]][1], p[1].exitDataIndex>>]
<1>1. ASSUME NEW e \in E, NEW q \in copies(s, e)
      PROVE  /\ q = <<q[1], 1>>
             /\ e = [exitDataIndex |-> e.exitDataIndex, pubkey |-> v]
             /\ <<q[1], e.exitDataIndex>> \in T
  <2>1. /\ q = <<q[1], q[2]>> /\ q[1] \in DOMAIN a /\ e \in entries(a[q[1]])
        /\ q[2] \in 1..a[q[1]].validators[e]
    BY DEF copies
  <2>2. e \in decodeValidatorsData(a[q[1]].exitRequest) /\ a[q[1]].validators[e] = 1
    BY <2>1 DEF ListedOnce
  <2>3. q[2] = 1
    BY <2>1, <2>2
  <2>4. /\ e = [exitDataIndex |-> e.exitDataIndex, pubkey |-> e.pubkey]
        /\ e.exitDataIndex \in PlacesIn(a[q[1]].exitRequest, e.pubkey)
    BY <2>2, PlaceOfEntry
  <2>5. q[1] \in GroupsWith(a, v)
    BY <2>1 DEF GroupsWith, pubkeys
  <2>6. <<q[1], e.exitDataIndex>> \in T
    BY <2>4, <2>5, ListingsAre
  <2> QED
    BY <2>1, <2>3, <2>4, <2>6
<1>2. ASSUME NEW e \in E
      PROVE  F(e) \in Bijection(1..copiesOf(s, e), copies(s, e))
  <2> DEFINE D == DOMAIN a
  <2>0. IsFiniteSet(D)
    BY FiniteDomain DEF GroupArray
  <2>1. IsFiniteSet(D \X {1})
    <3>1. IsFiniteSet({1})
      BY FS_Singleton
    <3> HIDE DEF D
    <3> QED
      BY <2>0, <3>1, FS_Product
  <2>2. copies(s, e) \in SUBSET (D \X {1})
    <3>1. ASSUME NEW q \in copies(s, e) PROVE q \in D \X {1}
      <4>1. q = <<q[1], 1>>
        BY <1>1
      <4>2. q[1] \in D
        BY DEF copies
      <4> HIDE DEF D
      <4>3. <<q[1], 1>> \in D \X {1}
        BY <4>2
      <4> QED
        BY <4>1, <4>3, Zenon
    <3> QED
      BY <3>1
  <2>3. IsFiniteSet(copies(s, e))
    BY <2>1, <2>2, FS_Subset
  <2>4. Bijection(1..copiesOf(s, e), copies(s, e)) # {}
    BY <2>3, FS_CardinalityType DEF ExistsBijection, copiesOf
  <2> QED
    BY <2>4
<1>3. ASSUME NEW p \in S
      PROVE  /\ p = <<p[1], p[2]>> /\ p[1] \in E /\ p[2] \in 1..copiesOf(s, p[1])
             /\ F(p[1])[p[2]] \in copies(s, p[1])
  <2>1. /\ p = <<p[1], p[2]>> /\ p[1] \in entries(g) /\ p[1].pubkey = v
        /\ p[2] \in 1..g.validators[p[1]]
    BY CopyIsPair
  <2>2. p[1] \in E /\ p[2] \in 1..copiesOf(s, p[1])
    BY <2>1
  <2>3. F(p[1]) \in Bijection(1..copiesOf(s, p[1]), copies(s, p[1]))
    BY <1>2, <2>2
  <2> HIDE DEF E, F
  <2>4. F(p[1])[p[2]] \in copies(s, p[1])
    BY <2>2, <2>3 DEF Bijection, Injection
  <2> QED
    BY <2>1, <2>2, <2>4
<1> HIDE DEF F
<1>4. ASSUME NEW p \in S
      PROVE  m[p] \in T
  BY <1>1, <1>3
<1>5. ASSUME NEW p \in S, NEW q \in S, m[p] = m[q]
      PROVE  p = q
  <2> DEFINE x == F(p[1])[p[2]]
             y == F(q[1])[q[2]]
  <2>1. x[1] = y[1] /\ p[1].exitDataIndex = q[1].exitDataIndex
    BY <1>5
  <2>2. /\ p = <<p[1], p[2]>> /\ p[1] \in E /\ p[2] \in 1..copiesOf(s, p[1])
        /\ x \in copies(s, p[1])
        /\ q = <<q[1], q[2]>> /\ q[1] \in E /\ q[2] \in 1..copiesOf(s, q[1])
        /\ y \in copies(s, q[1])
    BY <1>3
  <2> HIDE DEF x, y, E
  <2>3. /\ x = <<x[1], 1>> /\ p[1] = [exitDataIndex |-> p[1].exitDataIndex, pubkey |-> v]
        /\ y = <<y[1], 1>> /\ q[1] = [exitDataIndex |-> q[1].exitDataIndex, pubkey |-> v]
    BY <1>1, <2>2
  <2>4. x = y /\ p[1] = q[1]
    BY <2>1, <2>3
  <2>5. F(p[1]) \in Injection(1..copiesOf(s, p[1]), copies(s, p[1]))
    BY <1>2, <2>2 DEF Bijection
  <2>6. \A c, d \in 1..copiesOf(s, p[1]) : F(p[1])[c] = F(p[1])[d] => c = d
    BY <2>5 DEF Injection, IsInjective
  <2>7. F(p[1])[p[2]] = F(p[1])[q[2]]
    BY <2>4 DEF x, y
  <2>8. p[2] = q[2]
    BY <2>2, <2>4, <2>6, <2>7
  <2> QED
    BY <2>2, <2>4, <2>8
<1>6. m \in Injection(S, T)
  BY <1>4, <1>5 DEF Injection, IsInjective
<1>7. IsFiniteSet(T)
  BY ListingsFinite
<1> HIDE DEF S, T, m
<1> QED
  BY <1>6, <1>7, FS_Injection DEF WithinBound, S, T, a

-----------------------------------------------------------------------------
(* The copies, while every transaction has its effect. *)

(* v is in a stored group, for a deadline that it missed. *)
FiledLate(v, s) == v \in pubkeys(allEntries(s)) /\ ~TimelyExit(v, s)

(* Who is reported is on record, and still filed under a deadline missed:  *)
(* one that has passed when the slots are chosen.                          *)
ReportedFiled ==
    \A v \in reported :
        /\ v \in settled
        /\ \E s \in DOMAIN slotMap :
            /\ s <= finalized
            /\ pc = "scan" => s <= currentSlot
            /\ FiledLate(v, s)

(* Only of those on record are there further copies; and of these, only of *)
(* those not tracked any more, before the cleanup: each is in a slot whose *)
(* check deletes it from the reported set.                                 *)
CopiedOnce ==
    \A s \in DOMAIN slotMap : \A i \in DOMAIN slotMap[s] : \A e \in entries(slotMap[s][i]) :
        \/ ListedOnce(slotMap[s][i], e)
        \/ /\ e.pubkey \in settled
           /\ pc = "slots" /\ e.pubkey \in reported =>
                \E s0 \in todo : FiledLate(e.pubkey, s0)

BoundInv ==
    \A s \in DOMAIN slotMap : \A i \in DOMAIN slotMap[s] : \A v \in Validators :
        WithinBound(slotMap[s][i], slotMap[s], v)

CopiesInv ==
    "ineffective" \notin happened => ReportedFiled /\ CopiedOnce /\ BoundInv

LEMMA FailuresRemembered == [Next]_vars => happened \subseteq happened'
<1> SUFFICES ASSUME [Next]_vars PROVE happened \subseteq happened'
  OBVIOUS
<1>1. ASSUME NEW s \in todo, ProcessSlot(s) \/ SlotFails(s)
      PROVE  happened \subseteq happened'
  BY <1>1 DEF ProcessSlot, SlotFails, Fault
<1>2. CASE LookUpEvent
  BY <1>2 DEF LookUpEvent, Fault
<1>3. CASE CycleFails
  BY <1>3 DEF CycleFails, Fault
<1> QED
  BY <1>1, <1>2, <1>3
  DEF Next, Environment, BotStep, vars, scanVars, StartScan, BeaconState, QueryBatch,
      PushRequest, NothingEligible, SomeEligible, Cleanup

(* A validator of a slot is eligible to exit before the slot ends, by the  *)
(* delivery of whichever request stands first: its own deadline, and one   *)
(* of that request, lie in this slot.                                      *)
LEMMA EligibleInSlot ==
    ASSUME ArrayInv, NEW s \in DOMAIN slotMap, NEW v \in pubkeys(allEntries(s))
    PROVE  secondsSinceEligible(s, v) >= 0
<1>1. PICK i \in DOMAIN slotMap[s] : v \in pubkeys(entries(slotMap[s][i]))
  BY DEF allEntries, pubkeys
<1>2. 1 \in DOMAIN slotMap[s]
  <2>1. IsArray(slotMap[s]) /\ slotMap[s] # <<>>
    BY DEF ArrayInv, StoreInv
  <2>2. Len(slotMap[s]) \in Nat /\ DOMAIN slotMap[s] = 1..Len(slotMap[s])
        /\ Len(slotMap[s]) # 0
    BY <2>1, ArrayParts
  <2> QED
    BY <2>2
<1>3. PICK e \in entries(slotMap[s][1]) : TRUE
  BY <1>2 DEF ArrayInv, StoreInv
<1> DEFINE p == slotMap[s][1].exitRequest
           r == slotMap[s][i].exitRequest
           w == e.pubkey
           from(x, u) == getEligibleExitRequestTimestamp(slotToTimestamp(deliveredAt[x]),
                                                         ActivationEpoch[u])
           end == slotToTimestamp(s + 1)
<1>4. /\ p \in Requests /\ r \in Requests /\ v \in Validators /\ w \in Validators
      /\ deliveredAt[p] \in Nat /\ deliveredAt[r] \in Nat
      /\ s = ExitDeadlineSlot(r, v) /\ s = ExitDeadlineSlot(p, w)
  BY <1>1, <1>2, <1>3, GroupDelivered DEF DueIn, pubkeys
<1> HIDE DEF p, r, w
<1>5. from(r, v) \in Int /\ end \in Int /\ end - from(r, v) >= ExitDeadlineThreshold[v]
  <2>1. s = ExitDeadlineSlot(r, v) /\ deliveredAt[r] <= deliveredAt[r]
    BY <1>4
  <2>2. r \in Requests /\ v \in Validators /\ ChainTypeOK
    BY <1>4 DEF ArrayInv, ClockInv
  <2> QED
    BY <2>1, <2>2, PastThreshold
<1>6. from(p, w) \in Int /\ end - from(p, w) >= ExitDeadlineThreshold[w]
  BY <1>4, PastThreshold DEF ArrayInv, ClockInv
<1>7. /\ ExitDeadlineThreshold[v] \in Nat /\ ExitDeadlineThreshold[w] \in Nat
      /\ ActivationEpoch[v] \in Nat /\ ActivationEpoch[w] \in Nat
  BY <1>4, ChainAssumption
<1>8. from(p, v) <= end /\ from(p, v) \in Int
  <2>1. /\ slotToTimestamp(deliveredAt[p]) \in Int
        /\ slotToTimestamp(deliveredAt[r]) \in Int
        /\ from(p, v) \in Int
    BY <1>4, TimestampIsInt, EligibleTimestampIsInt
  <2>2. from(p, v) <= from(p, w) \/ from(p, v) <= from(r, v)
    BY <1>4, <1>5, <1>6, <1>7, <2>1 DEF getEligibleExitRequestTimestamp
  <2> QED
    BY <1>5, <1>6, <1>7, <2>1, <2>2
<1>9. secondsSinceEligible(s, v) = end - from(p, v)
  BY DEF secondsSinceEligible, getSecondsSinceExitIsEligible,
         getExitRequestDeliveryTimestamp, p
<1> QED
  BY <1>5, <1>8, <1>9

(* The check of a slot in which v is filed late finds it late, or deletes  *)
(* it from the reported set.                                               *)
LEMMA FiledIsChecked ==
    ASSUME ArrayInv, NEW s \in DOMAIN slotMap, NEW v, FiledLate(v, s)
    PROVE  v \in FoundLate(s) \/ v \in NoLongerTracked(s)
BY EligibleInSlot DEF FiledLate, Checked, NoLongerTracked

LEMMA FoundIsFiled ==
    ASSUME NEW s, NEW v \in FoundLate(s)
    PROVE  FiledLate(v, s) /\ v \notin settled
BY DEF FoundLate, Checked, FiledLate, isValidatorExitDelayPenaltyApplicable

(* A deadline that was missed stays missed. *)
LEMMA MissedStays ==
    ASSUME ArrayInv, [Next]_vars, NEW v \in Validators, NEW s \in Int, s <= finalized,
           ~TimelyExit(v, s)
    PROVE  ~TimelyExit(v, s)'
<1>1. ChainNext \/ UNCHANGED exitAt
  BY StepKinds DEF ChainsStill
<1> QED
  BY <1>1, VerdictStable DEF ArrayInv, ClockInv

(* And the slot keeps who is filed in it; in the cleanup, if reported. *)
LEMMA FiledStays ==
    ASSUME ScanInv, [Next]_vars, NEW s \in DOMAIN slotMap, s <= finalized,
           NEW v, FiledLate(v, s), Cleanup => v \in reported
    PROVE  s \in DOMAIN slotMap' /\ FiledLate(v, s)'
<1>1. ArrayInv /\ s \in Int /\ v \in Validators /\ ~TimelyExit(v, s)
  BY FoundAreListed DEF ScanInv, ArrayInv, StoreInv, FiledLate
<1>2. ~TimelyExit(v, s)'
  BY <1>1, MissedStays
<1>3. PICK i \in DOMAIN slotMap[s] : v \in pubkeys(entries(slotMap[s][i]))
  BY DEF FiledLate, allEntries, pubkeys
<1>4. PICK e \in entries(slotMap[s][i]) : e.pubkey = v
  BY <1>3 DEF pubkeys
<1>5. s \in DOMAIN slotMap' /\ \E k \in DOMAIN slotMap'[s] : e \in entries(slotMap'[s][k])
  <2>1. CASE ~Cleanup
    <3>1. PlacesKept
      BY <2>1, PlacesStay
    <3> QED
      BY <1>4, <3>1 DEF PlacesKept
  <2>2. CASE Cleanup
    <3>1. Cleaned /\ v \in reported
      BY <1>1, <2>2, CleanupCleans DEF Cleanup, ArrayInv
    <3>2. e \in keptOf(s, slotMap[s][i])
      BY <1>4, <3>1 DEF keptOf, allEntries, pubkeys
    <3>3. /\ s \in DOMAIN slotMap'
          /\ \E k \in DOMAIN slotMap'[s] : placeBefore(s, k) = i
      BY <1>4, <3>1, <3>2 DEF Cleaned
    <3> QED
      BY <3>1, <3>2, <3>3 DEF Cleaned
  <2> QED
    BY <2>1, <2>2
<1>6. v \in pubkeys(allEntries(s))'
  BY <1>4, <1>5 DEF allEntries, pubkeys, entries
<1> QED
  BY <1>2, <1>5, <1>6 DEF FiledLate

(* Who comes to be reported was found late by the check of a slot.         *)
LEMMA ReportedGrows ==
    ASSUME [Next]_vars, NEW v \in reported', "ineffective" \notin happened'
    PROVE  \/ v \in reported
           \/ \E s \in todo :
                /\ v \in FoundLate(s) /\ v \in settled'
                /\ pc' \in {"slots", "failing"}
                /\ UNCHANGED <<slotMap, head, finalized, exitAt>>
<1>1. ASSUME NEW s \in todo, ProcessSlot(s), v \notin reported
      PROVE  /\ v \in FoundLate(s) /\ v \in settled'
             /\ pc' \in {"slots", "failing"}
             /\ UNCHANGED <<slotMap, head, finalized, exitAt>>
  <2>1. v \in FoundLate(s) /\ pc' = "slots" /\ UNCHANGED <<slotMap, head, finalized, exitAt>>
    BY <1>1 DEF ProcessSlot
  <2>2. PICK recorded \in SUBSET FoundLate(s) :
            /\ settled' = settled \cup recorded
            /\ IF recorded = FoundLate(s) THEN UNCHANGED <<happened, faults>>
                                          ELSE Fault("ineffective")
    BY <1>1 DEF ProcessSlot
  <2>3. recorded = FoundLate(s)
    BY <2>2 DEF Fault
  <2> QED
    BY <2>1, <2>2, <2>3
<1>2. ASSUME NEW s \in todo, SlotFails(s), v \notin reported
      PROVE  /\ v \in FoundLate(s) /\ v \in settled'
             /\ pc' \in {"slots", "failing"}
             /\ UNCHANGED <<slotMap, head, finalized, exitAt>>
  BY <1>2 DEF SlotFails
<1> QED
  BY <1>1, <1>2
  DEF Next, Environment, BotStep, vars, scanVars, StartScan, BeaconState, QueryBatch,
      LookUpEvent, PushRequest, NothingEligible, SomeEligible, Cleanup, CycleFails

(* The clock of the slots' choice is that of the finalized block at the    *)
(* cycle's start.                                                          *)
LEMMA ChoiceClock ==
    ASSUME ArrayInv, [Next]_vars, pc' = "scan"
    PROVE  \/ pc = "scan" /\ UNCHANGED currentSlot
           \/ currentSlot' = finalized
<1>1. ASSUME NEW s \in todo, ProcessSlot(s) \/ SlotFails(s) PROVE FALSE
  BY <1>1 DEF ProcessSlot, SlotFails
<1> QED
  BY <1>1
  DEF Next, Environment, BotStep, vars, scanVars, StartScan, BeaconState, QueryBatch,
      LookUpEvent, PushRequest, NothingEligible, SomeEligible, Cleanup, CycleFails, Rest

LEMMA FinalityGrows == ArrayInv /\ [Next]_vars => finalized <= finalized'
<1> SUFFICES ASSUME ArrayInv, [Next]_vars PROVE finalized <= finalized'
  OBVIOUS
<1>1. ChainTypeOK /\ finalized \in Nat /\ finalized < head
  BY DEF ArrayInv, ClockInv, ChainTypeOK
<1> QED
  BY <1>1, StepKinds, ClockTick DEF ChainsStill

LEMMA ReportedNext ==
    ScanInv /\ ReportedFiled /\ [Next]_vars /\ "ineffective" \notin happened'
        => ReportedFiled'
<1> SUFFICES ASSUME ScanInv, ReportedFiled, [Next]_vars, "ineffective" \notin happened',
                    NEW v \in reported'
             PROVE  /\ v \in settled'
                    /\ \E s \in DOMAIN slotMap' :
                        /\ s <= finalized'
                        /\ pc' = "scan" => s <= currentSlot'
                        /\ FiledLate(v, s)'
  BY DEF ReportedFiled
<1>0. /\ ArrayInv /\ finalized \in Int /\ finalized' \in Int /\ finalized <= finalized'
      /\ DOMAIN slotMap \subseteq Int
      /\ settled \subseteq settled'
  <2>1. ArrayInv' /\ ArrayInv
    BY ArrayNext DEF ScanInv
  <2>2. settled \subseteq settled'
    BY StepKinds, SettledGrows
  <2> QED
    BY <2>1, <2>2, FinalityGrows DEF ArrayInv, ClockInv, StoreInv, ChainTypeOK
<1>1. CASE v \in reported
  <2>1. PICK s \in DOMAIN slotMap :
            /\ s <= finalized
            /\ pc = "scan" => s <= currentSlot
            /\ FiledLate(v, s)
    BY <1>1 DEF ReportedFiled
  <2>2. s \in DOMAIN slotMap' /\ FiledLate(v, s)'
    BY <1>1, <2>1, FiledStays
  <2>3. pc' = "scan" => s <= currentSlot'
    BY <1>0, <2>1, ChoiceClock
  <2>4. s <= finalized'
    BY <1>0, <2>1
  <2>5. v \in settled'
    BY <1>0, <1>1 DEF ReportedFiled
  <2> QED
    BY <2>2, <2>3, <2>4, <2>5
<1>2. ASSUME NEW s \in todo,
             v \in FoundLate(s), v \in settled', pc' \in {"slots", "failing"},
             UNCHANGED <<slotMap, head, finalized, exitAt>>
      PROVE  /\ v \in settled'
             /\ \E s1 \in DOMAIN slotMap' :
                    /\ s1 <= finalized'
                    /\ pc' = "scan" => s1 <= currentSlot'
                    /\ FiledLate(v, s1)'
  <2>1. s \in DOMAIN slotMap /\ s <= finalized
    BY <1>0 DEF ArrayInv, PhaseInv
  <2>2. FiledLate(v, s)
    BY <1>2, FoundIsFiled
  <2>3. FiledLate(v, s)'
    BY <1>2, <2>2 DEF FiledLate, TimelyExit, ExitEpochBelow, ExitEpochSet, pubkeys, allEntries, entries
  <2> QED
    BY <1>2, <2>1, <2>3
<1> QED
  BY <1>1, <1>2, ReportedGrows

(* What the cleanup leaves of a slot in hand has all copies there were; of *)
(* other slots, what was there.                                            *)
LEMMA CleanupCopies ==
    ASSUME ArrayInv, Cleanup, NEW s \in DOMAIN slotMap', NEW k \in DOMAIN slotMap'[s]
    PROVE  /\ s \notin eligible => slotMap'[s] = slotMap[s]
           /\ s \in eligible =>
                \A e \in entries(slotMap'[s][k]) :
                    /\ e \in allEntries(s) /\ e.pubkey \in reported
                    /\ slotMap'[s][k].validators[e] = copiesOf(s, e)
<1>1. s \in DOMAIN slotMap
      /\ slotMap'[s] = IF s \in eligible THEN updatedGroupDataArray(s) ELSE slotMap[s]
  BY DEF Cleanup, cleanup
<1>2. CASE s \in eligible
  <2> DEFINE g == slotMap[s][place(keptPlaces(s), k)]
  <2>1. slotMap'[s][k].validators = remainingFor(s, g)
    BY <1>1, <1>2 DEF updatedGroupDataArray
  <2> HIDE DEF g
  <2>2. entries(slotMap'[s][k]) = keptOf(s, g)
    BY <1>2, <2>1, KeptOfEligible DEF entries
  <2>3. \A e \in keptOf(s, g) : e \in allEntries(s) /\ e.pubkey \in reported
    BY <1>2 DEF keptOf
  <2>4. \A e \in keptOf(s, g) : remainingFor(s, g)[e] = copiesOf(s, e)
    BY <1>2, <2>3 DEF remainingFor, allValidatorsOf, remaining, keptOf
  <2> QED
    BY <1>2, <2>1, <2>2, <2>3, <2>4
<1> QED
  BY <1>1, <1>2

(* A slot in which someone multiplied is reported waits for its check.     *)
LEMMA CopiedWaits ==
    ASSUME ScanInv, ReportedFiled, [Next]_vars, "ineffective" \notin happened',
           UNCHANGED slotMap, pc' = "slots", NEW v \in reported', v \in settled,
           pc = "slots" /\ v \in reported => \E s0 \in todo : FiledLate(v, s0)
    PROVE  \E s0 \in todo' : FiledLate(v, s0)'
<1>0. /\ ArrayInv /\ eligible \subseteq DOMAIN slotMap /\ todo \subseteq eligible
      /\ \A s \in eligible : s <= finalized
      /\ DOMAIN slotMap \subseteq Int
  BY DEF ScanInv, ArrayInv, PhaseInv, StoreInv
<1>1. v \in reported
  BY ReportedGrows, FoundIsFiled
<1>2. ~Cleanup
  BY DEF Cleanup, Rest
<1>3. CASE SomeEligible
  <2>1. PICK s \in DOMAIN slotMap :
            /\ s <= finalized
            /\ pc = "scan" => s <= currentSlot
            /\ FiledLate(v, s)
    BY <1>1 DEF ReportedFiled
  <2>2. s \in todo'
    BY <1>3, <2>1 DEF SomeEligible, EligibleSlots
  <2> QED
    BY <1>2, <2>1, <2>2, FiledStays
<1>4. ASSUME NEW s1 \in todo, ProcessSlot(s1)
      PROVE  \E s0 \in todo' : FiledLate(v, s0)'
  <2>1. /\ pc = "slots" /\ todo' = todo \ {s1}
        /\ reported' = (reported \ NoLongerTracked(s1)) \cup FoundLate(s1)
    BY <1>4 DEF ProcessSlot
  <2>2. PICK s0 \in todo : FiledLate(v, s0)
    BY <1>1, <2>1
  <2>3. v \notin FoundLate(s1) /\ v \notin NoLongerTracked(s1)
    BY <2>1, FoundIsFiled
  <2>4. s0 # s1
    BY <1>0, <2>2, <2>3, FiledIsChecked
  <2>5. s0 \in todo' /\ s0 \in DOMAIN slotMap /\ s0 <= finalized
    BY <1>0, <2>1, <2>2, <2>4
  <2> QED
    BY <1>2, <2>2, <2>5, FiledStays
<1>5. CASE UNCHANGED <<pc, todo>>
  <2>1. PICK s0 \in todo : FiledLate(v, s0)
    BY <1>1, <1>5
  <2> QED
    BY <1>0, <1>2, <1>5, <2>1, FiledStays
<1>6. SomeEligible \/ (\E s1 \in todo : ProcessSlot(s1)) \/ UNCHANGED <<pc, todo>>
  <2>1. ASSUME NEW s1 \in todo, SlotFails(s1) PROVE FALSE
    BY <2>1 DEF SlotFails
  <2>2. /\ ~StartScan /\ ~BeaconState /\ ~NothingEligible /\ ~Cleanup /\ ~CycleFails
    BY DEF StartScan, BeaconState, NothingEligible, Cleanup, CycleFails, Rest
  <2> QED
    BY <2>1, <2>2
    DEF Next, BotStep, Environment, vars, scanVars, QueryBatch, LookUpEvent, PushRequest
<1> QED
  BY <1>3, <1>4, <1>5, <1>6

LEMMA CopiedNext ==
    ScanInv /\ ReportedFiled /\ CopiedOnce /\ [Next]_vars /\ "ineffective" \notin happened'
        => CopiedOnce'
<1> SUFFICES ASSUME ScanInv, ReportedFiled, CopiedOnce, [Next]_vars,
                    "ineffective" \notin happened',
                    NEW s \in DOMAIN slotMap', NEW i \in DOMAIN slotMap'[s],
                    NEW e \in entries(slotMap'[s][i])
             PROVE  \/ ListedOnce(slotMap'[s][i], e)
                    \/ /\ e.pubkey \in settled'
                       /\ pc' = "slots" /\ e.pubkey \in reported' =>
                            \E s0 \in todo' : FiledLate(e.pubkey, s0)'
  BY DEF CopiedOnce, ListedOnce, entries, decodeValidatorsData
<1>0. ArrayInv /\ settled \subseteq settled'
  BY StepKinds, SettledGrows DEF ScanInv
<1>1. CASE PushRequest
  <2> DEFINE r == Head(results)
  <2>1. GrownBy(r) /\ r \in Requests
    BY <1>1, PushOfHead
  <2>2. pc' # "slots"
    BY <1>1 DEF PushRequest, Scanning
  <2> HIDE DEF r
  <2>3. CASE s \in DOMAIN slotMap /\ i \in DOMAIN slotMap[s]
    <3>1. slotMap'[s][i] = slotMap[s][i]
      BY <2>1, <2>3 DEF GrownBy
    <3>2. ListedOnce(slotMap[s][i], e) \/ e.pubkey \in settled
      BY <2>3, <3>1 DEF CopiedOnce
    <3> QED
      BY <1>0, <2>2, <3>1, <3>2
  <2>4. CASE slotMap'[s][i] = groupFor(r, s)
    <3>1. e \in entries(groupFor(r, s)) /\ groupFor(r, s).exitRequest = r
      BY <2>1, <2>4, NewGroup
    <3>2. e \in decodeValidatorsData(r)
      BY <2>1, <3>1, NewGroup
    <3>3. groupFor(r, s).validators[e] = 1
      BY <3>1 DEF groupFor, entries
    <3> QED
      BY <2>4, <3>1, <3>2, <3>3 DEF ListedOnce
  <2> QED
    BY <2>1, <2>3, <2>4 DEF GrownBy
<1>2. CASE Cleanup
  <2>1. s \in DOMAIN slotMap /\ pc' # "slots"
    BY <1>0, <1>2, CleanupCleans DEF Cleanup, Cleaned, Rest, ArrayInv
  <2>2. CASE s \notin eligible
    <3>1. slotMap'[s] = slotMap[s]
      BY <1>0, <1>2, <2>2, CleanupCopies
    <3> QED
      BY <1>0, <2>1, <3>1 DEF CopiedOnce
  <2>3. CASE s \in eligible
    <3>1. e.pubkey \in reported
      BY <1>0, <1>2, <2>3, CleanupCopies
    <3> QED
      BY <1>0, <2>1, <3>1 DEF ReportedFiled
  <2> QED
    BY <2>2, <2>3
<1>3. CASE UNCHANGED slotMap
  <2>1. \/ ListedOnce(slotMap[s][i], e)
        \/ /\ e.pubkey \in settled
           /\ pc = "slots" /\ e.pubkey \in reported =>
                \E s0 \in todo : FiledLate(e.pubkey, s0)
    BY <1>3 DEF CopiedOnce
  <2>2. CASE ListedOnce(slotMap[s][i], e)
    BY <1>3, <2>2
  <2>3. CASE ~ListedOnce(slotMap[s][i], e)
    BY <1>0, <1>3, <2>1, <2>3, CopiedWaits
  <2> QED
    BY <2>2, <2>3
<1> QED
  BY <1>1, <1>2, <1>3, ArraysStill

(* In the cleanup, v's groups keep their order and their requests.         *)
LEMMA CleanupListings ==
    ASSUME ScanInv, [Next]_vars, Cleanup, NEW s \in DOMAIN slotMap', NEW v \in reported
    PROVE  /\ Cardinality(Listings(slotMap[s], v)) \in Nat
           /\ Cardinality(Listings(slotMap[s], v)) <= Cardinality(Listings(slotMap'[s], v))
<1> DEFINE a == slotMap[s]
           b == slotMap'[s]
           h == [i \in GroupsWith(a, v) |-> CHOOSE k \in DOMAIN b : placeBefore(s, k) = i]
<1>1. Cleaned /\ s \in DOMAIN slotMap
  BY CleanupCleans DEF Cleanup, Cleaned, ScanInv, ArrayInv
<1>2. GroupArray(b)
  BY ArrayNext DEF ScanInv, ArrayInv, StoreInv, GroupArray
<1>3. ASSUME NEW i \in GroupsWith(a, v)
      PROVE  /\ h[i] \in DOMAIN b /\ placeBefore(s, h[i]) = i
             /\ h[i] \in GroupsWith(b, v) /\ b[h[i]].exitRequest = a[i].exitRequest
  <2>1. PICK e \in entries(a[i]) : e.pubkey = v
    BY DEF GroupsWith, pubkeys
  <2>2. i \in DOMAIN a /\ e \in keptOf(s, a[i])
    BY <1>1, <2>1 DEF GroupsWith, keptOf, allEntries, pubkeys
  <2>3. \E k \in DOMAIN b : placeBefore(s, k) = i
    BY <1>1, <2>2 DEF Cleaned
  <2>4. h[i] \in DOMAIN b /\ placeBefore(s, h[i]) = i
    BY <2>3
  <2> HIDE DEF h
  <2>5. e \in entries(b[h[i]]) /\ b[h[i]].exitRequest = a[i].exitRequest
    BY <1>1, <2>2, <2>4 DEF Cleaned
  <2> QED
    BY <2>1, <2>4, <2>5 DEF GroupsWith, pubkeys
<1>4. \A i, j \in GroupsWith(a, v) : h[i] = h[j] => i = j
  BY <1>3
<1> HIDE DEF h
<1>5. \A i \in GroupsWith(a, v) :
            h[i] \in GroupsWith(b, v) /\ b[h[i]].exitRequest = a[i].exitRequest
  BY <1>3
<1> HIDE DEF a, b
<1>6. /\ Cardinality(Listings(a, v)) \in Nat
      /\ Cardinality(Listings(a, v)) <= Cardinality(Listings(b, v))
  BY <1>2, <1>4, <1>5, ListingsGrow
<1> QED
  BY <1>6 DEF a, b

(* A push leaves v's groups in their places. *)
LEMMA PushListings ==
    ASSUME ScanInv, [Next]_vars, PushRequest, NEW s \in DOMAIN slotMap, NEW v
    PROVE  /\ Cardinality(Listings(slotMap[s], v)) \in Nat
           /\ Cardinality(Listings(slotMap[s], v)) <= Cardinality(Listings(slotMap'[s], v))
<1> DEFINE a == slotMap[s]
           b == slotMap'[s]
           h == [i \in GroupsWith(a, v) |-> i]
<1>1. s \in DOMAIN slotMap' /\ \A i \in DOMAIN a : i \in DOMAIN b /\ b[i] = a[i]
  <2>1. GrownBy(Head(results))
    BY PushOfHead
  <2> QED
    BY <2>1 DEF GrownBy
<1>2. GroupArray(b)
  BY <1>1, ArrayNext DEF ScanInv, ArrayInv, StoreInv, GroupArray
<1>3. \A i \in GroupsWith(a, v) :
            h[i] \in GroupsWith(b, v) /\ b[h[i]].exitRequest = a[i].exitRequest
  BY <1>1 DEF GroupsWith
<1>4. \A i, j \in GroupsWith(a, v) : h[i] = h[j] => i = j
  OBVIOUS
<1> HIDE DEF a, b, h
<1>5. /\ Cardinality(Listings(a, v)) \in Nat
      /\ Cardinality(Listings(a, v)) <= Cardinality(Listings(b, v))
  BY <1>2, <1>3, <1>4, ListingsGrow
<1> QED
  BY <1>5 DEF a, b

LEMMA BoundGrows ==
    ASSUME NEW g, NEW a, NEW b, NEW v, WithinBound(g, a, v), GroupArray(b),
           Cardinality(Listings(a, v)) \in Nat,
           Cardinality(Listings(a, v)) <= Cardinality(Listings(b, v))
    PROVE  WithinBound(g, b, v)
<1>1. Cardinality(CopiesIn(g, v)) \in Nat /\ Cardinality(Listings(b, v)) \in Nat
  BY FS_CardinalityType, ListingsFinite DEF WithinBound
<1> QED
  BY <1>1 DEF WithinBound

LEMMA BoundedNext ==
    ScanInv /\ ReportedFiled /\ CopiedOnce /\ BoundInv /\ [Next]_vars => BoundInv'
<1> SUFFICES ASSUME ScanInv, ReportedFiled, CopiedOnce, BoundInv, [Next]_vars,
                    NEW s \in DOMAIN slotMap', NEW i \in DOMAIN slotMap'[s],
                    NEW v \in Validators
             PROVE  WithinBound(slotMap'[s][i], slotMap'[s], v)
  BY DEF BoundInv, WithinBound, CopiesIn, entries, Listings, GroupsWith, pubkeys, PlacesIn
<1>1. ASSUME NEW s1 \in DOMAIN slotMap, NEW i1 \in DOMAIN slotMap[s1]
      PROVE  WithinBound(slotMap[s1][i1], slotMap[s1], v)
  BY DEF BoundInv
<1>2. ArrayInv /\ ArrayInv'
  BY ArrayNext DEF ScanInv
<1>3. ASSUME NEW g, \A e \in entries(g) : e.pubkey # v, GroupArray(slotMap'[s])
      PROVE  WithinBound(g, slotMap'[s], v)
  <2>1. CopiesIn(g, v) = {}
    BY <1>3 DEF CopiesIn
  <2>2. Cardinality(Listings(slotMap'[s], v)) \in Nat
    BY <1>3, ListingsFinite
  <2> QED
    BY <2>1, <2>2, FS_EmptySet DEF WithinBound
<1>4. GroupArray(slotMap'[s])
  BY <1>2 DEF ArrayInv, StoreInv, GroupArray
<1>5. CASE PushRequest
  <2> DEFINE r == Head(results)
  <2>1. GrownBy(r) /\ r \in Requests
    BY <1>5, PushOfHead
  <2> HIDE DEF r
  <2>2. CASE s \in DOMAIN slotMap /\ i \in DOMAIN slotMap[s]
    <3>1. slotMap'[s][i] = slotMap[s][i]
      BY <2>1, <2>2 DEF GrownBy
    <3>2. WithinBound(slotMap[s][i], slotMap[s], v)
      BY <1>1, <2>2
    <3>3. /\ Cardinality(Listings(slotMap[s], v)) \in Nat
          /\ Cardinality(Listings(slotMap[s], v)) <= Cardinality(Listings(slotMap'[s], v))
      BY <1>5, <2>2, PushListings
    <3> QED
      BY <1>4, <3>1, <3>2, <3>3, BoundGrows
  <2>3. CASE slotMap'[s][i] = groupFor(r, s)
    <3>1. ASSUME NEW e \in entries(slotMap'[s][i])
          PROVE  ListedOnce(slotMap'[s][i], e)
      <4>1. e \in entries(groupFor(r, s)) /\ groupFor(r, s).exitRequest = r
        BY <2>1, <2>3, <3>1, NewGroup
      <4>2. e \in decodeValidatorsData(r)
        BY <2>1, <4>1, NewGroup
      <4>3. groupFor(r, s).validators[e] = 1
        BY <4>1 DEF groupFor, entries
      <4> QED
        BY <2>3, <4>1, <4>2, <4>3 DEF ListedOnce
    <3> QED
      BY <1>4, <3>1, OnceIsWithinBound
  <2> QED
    BY <2>1, <2>2, <2>3 DEF GrownBy
<1>6. CASE Cleanup
  <2>1. s \in DOMAIN slotMap
    BY <1>2, <1>6, CleanupCleans DEF Cleanup, Cleaned, ArrayInv
  <2>2. CASE s \notin eligible
    <3>1. slotMap'[s] = slotMap[s]
      BY <1>2, <1>6, <2>2, CleanupCopies
    <3> QED
      BY <1>1, <2>1, <3>1
  <2>3. CASE s \in eligible /\ v \notin reported
    <3>1. \A e \in entries(slotMap'[s][i]) : e.pubkey # v
      BY <1>2, <1>6, <2>3, CleanupCopies
    <3> QED
      BY <1>3, <1>4, <3>1
  <2>4. CASE s \in eligible /\ v \in reported
    <3>1. pc = "slots" /\ todo = {}
      BY <1>6 DEF Cleanup
    <3>2. \A j \in DOMAIN slotMap[s] : \A e \in entries(slotMap[s][j]) :
                e.pubkey = v => ListedOnce(slotMap[s][j], e)
      BY <2>1, <2>4, <3>1 DEF CopiedOnce
    <3>3. \A e \in entries(slotMap'[s][i]) : e.pubkey = v =>
                e \in allEntries(s) /\ slotMap'[s][i].validators[e] = copiesOf(s, e)
      BY <1>2, <1>6, <2>4, CleanupCopies
    <3>4. GroupArray(slotMap[s])
      BY <1>2, <2>1 DEF ArrayInv, StoreInv, GroupArray
    <3> DEFINE g == slotMap'[s][i]
    <3>5. WithinBound(g, slotMap[s], v)
      <4> HIDE DEF g
      <4>1. \A e \in entries(g) : e.pubkey = v =>
                e \in allEntries(s) /\ g.validators[e] = copiesOf(s, e)
        BY <3>3 DEF g
      <4> QED
        BY <2>1, <3>2, <3>4, <4>1, TogetherWithinBound
    <3>6. /\ Cardinality(Listings(slotMap[s], v)) \in Nat
          /\ Cardinality(Listings(slotMap[s], v)) <= Cardinality(Listings(slotMap'[s], v))
      BY <1>6, <2>4, CleanupListings
    <3> QED
      BY <1>4, <3>5, <3>6, BoundGrows
  <2> QED
    BY <2>2, <2>3, <2>4
<1>7. CASE UNCHANGED slotMap
  BY <1>1, <1>7
<1> QED
  BY <1>5, <1>6, <1>7, ArraysStill

LEMMA CopiesInit == Init => CopiesInv
BY DEF Init, ChainInit, CopiesInv, ReportedFiled, CopiedOnce, BoundInv

LEMMA CopiesNext == ScanInv /\ CopiesInv /\ [Next]_vars => CopiesInv'
<1>1. [Next]_vars => happened \subseteq happened'
  BY FailuresRemembered
<1> QED
  BY <1>1, ReportedNext, CopiedNext, BoundedNext DEF CopiesInv

(* cleanupProcessedEntries gives each group of a validator the copies of   *)
(* all of them.  However often the ranges overlap, the requests share      *)
(* slots and cycles fail half-way: as long as every transaction sent has   *)
(* its effect, a group never has more copies of a validator than the       *)
(* requests of its slot's groups list it.                                  *)
THEOREM CopiedOnlyOnce == Spec => []CopiesBounded
<1>1. Init => ScanInv /\ CopiesInv
  BY ScanInit, CopiesInit
<1>2. ScanInv /\ CopiesInv /\ [Next]_vars => (ScanInv /\ CopiesInv)'
  BY ScanNext, CopiesNext
<1>3. CopiesInv => CopiesBounded
  BY DEF CopiesInv, BoundInv, WithinBound, CopiesBounded
<1> QED
  BY <1>1, <1>2, <1>3, PTL DEF Spec

=============================================================================
