------------------------- MODULE TokenBucketProofs -------------------------
(***************************************************************************)
(* The ideal bucket keeps its promises, for every rate, burst and clock.   *)
(***************************************************************************)
EXTENDS TokenBucket, Integers, TLAPS

\* Sums of products, as the provers want them.
LEMMA OneMore ==
  ASSUME NEW n \in Int, NEW u \in Int
  PROVE  /\ (n + 1) * u = n * u + u
         /\ u * (n + 1) = u * n + u
         /\ n * u \in Int
BY SMT

LEMMA CapacityIsNat == BucketConstants => Capacity \in Nat
BY SMT DEF BucketConstants, Capacity

LEMMA BucketTyped ==
  BucketConstants /\ BucketTypeOK /\ [BucketNext]_bucketVars => BucketTypeOK'
<1> USE DEF BucketConstants
<1> SUFFICES ASSUME BucketConstants, BucketTypeOK, [BucketNext]_bucketVars PROVE BucketTypeOK'
  OBVIOUS
<1>1. CASE Advance
  BY <1>1, CapacityIsNat, SMT DEF BucketTypeOK, Advance
<1>2. ASSUME NEW k \in Keys, Take(k) PROVE BucketTypeOK'
  <2>1. level' \in [Keys -> 0 .. Capacity]
    BY <1>2, CapacityIsNat, SMT DEF BucketTypeOK, Take
  <2>2. taken' \in [Keys -> [0 .. MaxTime -> Nat]]
    BY <1>2, SMT DEF BucketTypeOK, Take, Counted
  <2> QED BY <1>2, <2>1, <2>2 DEF BucketTypeOK, Take
<1>3. CASE UNCHANGED bucketVars
  BY <1>3 DEF BucketTypeOK, bucketVars
<1> QED BY <1>1, <1>2, <1>3 DEF BucketNext

\* A tick gives every window the Rate it gives the bucket.
LEMMA AdvanceBounded ==
  ASSUME BucketConstants, BucketTypeOK, Advance, NEW k \in Keys, WithinBounds(k)
  PROVE  WithinBounds(k)'
<1> USE DEF BucketConstants
<1> SUFFICES ASSUME NEW s \in 0 .. MaxTime
             PROVE  /\ s > now' => taken[k][s] = 0
                    /\ s <= now' => taken[k][s] * Unit + level'[k] <= Capacity + Rate * (now' - s)
  BY DEF WithinBounds, Advance
<1> DEFINE n == taken[k][s]
<1>1. /\ now \in Nat /\ now' = now + 1 /\ n \in Nat
      /\ level[k] \in 0 .. Capacity
      /\ level'[k] <= level[k] + Rate /\ level'[k] \in 0 .. Capacity
  BY CapacityIsNat, SMT DEF BucketTypeOK, Advance
<1>2. /\ s > now => n = 0
      /\ s <= now => n * Unit + level[k] <= Capacity + Rate * (now - s)
  BY DEF WithinBounds
<1>3. CASE s <= now
  <2>1. now - s \in Nat /\ now' - s = (now - s) + 1
    BY <1>1, <1>3, SMT
  <2>2. Rate * (now' - s) = Rate * (now - s) + Rate /\ Rate * (now - s) \in Int
    BY <2>1, OneMore, SMT
  <2>3. n * Unit \in Int
    BY <1>1, OneMore, SMT
  <2> HIDE DEF n
  <2>4. n * Unit + level'[k] <= Capacity + Rate * (now' - s)
    BY <1>1, <1>2, <1>3, <2>2, <2>3, CapacityIsNat, SMT
  <2>5. ~(s > now')
    BY <1>1, <1>3, SMT
  <2> QED BY <2>4, <2>5 DEF n
<1>4. CASE s > now
  <2>1. n = 0 /\ 0 * Unit = 0
    BY <1>2, <1>4, SMT
  <2>2. s <= now' => now' - s = 0
    BY <1>1, <1>4, SMT
  <2>3. Rate * 0 = 0
    BY SMT
  <2> HIDE DEF n
  <2>4. s <= now' => n * Unit + level'[k] <= Capacity + Rate * (now' - s)
    <3> SUFFICES ASSUME s <= now'
                 PROVE  n * Unit + level'[k] <= Capacity + Rate * (now' - s)
      OBVIOUS
    <3>1. n * Unit = 0 /\ Rate * (now' - s) = 0
      BY <2>1, <2>2, <2>3
    <3>2. level'[k] \in 0 .. Capacity /\ Capacity \in Nat
      BY <1>1, CapacityIsNat
    <3> QED BY <3>1, <3>2, SMT
  <2> QED BY <2>1, <2>4 DEF n
<1> QED BY <1>1, <1>3, <1>4, SMT

\* The bound stays tight where it was, or becomes so in the empty window of
\* a bucket that is full.
LEMMA AdvanceTight ==
  ASSUME BucketConstants, BucketTypeOK, Advance, NEW k \in Keys, WithinBounds(k), Tight(k)
  PROVE  Tight(k)'
<1> USE DEF BucketConstants
<1>1. /\ now \in Nat /\ now' = now + 1 /\ now' \in 0 .. MaxTime /\ taken' = taken
      /\ level[k] \in 0 .. Capacity
  BY CapacityIsNat, SMT DEF BucketTypeOK, Advance
<1>2. CASE level'[k] = level[k] + Rate
  <2> PICK s \in 0 .. now : taken[k][s] * Unit + level[k] >= Capacity + Rate * (now - s)
    BY DEF Tight
  <2>1. s \in 0 .. now' /\ now' - s = (now - s) + 1 /\ now - s \in Nat /\ taken[k][s] \in Nat
    BY <1>1, SMT DEF BucketTypeOK
  <2>2. Rate * (now' - s) = Rate * (now - s) + Rate /\ Rate * (now - s) \in Int
    <3>1. now - s \in Int /\ Rate \in Int
      BY <2>1, SMT
    <3>2. Rate * ((now - s) + 1) = Rate * (now - s) + Rate /\ (now - s) * Rate \in Int
      BY <3>1, OneMore
    <3>3. Rate * (now - s) = (now - s) * Rate
      BY <3>1, SMT
    <3> QED BY <2>1, <3>2, <3>3
  <2>3. taken[k][s] * Unit \in Int
    BY <2>1, OneMore, SMT
  <2>4. taken[k][s] * Unit + level'[k] >= Capacity + Rate * (now' - s)
    BY <1>1, <1>2, <2>2, <2>3, CapacityIsNat, SMT
  <2> QED BY <1>1, <2>1, <2>4 DEF Tight
<1>3. CASE level'[k] = Capacity
  <2>1. taken[k][now'] = 0 /\ now' - now' = 0 /\ now' \in 0 .. now'
    BY <1>1, SMT DEF WithinBounds
  <2>2. Rate * 0 = 0 /\ 0 * Unit = 0
    BY SMT
  <2>3. taken[k][now'] * Unit + level'[k] >= Capacity + Rate * (now' - now')
    BY <1>3, <2>1, <2>2, CapacityIsNat, SMT
  <2> QED BY <1>1, <2>1, <2>3 DEF Tight
<1>4. level'[k] = level[k] + Rate \/ level'[k] = Capacity
  BY DEF Advance
<1> QED BY <1>2, <1>3, <1>4

\* A token taken leaves the bucket and enters every window.
LEMMA TakeCounts ==
  ASSUME BucketConstants, BucketTypeOK, NEW k \in Keys, Take(k), NEW j \in Keys, NEW s \in 0 .. MaxTime
  PROVE  /\ s > now => taken'[j][s] = taken[j][s]
         /\ s <= now => taken'[j][s] * Unit + level'[j] = taken[j][s] * Unit + level[j]
<1> USE DEF BucketConstants
<1> DEFINE n == taken[j][s]
<1>1. CASE j # k
  BY <1>1, SMT DEF Take, Counted, BucketTypeOK
<1>2. CASE j = k
  <2>1. /\ level'[j] = level[j] - Unit
        /\ s > now => taken'[j][s] = n
        /\ s <= now => taken'[j][s] = n + 1
    BY <1>2, SMT DEF Take, Counted, BucketTypeOK
  <2>2. n \in Nat /\ level[j] \in Int /\ now \in Nat
    BY CapacityIsNat, SMT DEF BucketTypeOK
  <2>3. (n + 1) * Unit = n * Unit + Unit /\ n * Unit \in Int
    BY <2>2, OneMore, SMT
  <2>4. s <= now => taken'[j][s] * Unit + level'[j] = n * Unit + level[j]
    <3> SUFFICES ASSUME s <= now
                 PROVE  taken'[j][s] * Unit + level'[j] = n * Unit + level[j]
      OBVIOUS
    <3>1. taken'[j][s] * Unit = n * Unit + Unit
      BY <2>1, <2>3
    <3> QED BY <2>1, <2>2, <2>3, <3>1, SMT
  <2> QED BY <2>1, <2>4
<1> QED BY <1>1, <1>2

LEMMA TakeKeeps ==
  ASSUME BucketConstants, BucketTypeOK, NEW k \in Keys, Take(k), NEW j \in Keys, WithinBounds(j), Tight(j)
  PROVE  WithinBounds(j)' /\ Tight(j)'
<1> USE DEF BucketConstants
<1>1. now' = now /\ \A s \in 0 .. now : s \in 0 .. MaxTime /\ s <= now
  BY SMT DEF BucketTypeOK, Take
<1>2. WithinBounds(j)'
  BY <1>1, TakeCounts DEF WithinBounds
<1>3. Tight(j)'
  BY <1>1, TakeCounts DEF Tight
<1> QED BY <1>2, <1>3

LEMMA BucketInvHolds == BucketConstants => (BucketSpec => [](BucketTypeOK /\ BucketInv))
<1> SUFFICES ASSUME BucketConstants PROVE BucketSpec => [](BucketTypeOK /\ BucketInv)
  OBVIOUS
<1> USE DEF BucketConstants
<1> DEFINE Inv == BucketTypeOK /\ BucketInv
<1>1. BucketInit => Inv
  <2> SUFFICES ASSUME BucketInit PROVE Inv
    OBVIOUS
  <2>1. BucketTypeOK
    BY CapacityIsNat, SMT DEF BucketInit, BucketTypeOK
  <2>2. 0 * Unit = 0 /\ Rate * (0 - 0) = 0
    BY SMT
  <2>3. ASSUME NEW k \in Keys PROVE WithinBounds(k)
    BY <2>2, CapacityIsNat, SMT DEF BucketInit, WithinBounds
  <2>4. ASSUME NEW k \in Keys PROVE Tight(k)
    <3>1. /\ now = 0 /\ 0 \in 0 .. now /\ 0 \in 0 .. MaxTime
          /\ level[k] = Capacity /\ taken[k][0] = 0
      BY SMT DEF BucketInit
    <3>2. taken[k][0] * Unit + level[k] >= Capacity + Rate * (now - 0)
      BY <2>2, <3>1, CapacityIsNat, SMT
    <3> QED BY <3>1, <3>2 DEF Tight
  <2> QED BY <2>1, <2>3, <2>4 DEF BucketInv
<1>2. Inv /\ [BucketNext]_bucketVars => Inv'
  <2> SUFFICES ASSUME Inv, [BucketNext]_bucketVars PROVE Inv'
    OBVIOUS
  <2>1. BucketTypeOK'
    BY BucketTyped
  <2>2. CASE Advance
    BY <2>1, <2>2, AdvanceBounded, AdvanceTight DEF BucketInv
  <2>3. CASE \E k \in Keys : Take(k)
    BY <2>1, <2>3, TakeKeeps DEF BucketInv
  <2>4. CASE UNCHANGED bucketVars
    BY <2>1, <2>4 DEF bucketVars, BucketInv, WithinBounds, Tight
  <2> QED BY <2>2, <2>3, <2>4 DEF BucketNext
<1> QED BY <1>1, <1>2, PTL DEF BucketSpec

\* What the two properties are made of is typed.
LEMMA BucketNumbers ==
  ASSUME BucketConstants, BucketTypeOK, NEW k \in Keys, NEW s \in 0 .. now
  PROVE  /\ s \in 0 .. MaxTime /\ s <= now /\ level[k] \in Nat
         /\ taken[k][s] * Unit \in Int /\ Rate * (now - s) \in Int
         /\ (taken[k][s] + 1) * Unit = taken[k][s] * Unit + Unit
<1> USE DEF BucketConstants
<1>1. /\ s \in 0 .. MaxTime /\ s <= now /\ level[k] \in Nat
      /\ now - s \in Int /\ taken[k][s] \in Nat
  BY CapacityIsNat, SMT DEF BucketTypeOK
<1> QED BY <1>1, OneMore, SMT

(***************************************************************************)
(* An ideal bucket never yields more in a window than its capacity and     *)
(* what the rate gives in that window.                                     *)
(***************************************************************************)
THEOREM BucketWithinRate == BucketConstants => (BucketSpec => []WithinRate)
<1> SUFFICES ASSUME BucketConstants PROVE BucketSpec => []WithinRate
  OBVIOUS
<1> USE DEF BucketConstants
<1>1. BucketTypeOK /\ BucketInv => WithinRate
  <2> SUFFICES ASSUME BucketTypeOK, BucketInv, NEW k \in Keys, NEW s \in 0 .. now
               PROVE  taken[k][s] * Unit <= Capacity + Rate * (now - s)
    BY DEF WithinRate
  <2>1. taken[k][s] * Unit + level[k] <= Capacity + Rate * (now - s)
    BY BucketNumbers DEF BucketInv, WithinBounds
  <2> QED BY <2>1, BucketNumbers, CapacityIsNat, SMT
<1> QED BY <1>1, BucketInvHolds, PTL

(***************************************************************************)
(* An ideal bucket holds nothing back.                                     *)
(***************************************************************************)
THEOREM BucketGivesAll == BucketConstants => (BucketSpec => []EmptyOnlyWhenExhausted)
<1> SUFFICES ASSUME BucketConstants PROVE BucketSpec => []EmptyOnlyWhenExhausted
  OBVIOUS
<1> USE DEF BucketConstants
<1>1. BucketTypeOK /\ BucketInv => EmptyOnlyWhenExhausted
  <2> SUFFICES ASSUME BucketTypeOK, BucketInv, NEW k \in Keys, level[k] < Unit
               PROVE  \E s \in 0 .. now :
                        (taken[k][s] + 1) * Unit > Capacity + Rate * (now - s)
    BY DEF EmptyOnlyWhenExhausted
  <2>1. PICK s \in 0 .. now : taken[k][s] * Unit + level[k] >= Capacity + Rate * (now - s)
    BY DEF BucketInv, Tight
  <2>2. (taken[k][s] + 1) * Unit > Capacity + Rate * (now - s)
    BY <2>1, BucketNumbers, CapacityIsNat, SMT
  <2> QED BY <2>2
<1> QED BY <1>1, BucketInvHolds, PTL
=============================================================================
