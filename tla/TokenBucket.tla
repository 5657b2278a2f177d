---------------------------- MODULE TokenBucket ----------------------------
(***************************************************************************)
(* The ideal token bucket: one bucket per key, full at first, refilled at  *)
(* every instant and never above its capacity.  A token is Unit parts, of  *)
(* which a bucket gains Rate at every tick of the clock.                   *)
(***************************************************************************)
EXTENDS Naturals

CONSTANTS Keys, Rate, Burst, Unit,
          MaxTime        \* bound: the clock stops here

\* What the theorems assume of them.
BucketConstants ==
  /\ Rate \in Nat \ {0}
  /\ Burst \in Nat \ {0}
  /\ Unit \in Nat \ {0}
  /\ MaxTime \in Nat

VARIABLES
  now,           \* the clock
  level,         \* key -> the parts in its bucket
  taken          \* key -> time -> the tokens taken at or after that time (history)

bucketVars == <<now, level, taken>>

Capacity == Burst * Unit

\* What taking a token of k now adds to the history.
Counted(k) ==
  [taken EXCEPT ![k] = [s \in 0 .. MaxTime |->
                          IF s <= now THEN taken[k][s] + 1 ELSE taken[k][s]]]

BucketInit ==
  /\ now = 0
  /\ level = [k \in Keys |-> Capacity]
  /\ taken = [k \in Keys |-> [s \in 0 .. MaxTime |-> 0]]

Advance ==
  /\ now < MaxTime
  /\ now' = now + 1
  /\ level' = [k \in Keys |->
                 IF level[k] + Rate <= Capacity THEN level[k] + Rate ELSE Capacity]
  /\ UNCHANGED taken

Take(k) ==
  /\ level[k] >= Unit
  /\ level' = [level EXCEPT ![k] = level[k] - Unit]
  /\ taken' = Counted(k)
  /\ UNCHANGED now

BucketNext == Advance \/ \E k \in Keys : Take(k)

BucketSpec == BucketInit /\ [][BucketNext]_bucketVars

-----------------------------------------------------------------------------
BucketTypeOK ==
  /\ now \in 0 .. MaxTime
  /\ level \in [Keys -> 0 .. Capacity]
  /\ taken \in [Keys -> [0 .. MaxTime -> Nat]]

(***************************************************************************)
(* In no window of time, from any s to now, are more tokens taken than a   *)
(* full bucket and what it gained in that window.                          *)
(***************************************************************************)
WithinRate ==
  \A k \in Keys : \A s \in 0 .. now :
    taken[k][s] * Unit <= Capacity + Rate * (now - s)

(***************************************************************************)
(* A bucket has no token left only when one token more would exceed that   *)
(* bound in some window.                                                   *)
(***************************************************************************)
EmptyOnlyWhenExhausted ==
  \A k \in Keys : level[k] < Unit =>
    \E s \in 0 .. now : (taken[k][s] + 1) * Unit > Capacity + Rate * (now - s)

\* What is left in a bucket is part of the bound, in every window, and makes
\* it tight in the one that began when the bucket was last full.
WithinBounds(k) ==
  \A s \in 0 .. MaxTime :
    /\ s > now => taken[k][s] = 0
    /\ s <= now => taken[k][s] * Unit + level[k] <= Capacity + Rate * (now - s)

Tight(k) ==
  \E s \in 0 .. now : taken[k][s] * Unit + level[k] >= Capacity + Rate * (now - s)

BucketInv == \A k \in Keys : WithinBounds(k) /\ Tight(k)
=============================================================================
