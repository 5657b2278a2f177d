----------------------- MODULE LocalRateLimiterProofs -----------------------
(***************************************************************************)
(* The local limiter keeps its bounds, for every rate, burst, TTL and      *)
(* limit of keys, however long calls wait for the mutex.                   *)
(***************************************************************************)
EXTENDS LocalRateLimiter, Integers, FiniteSetTheorems, TLAPS

\* A call that waits has read a time that is at most Lag ago.
CallsOK ==
  \A c \in Calls : Waiting(c) =>
    call[c].key \in Keys /\ call[c].t <= now /\ now <= call[c].t + Lag

\* The clock of a bucket is at most Lag ahead of the reading of its last call.
ClocksOK ==
  \A k \in Present(visitors) :
    visitors[k].last <= visitors[k].lastSeen + Lag /\ visitors[k].last <= now

NothingYet ==
  \A s \in 0 .. MaxTime : s > now => taken[s] = 0 /\ rewound[s] = 0 /\ evicted[s] = 0

Granted(s) == (capacity + Rate * Lag) * (1 + evicted[s]) + Rate * rewound[s]

\* While the bucket is there, what was taken and what is left are within the
\* bound at the time of its clock;
Held(s) ==
  taken[s] * Unit + visitors[watched].tokens + Rate * s
    <= Granted(s) + Rate * visitors[watched].last
\* while it is not, there is room for another one, by a call that waited.
Dropped(s) ==
  taken[s] * Unit + capacity + Rate * Lag + Rate * s <= Granted(s) + Rate * now

Accounted ==
  \A s \in 0 .. now : taken[s] = 0 \/
    IF visitors[watched] = NoVisitor THEN Dropped(s) ELSE Held(s)

Fits == IsFiniteSet(Present(visitors)) /\ VisitorsBounded

\* The inductive invariant.
IInv == TypeOK /\ CallsOK /\ ClocksOK /\ NothingYet /\ Accounted /\ Fits

-----------------------------------------------------------------------------
(* Arithmetic                                                              *)

LEMMA Products ==
  ASSUME NEW a \in Int, NEW b \in Int, NEW x \in Int
  PROVE  /\ (a + b) * x = a * x + b * x
         /\ (a - b) * x = a * x - b * x
         /\ x * (a + b) = x * a + x * b
         /\ x * (a - b) = x * a - x * b
         /\ x * a \in Int /\ a * x \in Int
         /\ x * 1 = x /\ 1 * x = x
BY SMT

LEMMA Monotone ==
  ASSUME NEW a \in Int, NEW b \in Int, NEW x \in Nat, a <= b
  PROVE  x * a <= x * b
<1>1. x * (b - a) >= 0 /\ x * (b - a) = x * b - x * a
  BY SMT
<1>2. x * a \in Int /\ x * b \in Int
  BY SMT
<1> QED
  BY <1>1, <1>2, SMT

LEMMA ConstantsAreNat ==
  /\ Rate \in Nat /\ Burst \in Nat /\ Unit \in Nat /\ Lag \in Nat /\ MaxTime \in Nat
  /\ visitorTTL \in Nat /\ maxVisitors \in Nat \ {0}
  /\ capacity \in Nat /\ Rate * Lag \in Nat
  /\ Unit <= capacity /\ 0 < Unit
<1>1. /\ Rate \in Nat /\ Burst \in Nat \ {0} /\ Unit \in Nat \ {0} /\ Lag \in Nat
      /\ MaxTime \in Nat /\ visitorTTL \in Nat /\ maxVisitors \in Nat \ {0}
  BY LimiterConstants
<1>2. Unit * 1 <= Unit * Burst /\ Unit * Burst = Burst * Unit
  BY <1>1, Monotone, SMT
<1>3. Burst * Unit \in Nat /\ Rate * Lag \in Nat
  BY <1>1, SMT
<1> QED
  BY <1>1, <1>2, <1>3, SMT DEF capacity

\* What advance computes: never more than a full bucket, nor than the yield of
\* the time since last.
LEMMA AdvanceBounded ==
  ASSUME NEW v \in Visitor, NEW t \in Nat
  PROVE  /\ advance(v, t) \in 0 .. capacity
         /\ t >= v.last => advance(v, t) + Rate * v.last <= v.tokens + Rate * t
         /\ t < v.last => advance(v, t) = v.tokens
<1>1. v.tokens \in 0 .. capacity /\ v.last \in Nat
  BY ConstantsAreNat, SMT DEF Visitor
<1>2. CASE t < v.last
  <2>1. Rate * (t - t) = 0
    BY <1>2, ConstantsAreNat, SMT
  <2> QED
    BY <1>1, <1>2, <2>1, ConstantsAreNat, SMT DEF advance
<1>3. CASE t >= v.last
  <2>1. /\ t - v.last \in Nat /\ Rate * (t - v.last) = Rate * t - Rate * v.last
        /\ Rate * (t - v.last) \in Nat /\ Rate * t \in Int /\ Rate * v.last \in Int
    BY <1>1, <1>3, ConstantsAreNat, Products, SMT
  <2> QED
    BY <1>1, <1>3, <2>1, ConstantsAreNat, SMT DEF advance
<1> QED
  BY <1>1, <1>2, <1>3, SMT

LEMMA NewLimiterFull ==
  ASSUME NEW t \in Nat
  PROVE  NewLimiter \in Visitor /\ advance(NewLimiter, t) = capacity
<1>1. Rate * (t - 0) \in Nat
  BY ConstantsAreNat, SMT
<1> QED
  BY <1>1, ConstantsAreNat, SMT DEF NewLimiter, Visitor, advance

\* A bucket that was idle for its TTL has filled up meanwhile.
LEMMA ExpiredIsFull ==
  ASSUME NEW n \in Nat, NEW last \in Nat, NEW seen \in Nat,
         last <= seen + Lag, seen + visitorTTL <= n
  PROVE  Rate * last + capacity + Rate * Lag <= Rate * n
<1>1. last + visitorTTL <= n + Lag
  BY ConstantsAreNat, SMT
<1>2. Rate * (last + visitorTTL) <= Rate * (n + Lag)
  BY <1>1, ConstantsAreNat, Monotone, SMT
<1>3. /\ Rate * (last + visitorTTL) = Rate * last + Rate * visitorTTL
      /\ Rate * (n + Lag) = Rate * n + Rate * Lag
      /\ 2 * Rate * Lag = Rate * Lag + Rate * Lag
  BY ConstantsAreNat, SMT
<1>4. Rate * visitorTTL >= capacity + 2 * Rate * Lag
  BY LimiterConstants
<1>5. /\ Rate * last \in Int /\ Rate * visitorTTL \in Int /\ Rate * n \in Int
      /\ Rate * Lag \in Int
  BY ConstantsAreNat, SMT
<1> QED
  BY <1>2, <1>3, <1>4, <1>5, ConstantsAreNat, SMT

-----------------------------------------------------------------------------
(* The steps                                                               *)

\* Allow's clean-up and eviction only drop visitors, the clean-up those that
\* have expired.
Cleaned(c) == IF CleanupDue(call[c].t) THEN deleteExpired(visitors, call[c].t) ELSE visitors

LEMMA CleanedDrops ==
  ASSUME TypeOK, NEW c \in Calls, NEW k \in Keys
  PROVE  \/ Cleaned(c)[k] = visitors[k]
         \/ /\ Cleaned(c)[k] = NoVisitor
            /\ visitors[k] # NoVisitor /\ Expired(visitors[k], call[c].t)
BY DEF Cleaned, deleteExpired, TypeOK

LEMMA CleanedTyped ==
  ASSUME TypeOK, NEW c \in Calls
  PROVE  Cleaned(c) \in [Keys -> Visitor \cup {NoVisitor}]
BY DEF Cleaned, deleteExpired, TypeOK

LEMMA RoomDrops ==
  ASSUME NEW m \in [Keys -> Visitor \cup {NoVisitor}], NEW j \in Keys, NEW vs \in MakeRoom(m, j)
  PROVE  /\ vs \in [Keys -> Visitor \cup {NoVisitor}]
         /\ \A k \in Keys : vs[k] = m[k] \/ vs[k] = NoVisitor
         /\ vs[j] = m[j]
BY DEF MakeRoom, deleteOldest, Oldest, Present

\* What Allow does, in one place.
LEMMA AllowSteps ==
  ASSUME TypeOK, CallsOK, NEW c \in Calls, Allow(c)
  PROVE  \E vs \in [Keys -> Visitor \cup {NoVisitor}], v \in Visitor :
           LET k == call[c].key
               t == call[c].t IN
           /\ k \in Keys /\ t \in 0 .. MaxTime /\ t <= now /\ now <= t + Lag
           /\ vs \in MakeRoom(Cleaned(c), k)
           /\ vs[k] = Cleaned(c)[k]
           /\ \A j \in Keys : vs[j] = Cleaned(c)[j] \/ vs[j] = NoVisitor
           /\ v = IF vs[k] = NoVisitor THEN NewLimiter ELSE vs[k]
           /\ visitors' = [vs EXCEPT ![k] = [AllowN(v, t) EXCEPT !.lastSeen = t]]
           /\ taken' = IF k = watched /\ advance(v, t) >= Unit THEN Counted(taken, 1) ELSE taken
           /\ rewound' = IF k = watched /\ advance(v, t) >= Unit /\ t < v.last
                         THEN Counted(rewound, v.last - t) ELSE rewound
           /\ evicted' = IF watched \in Present(Cleaned(c)) \ Present(vs)
                         THEN Counted(evicted, 1) ELSE evicted
<1> DEFINE k == call[c].key
           t == call[c].t
<1>1. k \in Keys /\ t \in 0 .. MaxTime /\ t <= now /\ now <= t + Lag
  BY DEF Allow, CallsOK, TypeOK, Call
<1>2. PICK vs \in MakeRoom(Cleaned(c), k) :
        LET v == IF vs[k] = NoVisitor THEN NewLimiter ELSE vs[k]
            allowed == advance(v, t) >= Unit IN
        /\ visitors' = [vs EXCEPT ![k] = [AllowN(v, t) EXCEPT !.lastSeen = t]]
        /\ taken' = IF k = watched /\ allowed THEN Counted(taken, 1) ELSE taken
        /\ rewound' = IF k = watched /\ allowed /\ t < v.last
                      THEN Counted(rewound, v.last - t) ELSE rewound
        /\ evicted' = IF watched \in Present(Cleaned(c)) \ Present(vs)
                      THEN Counted(evicted, 1) ELSE evicted
  BY DEF Allow, Cleaned
<1> DEFINE v == IF vs[k] = NoVisitor THEN NewLimiter ELSE vs[k]
<1>3. /\ vs \in [Keys -> Visitor \cup {NoVisitor}]
      /\ \A j \in Keys : vs[j] = Cleaned(c)[j] \/ vs[j] = NoVisitor
      /\ vs[k] = Cleaned(c)[k]
  BY <1>1, <1>2, CleanedTyped, RoomDrops
<1>4. v \in Visitor
  <2>1. NewLimiter \in Visitor
    BY NewLimiterFull
  <2> QED
    BY <1>1, <1>3, <2>1
<1> QED
  BY <1>1, <1>2, <1>3, <1>4

\* The bucket after a call.
LEMMA AllowNTyped ==
  ASSUME NEW v \in Visitor, NEW t \in 0 .. MaxTime
  PROVE  LET u == [AllowN(v, t) EXCEPT !.lastSeen = t] IN
         /\ u \in Visitor /\ u.lastSeen = t
         /\ advance(v, t) >= Unit => u.tokens = advance(v, t) - Unit /\ u.last = t
         /\ ~(advance(v, t) >= Unit) => u.tokens = v.tokens /\ u.last = v.last
<1>1. advance(v, t) \in 0 .. capacity
  BY AdvanceBounded, ConstantsAreNat, SMT
<1>2. advance(v, t) >= Unit => advance(v, t) - Unit \in 0 .. capacity
  BY <1>1, ConstantsAreNat, SMT
<1>3. v.tokens \in 0 .. capacity /\ v.last \in 0 .. MaxTime
  BY DEF Visitor
<1>4. t \in 0 .. MaxTime
  OBVIOUS
<1>5. CASE advance(v, t) >= Unit
  <2>1. AllowN(v, t) = [v EXCEPT !.tokens = advance(v, t) - Unit, !.last = t]
    BY <1>5 DEF AllowN
  <2> QED
    BY <1>2, <1>4, <1>5, <2>1 DEF Visitor
<1>6. CASE ~(advance(v, t) >= Unit)
  <2>1. AllowN(v, t) = v
    BY <1>6 DEF AllowN
  <2> QED
    BY <1>3, <1>4, <1>6, <2>1 DEF Visitor
<1> QED
  BY <1>5, <1>6

LEMMA CountedTyped ==
  ASSUME NEW h \in [0 .. MaxTime -> Nat], NEW n \in Nat, now \in 0 .. MaxTime
  PROVE  /\ Counted(h, n) \in [0 .. MaxTime -> Nat]
         /\ \A s \in 0 .. MaxTime : Counted(h, n)[s] = IF s <= now THEN h[s] + n ELSE h[s]
BY DEF Counted

LEMMA AllowTyped ==
  ASSUME IInv, NEW c \in Calls, Allow(c)
  PROVE  TypeOK'
<1> USE DEF IInv
<1>1. PICK vs \in [Keys -> Visitor \cup {NoVisitor}], v \in Visitor :
        LET k == call[c].key
            t == call[c].t IN
        /\ k \in Keys /\ t \in 0 .. MaxTime
        /\ visitors' = [vs EXCEPT ![k] = [AllowN(v, t) EXCEPT !.lastSeen = t]]
        /\ taken' = IF k = watched /\ advance(v, t) >= Unit THEN Counted(taken, 1) ELSE taken
        /\ rewound' = IF k = watched /\ advance(v, t) >= Unit /\ t < v.last
                      THEN Counted(rewound, v.last - t) ELSE rewound
        /\ evicted' = IF watched \in Present(Cleaned(c)) \ Present(vs)
                      THEN Counted(evicted, 1) ELSE evicted
  BY AllowSteps
<1>2. visitors' \in [Keys -> Visitor \cup {NoVisitor}]
  BY <1>1, AllowNTyped
<1>3. taken' \in [0 .. MaxTime -> Nat] /\ evicted' \in [0 .. MaxTime -> Nat]
  BY <1>1, CountedTyped DEF TypeOK
<1>4. rewound' \in [0 .. MaxTime -> Nat]
  <2>1. call[c].t < v.last => v.last - call[c].t \in Nat
    BY <1>1 DEF Visitor
  <2> QED
    BY <1>1, <2>1, CountedTyped DEF TypeOK
<1>5. nextCleanup' \in 0 .. MaxTime + visitorTTL
  <2>1. nextCleanup' = call[c].t + visitorTTL \/ nextCleanup' = nextCleanup
    BY DEF Allow
  <2>2. call[c].t \in 0 .. MaxTime /\ nextCleanup \in 0 .. MaxTime + visitorTTL
    BY <1>1 DEF TypeOK
  <2> QED
    BY <2>1, <2>2, ConstantsAreNat, SMT
<1>6. call' \in [Calls -> Call]
  BY ConstantsAreNat DEF TypeOK, Allow, Call, NoCall
<1> QED
  BY <1>2, <1>3, <1>4, <1>5, <1>6 DEF TypeOK, Allow

LEMMA AllowClocks ==
  ASSUME IInv, NEW c \in Calls, Allow(c)
  PROVE  ClocksOK'
<1> USE DEF IInv
<1>1. PICK vs \in [Keys -> Visitor \cup {NoVisitor}], v \in Visitor :
        LET k == call[c].key
            t == call[c].t IN
        /\ k \in Keys /\ t \in 0 .. MaxTime /\ t <= now /\ now <= t + Lag
        /\ vs[k] = Cleaned(c)[k]
        /\ \A j \in Keys : vs[j] = Cleaned(c)[j] \/ vs[j] = NoVisitor
        /\ v = IF vs[k] = NoVisitor THEN NewLimiter ELSE vs[k]
        /\ visitors' = [vs EXCEPT ![k] = [AllowN(v, t) EXCEPT !.lastSeen = t]]
  BY AllowSteps
<1> SUFFICES ASSUME NEW j \in Keys, visitors'[j] # NoVisitor
             PROVE  visitors'[j].last <= visitors'[j].lastSeen + Lag /\ visitors'[j].last <= now
  BY DEF ClocksOK, Present, Allow
<1>2. \A i \in Keys : vs[i] = visitors[i] \/ vs[i] = NoVisitor
  BY <1>1, CleanedDrops
<1>3. CASE j # call[c].key
  BY <1>1, <1>2, <1>3 DEF ClocksOK, Present
<1>4. CASE j = call[c].key
  <2> DEFINE t == call[c].t
  <2>1. visitors'[j] = [AllowN(v, t) EXCEPT !.lastSeen = t]
    BY <1>1, <1>4
  <2>5. t \in 0 .. MaxTime /\ t <= now /\ now <= t + Lag
    BY <1>1
  <2>2. visitors'[j].lastSeen = t /\ (visitors'[j].last = t \/ visitors'[j].last = v.last)
    <3> HIDE DEF t
    <3> QED
      BY <2>1, <2>5, AllowNTyped
  <2>3. v.last <= now
    BY <1>1, <1>2, <1>4, SMT DEF ClocksOK, Present, NewLimiter, TypeOK
  <2>4. t \in Nat /\ now \in Nat /\ v.last \in Nat /\ t <= now /\ now <= t + Lag
    <3>1. v.last \in 0 .. MaxTime /\ now \in 0 .. MaxTime
      BY DEF Visitor, TypeOK
    <3> HIDE DEF t
    <3> QED
      BY <3>1, <2>5, ConstantsAreNat, SMT
  <2> HIDE DEF t
  <2> QED
    BY <2>2, <2>3, <2>4, ConstantsAreNat, SMT
<1> QED
  BY <1>3, <1>4

LEMMA WindowTyped ==
  ASSUME TypeOK, NEW s \in 0 .. MaxTime
  PROVE  /\ taken[s] \in Nat /\ taken[s] * Unit \in Nat
         /\ Rate * s \in Nat /\ Granted(s) \in Nat
<1>1. taken[s] \in Nat /\ evicted[s] \in Nat /\ rewound[s] \in Nat /\ s \in Nat
  BY DEF TypeOK
<1>2. taken[s] * Unit \in Nat /\ Rate * s \in Nat /\ Rate * rewound[s] \in Nat
  BY <1>1, ConstantsAreNat, SMT
<1>3. (capacity + Rate * Lag) * (1 + evicted[s]) \in Nat
  <2> DEFINE a == capacity + Rate * Lag
             b == 1 + evicted[s]
  <2>1. a \in Nat /\ b \in Nat
    BY <1>1, ConstantsAreNat, SMT
  <2>2. a * b \in Nat
    <3> HIDE DEF a, b
    <3> QED
      BY <2>1, SMT
  <2> QED
    BY <2>2
<1> QED
  BY <1>1, <1>2, <1>3, SMT DEF Granted

\* The windows of a bucket that the clean-up drops, or that is dropped to make
\* room.
LEMMA ExpiryAccounted ==
  ASSUME IInv, NEW s \in 0 .. now, NEW t \in 0 .. now,
         visitors[watched] # NoVisitor, Expired(visitors[watched], t), Held(s)
  PROVE  Dropped(s)
<1> DEFINE v == visitors[watched]
<1> USE DEF IInv
<1>1. /\ v.tokens \in Nat /\ v.last \in Nat /\ v.lastSeen \in Nat /\ now \in Nat /\ s \in Nat
      /\ s \in 0 .. MaxTime
  BY ConstantsAreNat, SMT DEF TypeOK, Visitor
<1>2. v.last <= v.lastSeen + Lag
  BY DEF ClocksOK, Present, TypeOK
<1>3. v.lastSeen + visitorTTL <= now
  BY <1>1, ConstantsAreNat, SMT DEF Expired
<1>4. Rate * v.last + capacity + Rate * Lag <= Rate * now
  BY <1>1, <1>2, <1>3, ExpiredIsFull
<1> DEFINE tU == taken[s] * Unit
           Rs == Rate * s
           Rl == Rate * v.last
           Rn == Rate * now
           RL == Rate * Lag
           G  == Granted(s)
<1>5. tU \in Int /\ Rs \in Int /\ Rl \in Int /\ Rn \in Int /\ RL \in Int /\ capacity \in Int
  <2>1. tU \in Nat /\ Rs \in Nat
    BY <1>1, WindowTyped
  <2>2. Rl \in Int /\ Rn \in Int
    BY <1>1, ConstantsAreNat, SMT
  <2> QED
    BY <2>1, <2>2, ConstantsAreNat
<1>6. G \in Int
  BY <1>1, WindowTyped
<1>7. tU + v.tokens + Rs <= G + Rl
  BY DEF Held
<1>8. Rl + capacity + RL <= Rn
  BY <1>4
<1>9. tU + capacity + RL + Rs <= G + Rn
  <2> HIDE DEF tU, Rs, Rl, Rn, RL, G, v
  <2> QED
    BY <1>1, <1>5, <1>6, <1>7, <1>8, SMT
<1> QED
  BY <1>9 DEF Dropped


\* What a step adds to the histories of a window, in products.
LEMMA GrantedMore ==
  ASSUME TypeOK, TypeOK', NEW s \in 0 .. MaxTime, NEW n \in Nat, NEW e \in {0, 1},
         rewound'[s] = rewound[s] + n, evicted'[s] = evicted[s] + e
  PROVE  Granted(s)' = Granted(s) + Rate * n + (IF e = 1 THEN capacity + Rate * Lag ELSE 0)
<1> DEFINE a == capacity + Rate * Lag
<1>1. rewound[s] \in Nat /\ evicted[s] \in Nat /\ a \in Nat /\ Rate \in Nat
  <2>1. rewound[s] \in Nat /\ evicted[s] \in Nat
    BY DEF TypeOK
  <2>2. a \in Nat /\ Rate \in Nat
    BY ConstantsAreNat, SMT
  <2> QED
    BY <2>1, <2>2
<1>2. Rate * (rewound[s] + n) = Rate * rewound[s] + Rate * n
  BY <1>1, Products
<1>3. CASE e = 1
  <2>1. evicted'[s] = evicted[s] + 1
    BY <1>3
  <2>2. a * (1 + (evicted[s] + 1)) = a * (1 + evicted[s]) + a
    <3> HIDE DEF a
    <3>1. a * ((1 + evicted[s]) + 1) = a * (1 + evicted[s]) + a * 1
      BY <1>1, Products
    <3>2. (1 + evicted[s]) + 1 = 1 + (evicted[s] + 1) /\ a * 1 = a
      BY <1>1, SMT
    <3> QED
      BY <3>1, <3>2
  <2>3. Granted(s)' = a * (1 + (evicted[s] + 1)) + Rate * (rewound[s] + n)
    BY <2>1 DEF Granted
  <2>4. Granted(s) = a * (1 + evicted[s]) + Rate * rewound[s]
    BY DEF Granted
  <2>5. a * (1 + evicted[s]) \in Int /\ Rate * rewound[s] \in Int /\ Rate * n \in Int
    <3> HIDE DEF a
    <3> QED
      BY <1>1, SMT
  <2>6. Granted(s)' = Granted(s) + Rate * n + a
    <3> DEFINE p == a * (1 + evicted[s])
               q == Rate * rewound[s]
               r == Rate * n
    <3>1. Granted(s)' = (p + a) + (q + r) /\ Granted(s) = p + q
      BY <1>2, <2>2, <2>3, <2>4
    <3>2. p \in Int /\ q \in Int /\ r \in Int /\ a \in Int
      BY <1>1, <2>5, SMT
    <3>3. Granted(s)' = Granted(s) + r + a
      <4> HIDE DEF p, q, r, a
      <4> QED
        BY <3>1, <3>2, SMT
    <3> QED
      BY <3>3
  <2> QED
    BY <1>3, <2>6
<1>4. CASE e = 0
  <2>1. evicted'[s] = evicted[s]
    BY <1>1, <1>4, SMT
  <2> DEFINE p == a * (1 + evicted[s])
             q == Rate * rewound[s]
             r == Rate * n
  <2>2. Granted(s)' = p + (q + r) /\ Granted(s) = p + q
    BY <1>2, <2>1 DEF Granted
  <2>3. p \in Int /\ q \in Int /\ r \in Int
    <3> HIDE DEF a
    <3> QED
      BY <1>1, SMT
  <2>4. Granted(s)' = Granted(s) + r + 0
    <3> HIDE DEF p, q, r, a
    <3> QED
      BY <2>2, <2>3, SMT
  <2> QED
    BY <1>4, <2>4
<1> QED
  BY <1>3, <1>4

\* A window in which nothing was taken has room for a burst.
LEMMA GrantedBurst ==
  ASSUME TypeOK, NEW s \in 0 .. MaxTime
  PROVE  capacity + Rate * Lag <= Granted(s)
<1> DEFINE a == capacity + Rate * Lag
<1>1. rewound[s] \in Nat /\ evicted[s] \in Nat /\ a \in Nat /\ Rate \in Nat
  <2>1. rewound[s] \in Nat /\ evicted[s] \in Nat
    BY DEF TypeOK
  <2>2. a \in Nat /\ Rate \in Nat
    BY ConstantsAreNat, SMT
  <2> QED
    BY <2>1, <2>2
<1>2. a * (1 + evicted[s]) = a * 1 + a * evicted[s] /\ a * evicted[s] \in Nat /\ a * 1 = a
  <2> HIDE DEF a
  <2> QED
    BY <1>1, SMT
<1>3. Rate * rewound[s] \in Nat
  BY <1>1, SMT
<1>4. Granted(s) = a * (1 + evicted[s]) + Rate * rewound[s]
  BY DEF Granted
<1>5. a <= Granted(s)
  <2> DEFINE p == a * evicted[s]
             q == Rate * rewound[s]
  <2>1. Granted(s) = a + p + q /\ p \in Nat /\ q \in Nat
    BY <1>2, <1>3, <1>4
  <2> HIDE DEF p, q, a
  <2> QED
    BY <1>1, <2>1, SMT
<1> QED
  BY <1>5

\* A call of another key.
LEMMA OthersAccounted ==
  ASSUME IInv, TypeOK', NEW c \in Calls, Allow(c), NEW s \in 0 .. now,
         call[c].key # watched
  PROVE  taken'[s] = 0 \/ IF visitors'[watched] = NoVisitor THEN Dropped(s)' ELSE Held(s)'
<1> USE DEF IInv
<1>1. PICK vs \in [Keys -> Visitor \cup {NoVisitor}], v \in Visitor :
        LET k == call[c].key
            t == call[c].t IN
        /\ k \in Keys /\ t \in 0 .. MaxTime /\ t <= now
        /\ \A j \in Keys : vs[j] = Cleaned(c)[j] \/ vs[j] = NoVisitor
        /\ visitors' = [vs EXCEPT ![k] = [AllowN(v, t) EXCEPT !.lastSeen = t]]
        /\ taken' = IF k = watched /\ advance(v, t) >= Unit THEN Counted(taken, 1) ELSE taken
        /\ rewound' = IF k = watched /\ advance(v, t) >= Unit /\ t < v.last
                      THEN Counted(rewound, v.last - t) ELSE rewound
        /\ evicted' = IF watched \in Present(Cleaned(c)) \ Present(vs)
                      THEN Counted(evicted, 1) ELSE evicted
  BY AllowSteps
<1>2. watched \in Keys /\ s \in 0 .. MaxTime /\ now' = now /\ watched' = watched
      /\ now \in Nat /\ s \in Nat /\ s <= now
  BY ConstantsAreNat, SMT DEF TypeOK, Allow, history
<1>3. taken' = taken /\ rewound' = rewound /\ visitors'[watched] = vs[watched]
  BY <1>1, <1>2
<1>4. SUFFICES ASSUME taken[s] # 0
               PROVE  IF visitors'[watched] = NoVisitor THEN Dropped(s)' ELSE Held(s)'
  BY <1>3
<1>5. IF visitors[watched] = NoVisitor THEN Dropped(s) ELSE Held(s)
  BY <1>4 DEF Accounted
<1>6. CASE vs[watched] = Cleaned(c)[watched]
  <2>1. evicted' = evicted
    BY <1>1, <1>2, <1>6 DEF Present
  <2>2. Granted(s)' = Granted(s)
    BY <1>3, <2>1 DEF Granted
  <2>3. CASE Cleaned(c)[watched] = visitors[watched]
    BY <1>2, <1>3, <1>5, <1>6, <2>2, <2>3 DEF Dropped, Held
  <2>4. CASE /\ Cleaned(c)[watched] = NoVisitor
             /\ visitors[watched] # NoVisitor /\ Expired(visitors[watched], call[c].t)
    <3>1. call[c].t \in 0 .. now
      BY <1>1, <1>2, ConstantsAreNat, SMT
    <3>2. Dropped(s)
      BY <1>5, <2>4, <3>1, ExpiryAccounted
    <3> QED
      BY <1>2, <1>3, <1>6, <2>2, <2>4, <3>2 DEF Dropped
  <2> QED
    BY <1>2, <2>3, <2>4, CleanedDrops
<1>7. CASE vs[watched] # Cleaned(c)[watched]
  <2>1. vs[watched] = NoVisitor /\ Cleaned(c)[watched] = visitors[watched]
        /\ visitors[watched] # NoVisitor
    BY <1>1, <1>2, <1>7, CleanedDrops
  <2>2. evicted' = Counted(evicted, 1)
    BY <1>1, <1>2, <2>1 DEF Present
  <2>3. evicted'[s] = evicted[s] + 1 /\ rewound'[s] = rewound[s] + 0
    <3>1. evicted \in [0 .. MaxTime -> Nat] /\ rewound[s] \in Nat /\ now \in 0 .. MaxTime
      BY <1>2 DEF TypeOK
    <3>2. evicted'[s] = evicted[s] + 1
      BY <1>2, <2>2, <3>1, CountedTyped
    <3>3. rewound[s] = rewound[s] + 0
      BY <3>1, SMT
    <3> QED
      BY <1>3, <3>2, <3>3
  <2> DEFINE v0 == visitors[watched]
             tU == taken[s] * Unit
             Rs == Rate * s
             Rl == Rate * v0.last
             Rn == Rate * now
             RL == Rate * Lag
             G  == Granted(s)
  <2>4. Granted(s)' = G + capacity + RL
    <3>1. Granted(s)' = Granted(s) + Rate * 0 + (capacity + Rate * Lag)
      BY <1>2, <2>3, GrantedMore, ConstantsAreNat
    <3>2. Rate * 0 = 0 /\ Granted(s) \in Int /\ Rate * Lag \in Int /\ capacity \in Int
      BY <1>2, WindowTyped, ConstantsAreNat, SMT
    <3> QED
      BY <3>1, <3>2, SMT
  <2>5. Held(s)
    BY <1>5, <2>1
  <2>6. v0.tokens \in Nat /\ v0.last \in Nat /\ v0.last <= now
    <3>1. v0 \in Visitor /\ v0.last <= now
      BY <1>2, <2>1 DEF TypeOK, ClocksOK, Present
    <3>2. v0.tokens \in 0 .. capacity /\ v0.last \in 0 .. MaxTime
      BY <3>1 DEF Visitor
    <3> HIDE DEF v0
    <3> QED
      BY <3>1, <3>2, ConstantsAreNat, SMT
  <2>7. Rl <= Rn /\ Rl \in Int /\ Rn \in Int
    BY <1>2, <2>6, Monotone, ConstantsAreNat, SMT
  <2>8. tU \in Int /\ Rs \in Int /\ G \in Int /\ RL \in Int /\ capacity \in Int
    BY <1>2, WindowTyped, ConstantsAreNat, SMT
  <2>9. tU + v0.tokens + Rs <= G + Rl
    BY <2>5 DEF Held
  <2>10. tU + capacity + RL + Rs <= (G + capacity + RL) + Rn
    <3> HIDE DEF v0, tU, Rs, Rl, Rn, RL, G
    <3> QED
      BY <2>6, <2>7, <2>8, <2>9, SMT
  <2>11. Dropped(s)'
    BY <1>2, <1>3, <2>4, <2>10 DEF Dropped
  <2> QED
    BY <1>3, <2>1, <2>11
<1> QED
  BY <1>6, <1>7


\* A call of the key itself.
LEMMA OwnAccounted ==
  ASSUME IInv, TypeOK', NEW c \in Calls, Allow(c), NEW s \in 0 .. now,
         call[c].key = watched
  PROVE  taken'[s] = 0 \/ IF visitors'[watched] = NoVisitor THEN Dropped(s)' ELSE Held(s)'
<1> USE DEF IInv
<1>1. PICK vs \in [Keys -> Visitor \cup {NoVisitor}], v \in Visitor :
        LET k == call[c].key
            t == call[c].t IN
        /\ k \in Keys /\ t \in 0 .. MaxTime /\ t <= now /\ now <= t + Lag
        /\ vs[k] = Cleaned(c)[k]
        /\ v = IF vs[k] = NoVisitor THEN NewLimiter ELSE vs[k]
        /\ visitors' = [vs EXCEPT ![k] = [AllowN(v, t) EXCEPT !.lastSeen = t]]
        /\ taken' = IF k = watched /\ advance(v, t) >= Unit THEN Counted(taken, 1) ELSE taken
        /\ rewound' = IF k = watched /\ advance(v, t) >= Unit /\ t < v.last
                      THEN Counted(rewound, v.last - t) ELSE rewound
        /\ evicted' = IF watched \in Present(Cleaned(c)) \ Present(vs)
                      THEN Counted(evicted, 1) ELSE evicted
  BY AllowSteps
<1> DEFINE t == call[c].t
           u == visitors'[watched]
<1>2. /\ watched \in Keys /\ s \in 0 .. MaxTime /\ now' = now /\ watched' = watched
      /\ now \in Nat /\ s \in Nat /\ s <= now /\ now \in 0 .. MaxTime
  BY ConstantsAreNat, SMT DEF TypeOK, Allow, history
<1>3. /\ t \in 0 .. MaxTime /\ t \in Nat /\ t <= now /\ now <= t + Lag
      /\ u = [AllowN(v, t) EXCEPT !.lastSeen = t]
  BY <1>1, <1>2, ConstantsAreNat
<1>4. evicted' = evicted
  BY <1>1 DEF Present
<1>5. /\ u \in Visitor
      /\ advance(v, t) >= Unit => u.tokens = advance(v, t) - Unit /\ u.last = t
      /\ ~(advance(v, t) >= Unit) => u.tokens = v.tokens /\ u.last = v.last
  <2> HIDE DEF t, u
  <2> QED
    BY <1>3, AllowNTyped
<1>6. u # NoVisitor
  BY <1>5, LimiterConstants
<1>7. SUFFICES ASSUME taken'[s] # 0
               PROVE  Held(s)'
  BY <1>6
<1>8. /\ advance(v, t) \in 0 .. capacity /\ v.last \in Nat /\ v.tokens \in Nat
      /\ t >= v.last => advance(v, t) + Rate * v.last <= v.tokens + Rate * t
      /\ t < v.last => advance(v, t) = v.tokens
  <2>1. v.last \in 0 .. MaxTime /\ v.tokens \in 0 .. capacity
    BY DEF Visitor
  <2> HIDE DEF t
  <2> QED
    BY <1>3, <2>1, AdvanceBounded, ConstantsAreNat, SMT
<1>9. \/ v = visitors[watched] /\ visitors[watched] # NoVisitor
      \/ /\ v = NewLimiter
         /\ \/ visitors[watched] = NoVisitor
            \/ visitors[watched] # NoVisitor /\ Expired(visitors[watched], t)
  BY <1>1, <1>2, CleanedDrops
<1>10. CASE ~(advance(v, t) >= Unit)
  <2>1. v # NewLimiter
    BY <1>3, <1>10, NewLimiterFull, ConstantsAreNat
  <2>2. v = visitors[watched] /\ visitors[watched] # NoVisitor
    BY <1>9, <2>1
  <2>3. taken' = taken /\ rewound' = rewound
    BY <1>1, <1>10
  <2>4. Held(s)
    BY <1>7, <2>2, <2>3 DEF Accounted
  <2>5. Granted(s)' = Granted(s)
    BY <1>4, <2>3 DEF Granted
  <2>6. visitors'[watched].tokens = visitors[watched].tokens
        /\ visitors'[watched].last = visitors[watched].last
    BY <1>5, <1>10, <2>2
  <2> QED
    BY <1>2, <2>3, <2>4, <2>5, <2>6 DEF Held
<1>11. CASE advance(v, t) >= Unit
  <2> DEFINE adv == advance(v, t)
             n  == IF t < v.last THEN v.last - t ELSE 0
             tU == taken[s] * Unit
             Rs == Rate * s
             Rl == Rate * v.last
             Rt == Rate * t
             Rn == Rate * now
             RL == Rate * Lag
             G  == Granted(s)
  <2>1. taken' = Counted(taken, 1)
    BY <1>1, <1>11
  <2>2. taken'[s] = taken[s] + 1
    <3>1. taken \in [0 .. MaxTime -> Nat]
      BY DEF TypeOK
    <3> QED
      BY <1>2, <2>1, <3>1, CountedTyped
  <2>3. n \in Nat /\ rewound'[s] = rewound[s] + n
    <3>1. rewound \in [0 .. MaxTime -> Nat] /\ rewound[s] \in Nat
      BY <1>2 DEF TypeOK
    <3>2. CASE t < v.last
      <4>1. rewound' = Counted(rewound, v.last - t)
        BY <1>1, <1>11, <3>2
      <4>2. v.last - t \in Nat
        <5> HIDE DEF t
        <5> QED
          BY <1>3, <1>8, <3>2, SMT
      <4>3. rewound'[s] = rewound[s] + (v.last - t)
        BY <1>2, <3>1, <4>1, <4>2, CountedTyped
      <4> QED
        BY <3>2, <4>2, <4>3
    <3>3. CASE ~(t < v.last)
      <4>1. rewound' = rewound
        BY <1>1, <3>3
      <4>2. rewound[s] = rewound[s] + 0
        BY <3>1, SMT
      <4> QED
        BY <3>3, <4>1, <4>2
    <3> QED
      BY <3>2, <3>3
  <2>4. Granted(s)' = G + Rate * n
    <3>1. evicted'[s] = evicted[s] + 0
      <4>1. evicted[s] \in Nat
        BY <1>2 DEF TypeOK
      <4> QED
        BY <1>4, <4>1, SMT
    <3>2. Granted(s)' = Granted(s) + Rate * n + 0
      <4> HIDE DEF n
      <4> QED
        BY <1>2, <2>3, <3>1, GrantedMore
    <3>3. Granted(s) \in Int /\ Rate * n \in Int
      <4> HIDE DEF n
      <4> QED
        BY <1>2, <2>3, WindowTyped, ConstantsAreNat, SMT
    <3> HIDE DEF n
    <3> QED
      BY <3>2, <3>3, SMT
  <2>5. /\ tU \in Int /\ Rs \in Int /\ G \in Int /\ RL \in Int /\ capacity \in Int
        /\ Rl \in Int /\ Rt \in Int /\ Rn \in Int /\ Unit \in Int /\ adv \in Int
    <3>1. tU \in Nat /\ Rs \in Nat /\ G \in Nat
      BY <1>2, WindowTyped
    <3>2. adv \in 0 .. capacity
      BY <1>8
    <3>3. adv \in Int
      <4> HIDE DEF adv
      <4> QED
        BY <3>2, ConstantsAreNat, SMT
    <3>4. Rl \in Int /\ Rt \in Int /\ Rn \in Int /\ RL \in Int /\ capacity \in Int /\ Unit \in Int
      <4> HIDE DEF t
      <4> QED
        BY <1>2, <1>3, <1>8, ConstantsAreNat, SMT
    <3> QED
      BY <3>1, <3>3, <3>4
  <2>6. Rn <= Rt + RL /\ Rs <= Rn
    <3>1. Rate * (t + Lag) = Rt + RL
      <4> HIDE DEF t
      <4> QED
        BY <1>3, ConstantsAreNat, Products
    <3>2. Rate * now <= Rate * (t + Lag) /\ Rate * s <= Rate * now
      <4> HIDE DEF t
      <4> QED
        BY <1>2, <1>3, ConstantsAreNat, Monotone, SMT
    <3> QED
      BY <3>1, <3>2
  <2>7. Rate * n = IF t < v.last THEN Rl - Rt ELSE 0
    <3>1. Rate * (v.last - t) = Rl - Rt
      <4> DEFINE l == v.last
      <4>1. l \in Int /\ t \in Int /\ Rate \in Int
        BY <1>3, <1>8, ConstantsAreNat
      <4>2. Rate * (l - t) = Rate * l - Rate * t
        <5> HIDE DEF t, l
        <5> QED
          BY <4>1, Products
      <4> QED
        BY <4>2
    <3>2. Rate * 0 = 0
      BY ConstantsAreNat, SMT
    <3> QED
      BY <3>1, <3>2
  <2>8. tU + adv + Rs <= G + Rate * n + Rt
    <3>1. CASE taken[s] = 0
      <4>1. tU = 0
        BY <3>1, ConstantsAreNat, SMT
      <4>2. capacity + RL <= G /\ adv <= capacity
        <5>1. capacity + Rate * Lag <= Granted(s)
          BY <1>2, GrantedBurst
        <5>2. adv <= capacity
          <6>1. adv \in 0 .. capacity
            BY <1>8
          <6> HIDE DEF adv
          <6> QED
            BY <6>1, ConstantsAreNat, SMT
        <5> QED
          BY <5>1, <5>2
      <4>3. Rate * n >= 0
        <5> HIDE DEF n
        <5> QED
          BY <2>3, ConstantsAreNat, SMT
      <4>4. Rate * n \in Int
        <5> HIDE DEF n
        <5> QED
          BY <2>3, ConstantsAreNat, SMT
      <4> DEFINE Rr == Rate * n
      <4>5. Rr \in Int /\ Rr >= 0
        BY <4>3, <4>4
      <4>6. tU + adv + Rs <= G + Rr + Rt
        <5> HIDE DEF adv, n, tU, Rs, Rl, Rt, Rn, RL, G, Rr
        <5> QED
          BY <2>5, <2>6, <4>1, <4>2, <4>5, SMT
      <4> QED
        BY <4>6
    <3>2. CASE taken[s] # 0 /\ v = visitors[watched] /\ visitors[watched] # NoVisitor
      <4>1. Held(s)
        BY <3>2 DEF Accounted
      <4>2. tU + v.tokens + Rs <= G + Rl
        BY <3>2, <4>1 DEF Held
      <4> DEFINE Rr == Rate * n
      <4>3. CASE t < v.last
        <5>1. Rr = Rl - Rt /\ adv = v.tokens
          BY <1>8, <2>7, <4>3
        <5>2. tU + adv + Rs <= G + Rr + Rt
          <6> HIDE DEF adv, n, tU, Rs, Rl, Rt, Rn, RL, G, Rr
          <6> QED
            BY <1>8, <2>5, <4>2, <5>1, SMT
        <5> QED
          BY <5>2
      <4>4. CASE ~(t < v.last)
        <5>1. Rr = 0
          BY <2>7, <4>4
        <5>2. t >= v.last
          <6> HIDE DEF t
          <6> QED
            BY <1>3, <1>8, <4>4, SMT
        <5>3. adv + Rl <= v.tokens + Rt
          BY <1>8, <5>2
        <5>4. tU + adv + Rs <= G + Rr + Rt
          <6> HIDE DEF adv, n, tU, Rs, Rl, Rt, Rn, RL, G, Rr
          <6> QED
            BY <1>8, <2>5, <4>2, <5>1, <5>3, SMT
        <5> QED
          BY <5>4
      <4> QED
        BY <4>3, <4>4
    <3>3. CASE /\ taken[s] # 0 /\ v = NewLimiter
               /\ \/ visitors[watched] = NoVisitor
                  \/ visitors[watched] # NoVisitor /\ Expired(visitors[watched], t)
      <4>1. Dropped(s)
        <5>1. CASE visitors[watched] = NoVisitor
          BY <3>3, <5>1 DEF Accounted
        <5>2. CASE visitors[watched] # NoVisitor /\ Expired(visitors[watched], t)
          <6>1. t \in 0 .. now
            <7> HIDE DEF t
            <7> QED
              BY <1>2, <1>3, SMT
          <6>2. Held(s)
            BY <3>3, <5>2 DEF Accounted
          <6> QED
            BY <5>2, <6>1, <6>2, ExpiryAccounted
        <5> QED
          BY <3>3, <5>1, <5>2
      <4>2. tU + capacity + RL + Rs <= G + Rn
        BY <4>1 DEF Dropped
      <4>3. adv = capacity
        BY <1>3, <3>3, NewLimiterFull
      <4> DEFINE Rr == Rate * n
      <4>4. Rr \in Int /\ Rr >= 0
        <5> HIDE DEF n
        <5> QED
          BY <2>3, ConstantsAreNat, SMT
      <4>5. tU + adv + Rs <= G + Rr + Rt
        <5> HIDE DEF adv, n, tU, Rs, Rl, Rt, Rn, RL, G, Rr
        <5> QED
          BY <2>5, <2>6, <4>2, <4>3, <4>4, SMT
      <4> QED
        BY <4>5
    <3> QED
      BY <1>9, <3>1, <3>2, <3>3
  <2>9. taken'[s] * Unit = tU + Unit
    <3>1. taken[s] \in Nat
      BY <1>2, WindowTyped
    <3>2. (taken[s] + 1) * Unit = taken[s] * Unit + 1 * Unit /\ 1 * Unit = Unit
      BY <3>1, ConstantsAreNat, Products
    <3> QED
      BY <2>2, <3>2
  <2>10. u.tokens = adv - Unit /\ u.last = t
    BY <1>5, <1>11
  <2> DEFINE Rr == Rate * n
             tU2 == taken'[s] * Unit
             G2 == Granted(s)'
  <2>11. Rr \in Int
    <3> HIDE DEF n
    <3> QED
      BY <2>3, ConstantsAreNat, SMT
  <2>12. tU2 + u.tokens + Rs <= G2 + Rt
    <3>1. tU2 = tU + Unit /\ G2 = G + Rr /\ u.tokens = adv - Unit /\ tU + adv + Rs <= G + Rr + Rt
      BY <2>4, <2>8, <2>9, <2>10
    <3> HIDE DEF u, adv, n, tU, Rs, Rl, Rt, Rn, RL, G, Rr, tU2, G2
    <3> QED
      BY <2>5, <2>11, <3>1, SMT
  <2>13. taken'[s] * Unit + visitors'[watched].tokens + Rate * s
           <= Granted(s)' + Rate * visitors'[watched].last
    BY <2>10, <2>12
  <2> QED
    BY <1>2, <2>13 DEF Held
<1> QED
  BY <1>10, <1>11


LEMMA AllowFits ==
  ASSUME IInv, NEW c \in Calls, Allow(c)
  PROVE  Fits'
<1> USE DEF IInv
<1> DEFINE k == call[c].key
<1>1. PICK vs \in [Keys -> Visitor \cup {NoVisitor}], v \in Visitor :
        /\ k \in Keys /\ call[c].t \in 0 .. MaxTime
        /\ vs \in MakeRoom(Cleaned(c), k)
        /\ vs[k] = Cleaned(c)[k]
        /\ visitors' = [vs EXCEPT ![k] = [AllowN(v, call[c].t) EXCEPT !.lastSeen = call[c].t]]
  BY AllowSteps
<1>2. Present(visitors') = Present(vs) \cup {k}
  <2>1. [AllowN(v, call[c].t) EXCEPT !.lastSeen = call[c].t] \in Visitor
    BY <1>1, AllowNTyped
  <2>2. visitors'[k] # NoVisitor
    BY <1>1, <2>1, LimiterConstants
  <2>3. \A j \in Keys : j # k => visitors'[j] = vs[j]
    BY <1>1
  <2> HIDE DEF k
  <2> QED
    BY <1>1, <2>2, <2>3 DEF Present
<1> DEFINE P == Present(Cleaned(c))
<1>3. P \subseteq Present(visitors)
  BY CleanedDrops DEF Present
<1>4. /\ IsFiniteSet(P) /\ Cardinality(P) \in Nat /\ Cardinality(P) <= maxVisitors
  <2>1. /\ IsFiniteSet(P) /\ Cardinality(P) <= Cardinality(Present(visitors))
    BY <1>3, FS_Subset DEF Fits
  <2>2. Cardinality(P) \in Nat /\ Cardinality(Present(visitors)) \in Nat
    BY <2>1, FS_CardinalityType DEF Fits
  <2>3. Cardinality(Present(visitors)) <= maxVisitors
    BY DEF Fits, VisitorsBounded
  <2> HIDE DEF P
  <2> QED
    BY <2>1, <2>2, <2>3, ConstantsAreNat, SMT
<1>5. CASE Cleaned(c)[k] = NoVisitor /\ Cardinality(P) >= maxVisitors
  <2>1. PICK o \in P : vs = [Cleaned(c) EXCEPT ![o] = NoVisitor]
    BY <1>1, <1>5 DEF MakeRoom, deleteOldest, Oldest
  <2>2. Present(vs) = P \ {o}
    <3>1. Cleaned(c) \in [Keys -> Visitor \cup {NoVisitor}]
      BY CleanedTyped
    <3> QED
      BY <2>1, <3>1 DEF Present
  <2>3. k \notin P \ {o}
    BY <1>5 DEF Present
  <2>4. IsFiniteSet(P \ {o}) /\ Cardinality(P \ {o}) = Cardinality(P) - 1
    <3> HIDE DEF P
    <3> QED
      BY <1>4, <2>1, FS_RemoveElement
  <2>5. /\ IsFiniteSet((P \ {o}) \cup {k})
        /\ Cardinality((P \ {o}) \cup {k}) = Cardinality(P \ {o}) + 1
    <3> HIDE DEF P, k
    <3> QED
      BY <2>3, <2>4, FS_AddElement
  <2>6. Cardinality(Present(visitors')) <= maxVisitors
    <3> HIDE DEF P, k
    <3> QED
      BY <1>2, <1>4, <2>2, <2>4, <2>5, ConstantsAreNat, SMT
  <2> QED
    BY <1>2, <2>2, <2>5, <2>6 DEF Fits, VisitorsBounded
<1>6. CASE ~(Cleaned(c)[k] = NoVisitor /\ Cardinality(P) >= maxVisitors)
  <2>1. vs = Cleaned(c)
    BY <1>1, <1>6 DEF MakeRoom
  <2>2. CASE k \in P
    <3>1. Present(visitors') = P
      BY <1>2, <2>1, <2>2
    <3> QED
      BY <1>4, <3>1 DEF Fits, VisitorsBounded
  <2>3. CASE k \notin P
    <3>1. Cleaned(c)[k] = NoVisitor
      BY <1>1, <2>3 DEF Present
    <3>2. /\ IsFiniteSet(P \cup {k})
          /\ Cardinality(P \cup {k}) = Cardinality(P) + 1
      <4> HIDE DEF P, k
      <4> QED
        BY <1>4, <2>3, FS_AddElement
    <3>3. ~(Cardinality(P) >= maxVisitors)
      BY <1>6, <3>1
    <3>4. Present(visitors') = P \cup {k}
      BY <1>2, <2>1
    <3>5. Cardinality(Present(visitors')) <= maxVisitors
      <4> HIDE DEF P, k
      <4> QED
        BY <1>4, <3>2, <3>3, <3>4, ConstantsAreNat, SMT
    <3> QED
      BY <3>2, <3>4, <3>5 DEF Fits, VisitorsBounded
  <2> QED
    BY <2>2, <2>3
<1> QED
  BY <1>5, <1>6

LEMMA AllowRest ==
  ASSUME IInv, TypeOK', NEW c \in Calls, Allow(c)
  PROVE  CallsOK' /\ NothingYet' /\ Accounted'
<1> USE DEF IInv
<1>1. now' = now /\ now \in 0 .. MaxTime
  BY DEF Allow, TypeOK
<1>2. CallsOK'
  BY <1>1 DEF CallsOK, Allow, Waiting, NoCall, TypeOK
<1>3. NothingYet'
  <2>1. PICK v \in Visitor, vs \in [Keys -> Visitor \cup {NoVisitor}] :
          LET t == call[c].t IN
          /\ t \in 0 .. MaxTime
          /\ taken' = taken \/ taken' = Counted(taken, 1)
          /\ rewound' = rewound \/ (t < v.last /\ rewound' = Counted(rewound, v.last - t))
          /\ evicted' = evicted \/ evicted' = Counted(evicted, 1)
    BY AllowSteps
  <2>2. \A s \in 0 .. MaxTime : s > now =>
          taken'[s] = taken[s] /\ rewound'[s] = rewound[s] /\ evicted'[s] = evicted[s]
    <3> SUFFICES ASSUME NEW s \in 0 .. MaxTime, s > now
                 PROVE  taken'[s] = taken[s] /\ rewound'[s] = rewound[s] /\ evicted'[s] = evicted[s]
      OBVIOUS
    <3>1. ~(s <= now)
      BY <1>1, ConstantsAreNat, SMT
    <3> QED
      BY <2>1, <3>1 DEF Counted
  <2> QED
    BY <1>1, <2>2 DEF NothingYet
<1>4. Accounted'
  <2>1. \A s \in 0 .. now : taken'[s] = 0 \/
          IF visitors'[watched] = NoVisitor THEN Dropped(s)' ELSE Held(s)'
    BY OwnAccounted, OthersAccounted
  <2>2. watched' = watched
    BY DEF Allow
  <2> QED
    BY <1>1, <2>1, <2>2 DEF Accounted
<1> QED
  BY <1>2, <1>3, <1>4

LEMMA TickKeeps ==
  ASSUME IInv, Tick
  PROVE  IInv'
<1> USE DEF IInv
<1>1. /\ now' = now + 1 /\ now \in Nat /\ now' \in 0 .. MaxTime
      /\ visitors' = visitors /\ nextCleanup' = nextCleanup /\ call' = call
      /\ watched' = watched /\ taken' = taken /\ rewound' = rewound /\ evicted' = evicted
  <2>1. now \in 0 .. MaxTime /\ now < MaxTime /\ now' = now + 1
    BY DEF TypeOK, Tick
  <2>2. now \in Nat /\ now' \in 0 .. MaxTime
    BY <2>1, ConstantsAreNat, SMT
  <2> QED
    BY <2>1, <2>2 DEF Tick, history
<1>2. TypeOK'
  BY <1>1 DEF TypeOK
<1>3. CallsOK'
  <2> SUFFICES ASSUME NEW c \in Calls, Waiting(c)
               PROVE  call[c].key \in Keys /\ call[c].t <= now' /\ now' <= call[c].t + Lag
    BY <1>1 DEF CallsOK, Waiting
  <2>1. call[c].key \in Keys /\ call[c].t <= now /\ now < call[c].t + Lag
    BY DEF CallsOK, Tick
  <2>2. call[c].t \in 0 .. MaxTime
    BY DEF TypeOK, Call
  <2> QED
    BY <1>1, <2>1, <2>2, ConstantsAreNat, SMT
<1>4. ClocksOK'
  <2> SUFFICES ASSUME NEW k \in Present(visitors)
               PROVE  visitors[k].last <= visitors[k].lastSeen + Lag /\ visitors[k].last <= now'
    BY <1>1 DEF ClocksOK
  <2>1. visitors[k].last <= visitors[k].lastSeen + Lag /\ visitors[k].last <= now
    BY DEF ClocksOK
  <2>2. visitors[k].last \in 0 .. MaxTime
    BY DEF TypeOK, Present, Visitor
  <2> QED
    BY <1>1, <2>1, <2>2, ConstantsAreNat, SMT
<1>5. NothingYet'
  <2> SUFFICES ASSUME NEW s \in 0 .. MaxTime, s > now'
               PROVE  s > now
    BY <1>1 DEF NothingYet
  <2> QED
    BY <1>1, ConstantsAreNat, SMT
<1>6. Accounted'
  <2> SUFFICES ASSUME NEW s \in 0 .. now', taken[s] # 0
               PROVE  (IF visitors[watched] = NoVisitor THEN Dropped(s) ELSE Held(s))'
    BY <1>1 DEF Accounted
  <2>1. s \in 0 .. MaxTime /\ s \in Nat /\ (s > now \/ s \in 0 .. now)
    BY <1>1, ConstantsAreNat, SMT
  <2>2. s \in 0 .. now
    BY <2>1 DEF NothingYet
  <2>3. IF visitors[watched] = NoVisitor THEN Dropped(s) ELSE Held(s)
    BY <2>2 DEF Accounted
  <2>4. CASE visitors[watched] # NoVisitor
    BY <1>1, <2>3, <2>4 DEF Held, Granted
  <2>5. CASE visitors[watched] = NoVisitor
    <3> DEFINE tU == taken[s] * Unit
               Rs == Rate * s
               Rn == Rate * now
               Rm == Rate * now'
               RL == Rate * Lag
               G  == Granted(s)
    <3>1. tU + capacity + RL + Rs <= G + Rn
      BY <2>3, <2>5 DEF Dropped
    <3>2. tU \in Int /\ Rs \in Int /\ G \in Int /\ Rn \in Int /\ Rm \in Int /\ RL \in Int
          /\ capacity \in Int
      <4>1. tU \in Nat /\ Rs \in Nat /\ G \in Nat
        BY <2>1, WindowTyped
      <4>2. Rn \in Int /\ Rm \in Int
        BY <1>1, ConstantsAreNat, SMT
      <4> QED
        BY <4>1, <4>2, ConstantsAreNat
    <3>3. Rn <= Rm
      BY <1>1, Monotone, ConstantsAreNat, SMT
    <3>4. tU + capacity + RL + Rs <= G + Rm
      <4> HIDE DEF tU, Rs, Rn, Rm, RL, G
      <4> QED
        BY <3>1, <3>2, <3>3, SMT
    <3> QED
      BY <1>1, <2>5, <3>4 DEF Dropped, Granted
  <2> QED
    BY <2>4, <2>5
<1>7. Fits'
  BY <1>1 DEF Fits, VisitorsBounded
<1> QED
  BY <1>2, <1>3, <1>4, <1>5, <1>6, <1>7

LEMMA ReadClockKeeps ==
  ASSUME IInv, NEW c \in Calls, NEW k \in Keys, ReadClock(c, k)
  PROVE  IInv'
<1> USE DEF IInv, ReadClock
<1>1. /\ now' = now /\ visitors' = visitors /\ nextCleanup' = nextCleanup
      /\ watched' = watched /\ taken' = taken /\ rewound' = rewound /\ evicted' = evicted
  BY DEF history
<1>2. TypeOK'
  <2>1. call' \in [Calls -> Call]
    BY DEF TypeOK, Call
  <2> QED
    BY <1>1, <2>1 DEF TypeOK
<1>3. CallsOK'
  <2>1. now <= now + Lag
    <3>1. now \in 0 .. MaxTime
      BY DEF TypeOK
    <3> QED
      BY <3>1, ConstantsAreNat, SMT
  <2>2. now <= now
    <3>1. now \in 0 .. MaxTime
      BY DEF TypeOK
    <3> QED
      BY <3>1, ConstantsAreNat, SMT
  <2> QED
    BY <1>1, <2>1, <2>2 DEF CallsOK, Waiting, TypeOK
<1> QED
  BY <1>1, <1>2, <1>3 DEF ClocksOK, NothingYet, Accounted, Dropped, Held, Granted, Fits,
                           VisitorsBounded

LEMMA InitHolds == Init => IInv
<1> SUFFICES ASSUME Init PROVE IInv
  OBVIOUS
<1> USE DEF Init
<1>1. TypeOK
  <2>1. 0 \in 0 .. MaxTime /\ 0 \in 0 .. MaxTime + visitorTTL
    BY ConstantsAreNat, SMT
  <2> QED
    BY <2>1 DEF TypeOK, Call, NoCall
<1>2. Present(visitors) = {}
  BY DEF Present
<1>3. CallsOK /\ ClocksOK
  BY <1>2 DEF CallsOK, ClocksOK, Waiting
<1>4. NothingYet
  BY DEF NothingYet
<1>5. Accounted
  <2>1. \A s \in 0 .. now : s \in 0 .. MaxTime
    BY ConstantsAreNat, SMT
  <2> QED
    BY <2>1 DEF Accounted
<1>6. Fits
  <2>1. IsFiniteSet({}) /\ Cardinality({}) = 0
    BY FS_EmptySet
  <2>2. 0 <= maxVisitors
    BY ConstantsAreNat, SMT
  <2> QED
    BY <1>2, <2>1, <2>2 DEF Fits, VisitorsBounded
<1> QED
  BY <1>1, <1>3, <1>4, <1>5, <1>6 DEF IInv


-----------------------------------------------------------------------------
(* The theorems                                                            *)

(***************************************************************************)
(* The accounts of ClientIPRateLimiter hold in every state: of the clocks, *)
(* of the calls that wait and of what any window has taken.                *)
(***************************************************************************)
THEOREM Inductive == Spec => []IInv
<1>1. IInv /\ [Next]_vars => IInv'
  <2> SUFFICES ASSUME IInv, [Next]_vars PROVE IInv'
    OBVIOUS
  <2>1. CASE \E c \in Calls : Allow(c)
    <3>1. PICK c \in Calls : Allow(c)
      BY <2>1
    <3>2. TypeOK'
      BY <3>1, AllowTyped
    <3> QED
      BY <3>1, <3>2, AllowClocks, AllowRest, AllowFits DEF IInv
  <2>2. CASE \E c \in Calls, k \in Keys : ReadClock(c, k)
    BY <2>2, ReadClockKeeps
  <2>3. CASE Tick
    BY <2>3, TickKeeps
  <2>4. CASE UNCHANGED vars
    BY <2>4 DEF vars, history, IInv, TypeOK, CallsOK, Waiting, ClocksOK, NothingYet, Accounted,
                Dropped, Held, Granted, Fits, VisitorsBounded
  <2> QED
    BY <2>1, <2>2, <2>3, <2>4 DEF Next
<1> QED
  BY <1>1, InitHolds, PTL DEF Spec

(***************************************************************************)
(* Every variable of the local limiter has its type.                       *)
(***************************************************************************)
THEOREM TypeCorrect == Spec => []TypeOK
<1>1. IInv => TypeOK
  BY DEF IInv
<1> QED
  BY <1>1, Inductive, PTL

(***************************************************************************)
(* The map never holds more keys than maxKeys, whichever the calls are and *)
(* in whatever order they take the mutex.                                  *)
(***************************************************************************)
THEOREM MapBounded == Spec => []VisitorsBounded
<1>1. IInv => VisitorsBounded
  BY DEF IInv, Fits
<1> QED
  BY <1>1, Inductive, PTL

(***************************************************************************)
(* No key takes more in any window than the burst and the yield of the     *)
(* rate, but for what evictions, waiting calls and clocks set back explain:*)
(* a clean-up, in particular, gives nobody a token.                        *)
(***************************************************************************)
THEOREM ExcessExplained == Spec => []ExcessIsExplained
<1>1. IInv => ExcessIsExplained
  <2> SUFFICES ASSUME IInv, NEW s \in 0 .. now
               PROVE  taken[s] * Unit <= (capacity + Rate * Lag) * (1 + evicted[s])
                                           + Rate * (now - s + rewound[s])
    BY DEF ExcessIsExplained
  <2> USE DEF IInv
  <2>1. /\ now \in Nat /\ s \in Nat /\ s \in 0 .. MaxTime /\ s <= now
    <3>1. now \in 0 .. MaxTime
      BY DEF TypeOK
    <3> QED
      BY <3>1, ConstantsAreNat, SMT
  <2>2. rewound[s] \in Nat /\ taken[s] \in Nat /\ watched \in Keys
        /\ visitors \in [Keys -> Visitor \cup {NoVisitor}]
    BY <2>1 DEF TypeOK
  <2> DEFINE tU == taken[s] * Unit
             Rs == Rate * s
             Rn == Rate * now
             RL == Rate * Lag
             Rw == Rate * rewound[s]
             g  == (capacity + Rate * Lag) * (1 + evicted[s])
             G  == Granted(s)
  <2>3. Rate * (now - s + rewound[s]) = Rn - Rs + Rw
    <3> DEFINE d == now - s
               w == rewound[s]
    <3>1. d \in Int /\ w \in Int /\ now \in Int /\ s \in Int /\ Rate \in Int
      BY <2>1, <2>2, ConstantsAreNat, SMT
    <3>2. Rate * (d + w) = Rate * d + Rate * w
      <4> HIDE DEF d, w
      <4> QED
        BY <3>1, Products
    <3>3. Rate * d = Rate * now - Rate * s
      BY <3>1, Products
    <3> QED
      BY <3>2, <3>3
  <2>4. G = g + Rw /\ G \in Nat /\ tU \in Nat /\ Rs \in Nat
    BY <2>1, WindowTyped DEF Granted
  <2>5. /\ Rn \in Int /\ RL \in Nat /\ Rw \in Int /\ capacity \in Nat
    BY <2>1, <2>2, ConstantsAreNat, SMT
  <2>6. Rs <= Rn
    BY <2>1, Monotone, ConstantsAreNat, SMT
  <2>7. tU + Rs <= G + Rn
    <3>1. CASE taken[s] = 0
      <4>1. tU = 0
        BY <3>1, ConstantsAreNat, SMT
      <4> HIDE DEF tU, Rs, Rn, G, Rw, RL, g
      <4> QED
        BY <2>4, <2>5, <2>6, <4>1, SMT
    <3>2. CASE taken[s] # 0 /\ visitors[watched] = NoVisitor
      <4>1. tU + capacity + RL + Rs <= G + Rn
        BY <3>2 DEF Accounted, Dropped
      <4> HIDE DEF tU, Rs, Rn, G, Rw, RL, g
      <4> QED
        BY <2>4, <2>5, <4>1, SMT
    <3>3. CASE taken[s] # 0 /\ visitors[watched] # NoVisitor
      <4> DEFINE v == visitors[watched]
                 Rl == Rate * v.last
      <4>1. tU + v.tokens + Rs <= G + Rl
        BY <3>3 DEF Accounted, Held
      <4>2. v \in Visitor /\ v.last <= now
        BY <2>2, <3>3 DEF ClocksOK, Present
      <4>3. v.tokens \in 0 .. capacity /\ v.last \in 0 .. MaxTime
        BY <4>2 DEF Visitor
      <4>4. v.tokens \in Nat /\ v.last \in Nat
        <5> HIDE DEF v
        <5> QED
          BY <4>3, ConstantsAreNat, SMT
      <4>5. Rl <= Rn /\ Rl \in Int
        <5> HIDE DEF v
        <5> QED
          BY <2>1, <4>2, <4>4, Monotone, ConstantsAreNat, SMT
      <4> HIDE DEF v, tU, Rs, Rn, G, Rw, RL, g, Rl
      <4> QED
        BY <2>4, <2>5, <4>1, <4>4, <4>5, SMT
    <3> QED
      BY <3>1, <3>2, <3>3
  <2>8. g \in Int
    <3>1. evicted[s] \in Nat
      BY <2>1 DEF TypeOK
    <3> DEFINE a == capacity + Rate * Lag
    <3>2. a \in Int
      BY ConstantsAreNat, SMT
    <3>3. a * (1 + evicted[s]) \in Int
      <4> HIDE DEF a
      <4> QED
        BY <3>1, <3>2, SMT
    <3> QED
      BY <3>3
  <2>9. tU <= g + (Rn - Rs + Rw)
    <3> HIDE DEF tU, Rs, Rn, G, Rw, RL, g
    <3> QED
      BY <2>4, <2>5, <2>7, <2>8, SMT
  <2> QED
    BY <2>3, <2>9
<1> QED
  BY <1>1, Inductive, PTL

-----------------------------------------------------------------------------
(* Idle visitors                                                           *)

\* A call waits for less time than a visitor is kept.
LEMMA LagFits == Lag <= visitorTTL
<1> DEFINE RL == Rate * Lag
           RT == Rate * visitorTTL
<1>1. /\ RL \in Nat /\ RT \in Nat /\ capacity \in Nat /\ RT >= capacity + 2 * RL
  <2>1. 2 * Rate * Lag = 2 * RL
    BY ConstantsAreNat, SMT
  <2> QED
    BY <2>1, ConstantsAreNat, LimiterConstants, SMT
<1>2. ASSUME visitorTTL <= Lag PROVE RT <= RL
  BY <1>2, ConstantsAreNat, Monotone
<1>3. capacity > 0
  BY ConstantsAreNat, SMT
<1> HIDE DEF RL, RT
<1>4. ~(visitorTTL <= Lag)
  BY <1>1, <1>2, <1>3, SMT
<1> QED
  BY <1>4, ConstantsAreNat, SMT

\* The next clean-up comes soon enough for every visitor that is there.
CleanupsOK ==
  /\ nextCleanup <= now + visitorTTL
  /\ \A k \in Present(visitors) : nextCleanup <= visitors[k].lastSeen + 2 * visitorTTL

\* What a call leaves behind: its own visitor, and those that were not idle for
\* the TTL if it cleaned up.
LEMMA AllowLeaves ==
  ASSUME IInv, NEW c \in Calls, Allow(c), NEW k \in Present(visitors')
  PROVE  LET t == call[c].t IN
         \/ visitors'[k].lastSeen = t
         \/ /\ k \in Present(visitors) /\ visitors'[k].lastSeen = visitors[k].lastSeen
            /\ CleanupDue(t) => ~Expired(visitors[k], t)
<1> USE DEF IInv
<1> DEFINE t == call[c].t
<1>1. PICK vs \in [Keys -> Visitor \cup {NoVisitor}], v \in Visitor :
        /\ t \in 0 .. MaxTime
        /\ \A j \in Keys : vs[j] = Cleaned(c)[j] \/ vs[j] = NoVisitor
        /\ visitors' = [vs EXCEPT ![call[c].key] = [AllowN(v, t) EXCEPT !.lastSeen = t]]
  BY AllowSteps
<1>2. k \in Keys /\ visitors'[k] # NoVisitor
  BY DEF Present
<1>3. CASE k = call[c].key
  <2>1. visitors'[k] = [AllowN(v, t) EXCEPT !.lastSeen = t]
    BY <1>1, <1>2, <1>3
  <2>2. t \in 0 .. MaxTime
    BY <1>1
  <2> HIDE DEF t
  <2>3. visitors'[k].lastSeen = t
    BY <2>1, <2>2, AllowNTyped
  <2> QED
    BY <2>3 DEF t
<1>4. CASE k # call[c].key
  <2>1. visitors'[k] = Cleaned(c)[k]
    BY <1>1, <1>2, <1>4
  <2>2. visitors[k] # NoVisitor /\ visitors'[k] = visitors[k]
    BY <1>2, <2>1, CleanedDrops
  <2>3. CleanupDue(t) => ~Expired(visitors[k], t)
    BY <1>2, <2>1, <2>2 DEF Cleaned, deleteExpired
  <2> QED
    BY <1>2, <2>2, <2>3 DEF Present
<1> QED
  BY <1>3, <1>4

LEMMA AllowCleans ==
  ASSUME IInv, CleanupsOK, NEW c \in Calls, Allow(c)
  PROVE  /\ CleanupsOK'
         /\ \A k \in Present(visitors') : call[c].t < visitors'[k].lastSeen + 2 * visitorTTL
<1> USE DEF IInv
<1> DEFINE t == call[c].t
<1>1. /\ t \in Nat /\ now \in Nat /\ nextCleanup \in Nat /\ t <= now /\ now <= t + Lag
      /\ now' = now /\ nextCleanup' = IF CleanupDue(t) THEN t + visitorTTL ELSE nextCleanup
      /\ visitorTTL \in Nat \ {0} /\ Lag \in Nat
  <2>1. now \in 0 .. MaxTime /\ nextCleanup \in 0 .. MaxTime + visitorTTL
    BY DEF TypeOK
  <2>2. call[c] \in Call /\ Waiting(c)
    BY DEF TypeOK, Allow
  <2>3. t \in 0 .. MaxTime /\ t <= now /\ now <= t + Lag
    BY <2>2 DEF Call, CallsOK
  <2>4. now' = now /\ nextCleanup' = IF CleanupDue(t) THEN t + visitorTTL ELSE nextCleanup
    BY DEF Allow
  <2> HIDE DEF t
  <2> QED
    BY <2>1, <2>3, <2>4, ConstantsAreNat, LimiterConstants, SMT
<1>2. nextCleanup <= now + visitorTTL
  BY DEF CleanupsOK
<1>3. ASSUME NEW k \in Present(visitors')
      PROVE  /\ nextCleanup' <= visitors'[k].lastSeen + 2 * visitorTTL
             /\ t < visitors'[k].lastSeen + 2 * visitorTTL
  <2> DEFINE seen == visitors'[k].lastSeen
  <2> SUFFICES nextCleanup' <= seen + 2 * visitorTTL /\ t < seen + 2 * visitorTTL
    OBVIOUS
  <2>1. CASE seen = t
    <3> HIDE DEF t, seen
    <3> QED
      BY <1>1, <1>2, <2>1, LagFits, SMT
  <2>2. CASE /\ k \in Present(visitors) /\ seen = visitors[k].lastSeen
             /\ CleanupDue(t) => ~Expired(visitors[k], t)
    <3>1. seen \in Nat /\ nextCleanup <= seen + 2 * visitorTTL
      <4>1. visitors[k].lastSeen \in 0 .. MaxTime
        BY <2>2 DEF TypeOK, Present, Visitor
      <4> QED
        BY <2>2, <4>1, ConstantsAreNat, SMT DEF CleanupsOK
    <3>2. CleanupDue(t) => ~(t >= seen + visitorTTL)
      BY <2>2 DEF Expired
    <3>3. CleanupDue(t) <=> t >= nextCleanup
      BY DEF CleanupDue
    <3> HIDE DEF t, seen
    <3> QED
      BY <1>1, <3>1, <3>2, <3>3, SMT
  <2> QED
    BY <2>1, <2>2, AllowLeaves
<1>4. nextCleanup' <= now' + visitorTTL
  <2>1. CleanupDue(t) <=> t >= nextCleanup
    BY DEF CleanupDue
  <2> HIDE DEF t
  <2> QED
    BY <1>1, <1>2, <2>1, SMT
<1> QED
  BY <1>3, <1>4 DEF CleanupsOK

LEMMA CleanupsHold == Spec => []CleanupsOK
<1>1. Init => CleanupsOK
  <2> SUFFICES ASSUME Init PROVE CleanupsOK
    OBVIOUS
  <2>1. Present(visitors) = {}
    BY DEF Init, Present
  <2>2. nextCleanup <= now + visitorTTL
    BY ConstantsAreNat, SMT DEF Init
  <2> QED
    BY <2>1, <2>2 DEF CleanupsOK
<1>2. IInv /\ CleanupsOK /\ [Next]_vars => CleanupsOK'
  <2> SUFFICES ASSUME IInv, CleanupsOK, [Next]_vars PROVE CleanupsOK'
    OBVIOUS
  <2>1. CASE \E c \in Calls : Allow(c)
    BY <2>1, AllowCleans
  <2>2. CASE Tick
    <3>1. now \in 0 .. MaxTime /\ nextCleanup \in 0 .. MaxTime + visitorTTL
      BY DEF IInv, TypeOK
    <3>2. nextCleanup' <= now' + visitorTTL
      BY <2>2, <3>1, ConstantsAreNat, SMT DEF CleanupsOK, Tick
    <3> QED
      BY <2>2, <3>2 DEF CleanupsOK, Tick
  <2>3. CASE (\E c \in Calls, k \in Keys : ReadClock(c, k)) \/ UNCHANGED vars
    BY <2>3 DEF CleanupsOK, ReadClock, vars
  <2> QED
    BY <2>1, <2>2, <2>3 DEF Next
<1> QED
  BY <1>1, <1>2, Inductive, PTL DEF Spec

(***************************************************************************)
(* "Keys expire after visitorTTL": however long calls wait for the mutex,  *)
(* none leaves a key behind that was idle for twice the TTL.               *)
(***************************************************************************)
THEOREM IdleGo == Spec => IdleVisitorsGo
<1> DEFINE Gone(c) == Served(c) => \A k \in Present(visitors') :
                        call[c].t < visitors'[k].lastSeen + 2 * visitorTTL
<1>1. IInv /\ CleanupsOK /\ [Next]_vars => \A c \in Calls : Gone(c)
  <2> SUFFICES ASSUME IInv, CleanupsOK, [Next]_vars, NEW c \in Calls, Served(c) PROVE Gone(c)
    OBVIOUS
  <2>1. call \in [Calls -> Call] /\ call[c] # NoCall /\ call'[c] = NoCall
    BY DEF IInv, TypeOK, Served
  <2>2. ASSUME NEW d \in Calls, NEW k \in Keys, ReadClock(d, k) PROVE FALSE
    BY <2>1, <2>2, LimiterConstants, SMT DEF ReadClock, NoCall
  <2>3. ASSUME NEW d \in Calls, Allow(d) PROVE d = c
    BY <2>1, <2>3, SMT DEF Allow
  <2>4. ~Tick /\ ~UNCHANGED vars
    BY <2>1 DEF Tick, vars
  <2>5. Allow(c)
    BY <2>2, <2>3, <2>4 DEF Next
  <2> QED
    BY <2>5, AllowCleans
<1> QED
  BY <1>1, Inductive, CleanupsHold, PTL DEF Spec, IdleVisitorsGo

-----------------------------------------------------------------------------
(* An ideal bucket, while no call waits and there is room for every key    *)

Roomy == Lag = 0 /\ IsFiniteSet(Keys) /\ Cardinality(Keys) <= maxVisitors

\* What a bucket has after some time, by how much it lacks.
LEMMA AdvanceByOne ==
  ASSUME NEW v \in Visitor, NEW t \in Nat, v.last <= t
  PROVE  advance(v, t + 1) = IF advance(v, t) + Rate <= capacity
                             THEN advance(v, t) + Rate ELSE capacity
<1>1. v.tokens \in Nat /\ v.last \in Nat
  BY ConstantsAreNat, SMT DEF Visitor
<1> DEFINE d == t - v.last
           x == Rate * d
<1>2. d \in Nat /\ (t + 1) - v.last = d + 1
  BY <1>1, SMT
<1>3. x \in Nat /\ Rate * (d + 1) = x + Rate
  BY <1>2, ConstantsAreNat, SMT
<1>4. advance(v, t) = IF v.tokens + x > capacity THEN capacity ELSE v.tokens + x
  BY <1>1, SMT DEF advance
<1>5. advance(v, t + 1) = IF v.tokens + (x + Rate) > capacity
                          THEN capacity ELSE v.tokens + (x + Rate)
  <2>1. ~(t + 1 < v.last)
    BY <1>1, SMT
  <2>2. Rate * ((t + 1) - v.last) = x + Rate
    BY <1>2, <1>3
  <2> QED
    BY <2>1, <2>2 DEF advance
<1>6. x \in Nat
  BY <1>3
<1> DEFINE a == advance(v, t)
           b == advance(v, t + 1)
<1>7. a = (IF v.tokens + x > capacity THEN capacity ELSE v.tokens + x)
  BY <1>4
<1>8. b = (IF v.tokens + (x + Rate) > capacity THEN capacity ELSE v.tokens + (x + Rate))
  BY <1>5
<1> SUFFICES b = (IF a + Rate <= capacity THEN a + Rate ELSE capacity)
  OBVIOUS
<1> HIDE DEF x, a, b
<1> QED
  BY <1>1, <1>6, <1>7, <1>8, ConstantsAreNat, SMT

\* A bucket at the time of its own clock.
LEMMA AdvanceByNone ==
  ASSUME NEW v \in Visitor, NEW t \in Nat, v.last = t
  PROVE  advance(v, t) = v.tokens
<1>1. v.tokens \in 0 .. capacity /\ Rate * (t - t) = 0
  BY ConstantsAreNat, SMT DEF Visitor
<1> QED
  BY <1>1, ConstantsAreNat, SMT DEF advance

\* A visitor that the clean-up drops has a full bucket.
LEMMA CleanedFull ==
  ASSUME NEW v \in Visitor, NEW t \in Nat, v.last <= v.lastSeen + Lag, Expired(v, t)
  PROVE  advance(v, t) = capacity
<1>1. /\ v.tokens \in Nat /\ v.last \in Nat /\ v.lastSeen \in Nat
      /\ v.lastSeen + visitorTTL <= t
  BY ConstantsAreNat, SMT DEF Visitor, Expired
<1>2. Rate * v.last + capacity + Rate * Lag <= Rate * t
  BY <1>1, ExpiredIsFull
<1>3. v.last <= t
  BY <1>1, LagFits, ConstantsAreNat, SMT
<1>4. Rate * (t - v.last) = Rate * t - Rate * v.last /\ Rate * t \in Int /\ Rate * v.last \in Int
  BY <1>1, ConstantsAreNat, Products, SMT
<1>5. v.tokens + Rate * (t - v.last) >= capacity
  BY <1>1, <1>2, <1>4, ConstantsAreNat, SMT
<1> DEFINE x == v.tokens + Rate * (t - v.last)
<1>6. advance(v, t) = IF x > capacity THEN capacity ELSE x
  BY <1>1, <1>3, SMT DEF advance
<1>7. x \in Int /\ x >= capacity
  BY <1>1, <1>4, <1>5, SMT
<1> HIDE DEF x
<1> QED
  BY <1>6, <1>7, ConstantsAreNat, SMT

\* What a bucket holds at a time, whether or not it is in the map.
LevelIn(m, k, t) == IF m[k] = NoVisitor THEN capacity ELSE advance(m[k], t)

LEMMA LevelTyped ==
  ASSUME IInv, NEW k \in Keys, NEW t \in Nat
  PROVE  LevelIn(visitors, k, t) \in 0 .. capacity
BY AdvanceBounded, ConstantsAreNat, SMT DEF IInv, TypeOK, LevelIn

\* The clean-up is invisible.
LEMMA CleanedSame ==
  ASSUME IInv, NEW c \in Calls, NEW k \in Keys, call[c].t \in Nat
  PROVE  LevelIn(Cleaned(c), k, call[c].t) = LevelIn(visitors, k, call[c].t)
<1>1. CASE Cleaned(c)[k] = visitors[k]
  BY <1>1 DEF LevelIn
<1>2. CASE /\ Cleaned(c)[k] = NoVisitor
           /\ visitors[k] # NoVisitor /\ Expired(visitors[k], call[c].t)
  <2>1. visitors[k] \in Visitor /\ visitors[k].last <= visitors[k].lastSeen + Lag
    BY <1>2 DEF IInv, TypeOK, ClocksOK, Present
  <2>2. advance(visitors[k], call[c].t) = capacity
    BY <1>2, <2>1, CleanedFull
  <2> QED
    BY <1>2, <2>2 DEF LevelIn
<1> QED
  BY <1>1, <1>2, CleanedDrops DEF IInv

\* There is room for the key of a call without an eviction.
LEMMA NobodyEvicted ==
  ASSUME Roomy, NEW m \in [Keys -> Visitor \cup {NoVisitor}], NEW k \in Keys
  PROVE  MakeRoom(m, k) = {m}
<1>1. CASE m[k] # NoVisitor
  BY <1>1 DEF MakeRoom
<1>2. CASE m[k] = NoVisitor
  <2>1. Present(m) \subseteq Keys \ {k}
    BY <1>2 DEF Present
  <2>2. IsFiniteSet(Keys \ {k}) /\ Cardinality(Keys \ {k}) = Cardinality(Keys) - 1
    BY FS_RemoveElement DEF Roomy
  <2>3. IsFiniteSet(Present(m)) /\ Cardinality(Present(m)) <= Cardinality(Keys \ {k})
    BY <2>1, <2>2, FS_Subset
  <2>4. Cardinality(Keys) \in Nat /\ Cardinality(Present(m)) \in Nat
    BY <2>3, FS_CardinalityType DEF Roomy
  <2>5. ~(Cardinality(Present(m)) >= maxVisitors)
    BY <2>2, <2>3, <2>4, ConstantsAreNat, SMT DEF Roomy
  <2> QED
    BY <2>5 DEF MakeRoom
<1> QED
  BY <1>1, <1>2

\* A call takes a token of its key if there is one, and of no other key.
LEMMA AllowTakes ==
  ASSUME Roomy, IInv, NEW c \in Calls, Allow(c), NEW k \in Keys
  PROVE  LET takes == k = call[c].key /\ LevelIn(visitors, k, now) >= Unit IN
         /\ LevelIn(visitors', k, now) =
              IF takes THEN LevelIn(visitors, k, now) - Unit ELSE LevelIn(visitors, k, now)
         /\ k = watched => taken' = IF takes THEN Counted(taken, 1) ELSE taken
<1> USE DEF IInv
<1> DEFINE t == call[c].t
<1>1. PICK vs \in [Keys -> Visitor \cup {NoVisitor}], v \in Visitor :
        /\ call[c].key \in Keys /\ t \in 0 .. MaxTime /\ t <= now /\ now <= t + Lag
        /\ vs \in MakeRoom(Cleaned(c), call[c].key)
        /\ v = IF vs[call[c].key] = NoVisitor THEN NewLimiter ELSE vs[call[c].key]
        /\ visitors' = [vs EXCEPT ![call[c].key] = [AllowN(v, t) EXCEPT !.lastSeen = t]]
        /\ taken' = IF call[c].key = watched /\ advance(v, t) >= Unit
                    THEN Counted(taken, 1) ELSE taken
  BY AllowSteps
<1>2. t = now /\ t \in Nat /\ now \in 0 .. MaxTime
  <2>1. now \in 0 .. MaxTime /\ t \in 0 .. MaxTime /\ t <= now /\ now <= t + Lag
    BY <1>1 DEF TypeOK
  <2> HIDE DEF t
  <2> QED
    BY <2>1, ConstantsAreNat, SMT DEF Roomy
<1>3. vs = Cleaned(c)
  BY <1>1, CleanedTyped, NobodyEvicted
<1>4. LevelIn(vs, k, now) = LevelIn(visitors, k, now)
  BY <1>2, <1>3, CleanedSame
<1>5. CASE k # call[c].key
  <2>1. visitors'[k] = vs[k]
    BY <1>1, <1>5
  <2>2. LevelIn(visitors', k, now) = LevelIn(vs, k, now)
    BY <2>1 DEF LevelIn
  <2> QED
    BY <1>1, <1>4, <1>5, <2>2
<1>6. CASE k = call[c].key
  <2> DEFINE u == [AllowN(v, now) EXCEPT !.lastSeen = now]
  <2>1. visitors'[k] = u
    BY <1>1, <1>2, <1>6
  <2>2. advance(v, now) = LevelIn(visitors, k, now)
    <3>1. CASE vs[k] = NoVisitor
      BY <1>1, <1>2, <1>4, <1>6, <3>1, NewLimiterFull DEF LevelIn
    <3>2. CASE vs[k] # NoVisitor
      BY <1>1, <1>4, <1>6, <3>2 DEF LevelIn
    <3> QED
      BY <3>1, <3>2
  <2>3. /\ u \in Visitor
        /\ advance(v, now) >= Unit => u.tokens = advance(v, now) - Unit /\ u.last = now
        /\ ~(advance(v, now) >= Unit) => u.tokens = v.tokens /\ u.last = v.last
    BY <1>2, AllowNTyped
  <2>4. LevelIn(visitors', k, now) = advance(u, now)
    <3>1. u # NoVisitor
      BY <2>3, LimiterConstants
    <3> QED
      BY <2>1, <3>1 DEF LevelIn
  <2> HIDE DEF u
  <2>5. advance(u, now) = IF advance(v, now) >= Unit THEN advance(v, now) - Unit
                          ELSE advance(v, now)
    <3>1. CASE advance(v, now) >= Unit
      BY <1>2, <2>3, <3>1, AdvanceByNone
    <3>2. CASE ~(advance(v, now) >= Unit)
      BY <2>3, <3>2 DEF advance
    <3> QED
      BY <3>1, <3>2
  <2> QED
    BY <1>1, <1>2, <1>6, <2>2, <2>4, <2>5
<1> QED
  BY <1>5, <1>6

-----------------------------------------------------------------------------
(* The refinement                                                          *)

LEMMA LevelIsIn == Level(watched) = LevelIn(visitors, watched, now)
BY DEF Level, LevelIn

LEMMA StepRefines ==
  ASSUME Roomy, IInv, [Next]_vars
  PROVE  [B!BucketNext]_(B!bucketVars)
<1> USE DEF IInv
<1> DEFINE W == {"watched"}
           l == LevelIn(visitors, watched, now)
           m == LevelIn(visitors', watched', now')
<1>1. watched \in Keys /\ watched' = watched
  BY DEF TypeOK, Next, ReadClock, Allow, Tick, vars, history
<1>2. /\ B!bucketVars = <<now, [k \in W |-> l], [k \in W |-> taken]>>
      /\ (B!bucketVars)' = <<now', [k \in W |-> m], [k \in W |-> taken']>>
  BY DEF B!bucketVars, Level, LevelIn
<1>3. CASE \E c \in Calls : Allow(c)
  <2>1. PICK c \in Calls : Allow(c)
    BY <1>3
  <2>2. now' = now
    BY <2>1 DEF Allow
  <2> DEFINE takes == watched = call[c].key /\ l >= Unit
  <2>3. /\ m = IF takes THEN l - Unit ELSE l
        /\ taken' = IF takes THEN Counted(taken, 1) ELSE taken
    BY <1>1, <2>1, <2>2, AllowTakes
  <2>4. CASE takes
    <3>1. B!Take("watched")
      BY <1>1, <2>2, <2>3, <2>4 DEF B!Take, B!Counted, Counted, Level, LevelIn
    <3> QED
      BY <3>1 DEF B!BucketNext
  <2>5. CASE ~takes
    <3>1. m = l /\ taken' = taken
      BY <2>3, <2>5
    <3> QED
      BY <1>2, <2>2, <3>1
  <2> QED
    BY <2>4, <2>5
<1>4. CASE Tick
  <2>1. now \in Nat /\ now < MaxTime /\ now' = now + 1 /\ visitors' = visitors /\ taken' = taken
    <3>1. now \in 0 .. MaxTime
      BY DEF TypeOK
    <3> QED
      BY <1>4, <3>1, ConstantsAreNat, SMT DEF Tick, history
  <2>2. m = IF l + Rate <= capacity THEN l + Rate ELSE capacity
    <3>1. CASE visitors[watched] = NoVisitor
      <4>1. l = capacity /\ m = capacity
        BY <1>1, <2>1, <3>1 DEF LevelIn
      <4> HIDE DEF l, m
      <4> QED
        BY <4>1, ConstantsAreNat, LimiterConstants, SMT
    <3>2. CASE visitors[watched] # NoVisitor
      <4>1. visitors[watched] \in Visitor /\ visitors[watched].last <= now
        BY <1>1, <3>2 DEF TypeOK, ClocksOK, Present
      <4> QED
        BY <1>1, <2>1, <3>2, <4>1, AdvanceByOne DEF LevelIn
    <3> QED
      BY <3>1, <3>2
  <2>3. B!Advance
    BY <1>1, <2>1, <2>2 DEF B!Advance, B!Capacity, capacity, Level, LevelIn
  <2> QED
    BY <2>3 DEF B!BucketNext
<1>5. CASE (\E c \in Calls, k \in Keys : ReadClock(c, k)) \/ UNCHANGED vars
  <2>1. now' = now /\ visitors' = visitors /\ taken' = taken
    BY <1>5 DEF ReadClock, vars, history
  <2> QED
    BY <1>1, <1>2, <2>1
<1> QED
  BY <1>3, <1>4, <1>5 DEF Next

(***************************************************************************)
(* While no call waits for the mutex and the map has room for every key,   *)
(* the map of the local limiter is an ideal bucket to each key: dropping   *)
(* idle visitors and making them anew is invisible.                        *)
(***************************************************************************)
THEOREM Refinement == Roomy => (Spec => ImplementsTokenBucket)
<1> SUFFICES ASSUME Roomy PROVE Spec => ImplementsTokenBucket
  OBVIOUS
<1>1. Init => B!BucketInit
  BY DEF Init, B!BucketInit, B!Capacity, capacity, Level
<1>2. IInv /\ [Next]_vars => [B!BucketNext]_(B!bucketVars)
  BY StepRefines
<1> QED
  BY <1>1, <1>2, Inductive, PTL DEF Spec, ImplementsTokenBucket, B!BucketSpec

-----------------------------------------------------------------------------
(* What the ideal bucket promises, the local limiter promises each key.    *)

P == INSTANCE TokenBucketProofs WITH
       Keys <- {"watched"},
       level <- [k \in {"watched"} |-> Level(watched)],
       taken <- [k \in {"watched"} |-> taken]

LEMMA Implements == Roomy => (Spec => P!BucketSpec)
<1> SUFFICES ASSUME Roomy PROVE Spec => P!BucketSpec
  OBVIOUS
<1>1. Init => P!BucketInit
  BY DEF Init, P!BucketInit, P!Capacity, capacity, Level
<1>2. IInv /\ [Next]_vars => [P!BucketNext]_(P!bucketVars)
  BY StepRefines DEF P!BucketNext, P!bucketVars, P!Advance, P!Take, P!Counted, P!Capacity,
     B!BucketNext, B!bucketVars, B!Advance, B!Take, B!Counted, B!Capacity
<1> QED
  BY <1>1, <1>2, Inductive, PTL DEF Spec, P!BucketSpec

LEMMA BucketIsThere == P!BucketConstants
BY LimiterConstants DEF P!BucketConstants

(***************************************************************************)
(* No window sees more tokens of a key taken than a burst and the yield of *)
(* the rate, without any of the excess that ExcessIsExplained allows for.  *)
(***************************************************************************)
THEOREM WithinRateHolds ==
  Roomy => (Spec => [](\A s \in 0 .. now : taken[s] * Unit <= capacity + Rate * (now - s)))
<1> SUFFICES ASSUME Roomy
             PROVE  Spec => [](\A s \in 0 .. now : taken[s] * Unit <= capacity + Rate * (now - s))
  OBVIOUS
<1>1. P!BucketSpec => []P!WithinRate
  BY BucketIsThere, P!BucketWithinRate
<1>2. P!WithinRate => \A s \in 0 .. now : taken[s] * Unit <= capacity + Rate * (now - s)
  BY DEF P!WithinRate, P!Capacity, capacity
<1> QED
  BY <1>1, <1>2, Implements, PTL

(***************************************************************************)
(* A call is never denied too early: a key has no token left only when one *)
(* token more would exceed the limit of some window, however often its     *)
(* visitor was dropped and made anew.                                      *)
(***************************************************************************)
THEOREM DeniesOnlyWhenExhausted ==
  Roomy => (Spec => [](Level(watched) < Unit =>
    \E s \in 0 .. now : (taken[s] + 1) * Unit > capacity + Rate * (now - s)))
<1> DEFINE Exhausted == \E s \in 0 .. now : (taken[s] + 1) * Unit > capacity + Rate * (now - s)
<1> SUFFICES ASSUME Roomy PROVE Spec => [](Level(watched) < Unit => Exhausted)
  OBVIOUS
<1>1. P!BucketSpec => []P!EmptyOnlyWhenExhausted
  BY BucketIsThere, P!BucketGivesAll
<1>2. P!EmptyOnlyWhenExhausted => (Level(watched) < Unit => Exhausted)
  BY DEF P!EmptyOnlyWhenExhausted, P!Capacity, capacity
<1> QED
  BY <1>1, <1>2, Implements, PTL
=============================================================================
