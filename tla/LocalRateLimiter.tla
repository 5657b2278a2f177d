-------------------------- MODULE LocalRateLimiter --------------------------
(***************************************************************************)
(* ClientIPRateLimiter: the token buckets of one process, a rate.Limiter   *)
(* per key in a map under a mutex.  Keys that were idle for visitorTTL are *)
(* dropped now and then, and the key that was idle longest is dropped when *)
(* the map is full.  A call reads the clock before it takes the mutex, so  *)
(* that calls may enter in another order than that of their readings.      *)
(***************************************************************************)
EXTENDS Naturals, FiniteSets

CONSTANTS
  Keys, Calls,
  Rate, Burst,       \* limit and burst
  Unit,              \* the parts of a token, of which a tick yields Rate
  visitorTTL, maxVisitors,
  Lag,               \* bound: how long a call may wait for the mutex
  MaxTime,           \* bound: the clock stops here
  MaxEvictions,      \* bound: no call comes once evicted[0] is there
  NoVisitor, NoKey

capacity == Burst * Unit

Visitor == [tokens : 0 .. capacity, last : 0 .. MaxTime, lastSeen : 0 .. MaxTime]

\* The constructor panics otherwise; app.go has keys live far longer than a
\* bucket takes to fill.
ASSUME LimiterConstants ==
  /\ Rate \in Nat \ {0} /\ Burst \in Nat \ {0} /\ Unit \in Nat \ {0}
  /\ visitorTTL \in Nat \ {0} /\ maxVisitors \in Nat \ {0}
  /\ Lag \in Nat /\ MaxTime \in Nat /\ MaxEvictions \in Nat
  /\ Rate * visitorTTL >= capacity + 2 * Rate * Lag
  /\ NoKey \notin Keys
  /\ NoVisitor \notin Visitor

VARIABLES
  now,               \* l.now()
  visitors,          \* key -> its limiter
  nextCleanup,       \* 0 while it is the zero time
  call,              \* the calls of Allow
  watched,           \* any key, and its histories: time -> what happened since then
  taken,             \* the tokens taken
  rewound,           \* the time by which calls set the clock of the bucket back
  evicted            \* how often it was dropped to make room

history == <<watched, taken, rewound, evicted>>
vars == <<now, visitors, nextCleanup, call, history>>

\* A call that waits for the mutex: its key and the time it read.
Call == [key : Keys \cup {NoKey}, t : 0 .. MaxTime]
NoCall == [key |-> NoKey, t |-> 0]

-----------------------------------------------------------------------------
(* rate.Limiter: NewLimiter, advance and AllowN                            *)

NewLimiter == [tokens |-> capacity, last |-> 0, lastSeen |-> 0]

\* Mutant: the refill is not cut at the burst.
Uncapped(v, t) == v.tokens + Rate * (IF t < v.last THEN 0 ELSE t - v.last)
\* The tokens of a bucket at t; a time before its last is read as its last.
advance(v, t) ==
  LET last == IF t < v.last THEN t ELSE v.last
      tokens == v.tokens + Rate * (t - last) IN
  IF tokens > capacity THEN capacity ELSE tokens

\* Mutant: a call that is denied moves last on.
DeniedMovesLast(v, t) ==
  IF advance(v, t) >= Unit
  THEN [v EXCEPT !.tokens = advance(v, t) - Unit, !.last = t]
  ELSE [v EXCEPT !.last = t]
\* A call that is denied leaves the bucket as it is.
AllowN(v, t) ==
  IF advance(v, t) >= Unit
  THEN [v EXCEPT !.tokens = advance(v, t) - Unit, !.last = t]
  ELSE v

-----------------------------------------------------------------------------
(* The map                                                                 *)

Present(vs) == {k \in Keys : vs[k] # NoVisitor}

\* Mutant: idle for a part of the TTL.
ExpiresEarly(v, t) == t >= v.lastSeen + visitorTTL \div 4
Expired(v, t) == t >= v.lastSeen + visitorTTL

\* Mutant: the comparison the other way round.
CleanupOnTime(t) == t <= nextCleanup
CleanupDue(t) == t >= nextCleanup

deleteExpired(vs, t) ==
  [k \in Keys |-> IF vs[k] # NoVisitor /\ Expired(vs[k], t) THEN NoVisitor ELSE vs[k]]

\* The map may hold several that are oldest; its iteration picks one.
Oldest(vs) ==
  {k \in Present(vs) : \A j \in Present(vs) : vs[k].lastSeen <= vs[j].lastSeen}
deleteOldest(vs) == {[vs EXCEPT ![o] = NoVisitor] : o \in Oldest(vs)}

\* Mutant: the map may have one visitor more.
RoomForOneMore(vs, k) ==
  IF vs[k] = NoVisitor /\ Cardinality(Present(vs)) > maxVisitors
  THEN deleteOldest(vs) ELSE {vs}
\* The maps in which there is room for k.
MakeRoom(vs, k) ==
  IF vs[k] = NoVisitor /\ Cardinality(Present(vs)) >= maxVisitors
  THEN deleteOldest(vs) ELSE {vs}

-----------------------------------------------------------------------------
(* Allow                                                                   *)

\* now := l.now(), before the mutex.
ReadClock(c, k) ==
  /\ call[c] = NoCall
  /\ evicted[0] < MaxEvictions
  /\ call' = [call EXCEPT ![c] = [key |-> k, t |-> now]]
  /\ UNCHANGED <<now, visitors, nextCleanup, history>>

Waiting(c) == call[c] # NoCall

\* What n of something now adds to its history h.
Counted(h, n) == [s \in 0 .. MaxTime |-> IF s <= now THEN h[s] + n ELSE h[s]]

\* The critical section, from the clean-up to AllowN.
Allow(c) ==
  LET k == call[c].key
      t == call[c].t
      cleaned == IF CleanupDue(t) THEN deleteExpired(visitors, t) ELSE visitors IN
  /\ Waiting(c)
  /\ nextCleanup' = IF CleanupDue(t) THEN t + visitorTTL ELSE nextCleanup
  /\ \E vs \in MakeRoom(cleaned, k) :
       LET v == IF vs[k] = NoVisitor THEN NewLimiter ELSE vs[k]
           allowed == advance(v, t) >= Unit IN
       /\ visitors' = [vs EXCEPT ![k] = [AllowN(v, t) EXCEPT !.lastSeen = t]]
       /\ taken' = IF k = watched /\ allowed THEN Counted(taken, 1) ELSE taken
       /\ rewound' = IF k = watched /\ allowed /\ t < v.last
                     THEN Counted(rewound, v.last - t) ELSE rewound
       /\ evicted' = IF watched \in Present(cleaned) \ Present(vs)
                     THEN Counted(evicted, 1) ELSE evicted
  /\ call' = [call EXCEPT ![c] = NoCall]
  /\ UNCHANGED <<now, watched>>

Tick ==
  /\ now < MaxTime
  /\ \A c \in Calls : Waiting(c) => now < call[c].t + Lag
  /\ now' = now + 1
  /\ UNCHANGED <<visitors, nextCleanup, call, history>>

Init ==
  /\ now = 0
  /\ visitors = [k \in Keys |-> NoVisitor]
  /\ nextCleanup = 0
  /\ call = [c \in Calls |-> NoCall]
  /\ watched \in Keys
  /\ taken = [s \in 0 .. MaxTime |-> 0]
  /\ rewound = [s \in 0 .. MaxTime |-> 0]
  /\ evicted = [s \in 0 .. MaxTime |-> 0]

Next ==
  \/ \E c \in Calls : (\E k \in Keys : ReadClock(c, k)) \/ Allow(c)
  \/ Tick

Spec == Init /\ [][Next]_vars

-----------------------------------------------------------------------------
(* Properties                                                              *)

(***************************************************************************)
(* Every variable has its type.                                            *)
(***************************************************************************)
TypeOK ==
  /\ now \in 0 .. MaxTime
  /\ visitors \in [Keys -> Visitor \cup {NoVisitor}]
  /\ nextCleanup \in 0 .. MaxTime + visitorTTL
  /\ call \in [Calls -> Call]
  /\ watched \in Keys
  /\ \A h \in {taken, rewound, evicted} : h \in [0 .. MaxTime -> Nat]

(***************************************************************************)
(* "maxKeys bounds memory use under key churn".                            *)
(***************************************************************************)
VisitorsBounded == Cardinality(Present(visitors)) <= maxVisitors

(***************************************************************************)
(* What a window may see beyond the burst and the yield of the rate is     *)
(* explained: by a burst for every time the bucket was dropped to make     *)
(* room, by the yield of the time that the first call of a bucket waited   *)
(* for the mutex, and of the time by which later ones set its clock back.  *)
(***************************************************************************)
ExcessIsExplained ==
  \A s \in 0 .. now :
    taken[s] * Unit <= (capacity + Rate * Lag) * (1 + evicted[s])
                         + Rate * (now - s + rewound[s])

(***************************************************************************)
(* "Keys expire after visitorTTL", at the first call of another key that   *)
(* comes one more TTL later: no call leaves a key behind that was idle for *)
(* longer than that.                                                       *)
(***************************************************************************)
Served(c) == call[c] # NoCall /\ call'[c] = NoCall
IdleVisitorsGo ==
  [][\A c \in Calls : Served(c) =>
       \A k \in Present(visitors') : call[c].t < visitors'[k].lastSeen + 2 * visitorTTL]_vars

(***************************************************************************)
(* While calls enter in the order of their readings and the map has room   *)
(* for every key, the map is an ideal bucket to each key: clean-ups are    *)
(* invisible.                                                              *)
(***************************************************************************)
Level(k) == IF visitors[k] = NoVisitor THEN capacity ELSE advance(visitors[k], now)
B == INSTANCE TokenBucket WITH
       Keys <- {"watched"},
       level <- [k \in {"watched"} |-> Level(watched)],
       taken <- [k \in {"watched"} |-> taken]
ImplementsTokenBucket == B!BucketSpec
=============================================================================
