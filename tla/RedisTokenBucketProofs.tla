----------------------- MODULE RedisTokenBucketProofs -----------------------
(***************************************************************************)
(* The redis limiter is an ideal bucket, for every rate, burst, idle TTL   *)
(* and number of retries: what the script forgets between two calls, and   *)
(* what redis forgets with the key, the elapsed time gives back.           *)
(***************************************************************************)
EXTENDS RedisTokenBucket, Integers, TLAPS

-----------------------------------------------------------------------------
(* Arithmetic                                                              *)

LEMMA Products ==
  ASSUME NEW n \in Int, NEW m \in Int, NEW u \in Int
  PROVE  /\ (n + m) * u = n * u + m * u
         /\ n * u = u * n
         /\ n * u \in Int
BY SMT

LEMMA Monotone ==
  ASSUME NEW n \in Nat, NEW m \in Nat, NEW u \in Nat, n <= m
  PROVE  n * u <= m * u
<1>1. m * u = n * u + (m - n) * u
  BY Products, SMT
<1>2. (m - n) * u \in Nat
  BY SMT
<1> QED BY <1>1, <1>2, Products, SMT

LEMMA Euclid ==
  ASSUME NEW a \in Nat, NEW b \in Nat \ {0}
  PROVE  a \div b \in Nat /\ a % b \in 0 .. (b - 1) /\ a = b * (a \div b) + (a % b)
BY SMT

LEMMA CeilDivBound ==
  ASSUME NEW a \in Nat, NEW b \in Nat \ {0}
  PROVE  /\ CeilDiv(a, b) \in Nat
         /\ a <= b * CeilDiv(a, b)
         /\ b * CeilDiv(a, b) < a + b
<1> DEFINE q == (a + b - 1) \div b
           m == (a + b - 1) % b
<1>1. q \in Nat /\ m \in 0 .. (b - 1) /\ a + b - 1 = b * q + m
  <2>1. a + b - 1 \in Nat
    BY SMT
  <2> QED BY <2>1, Euclid
<1>2. b * q \in Nat
  BY <1>1, SMT
<1> HIDE DEF m
<1>3. CeilDiv(a, b) = q
  BY DEF CeilDiv
<1> HIDE DEF q
<1> QED BY <1>1, <1>2, <1>3, SMT

LEMMA CeilDivUnique ==
  ASSUME NEW a \in Nat, NEW b \in Nat \ {0}, NEW x \in Nat, NEW y \in Nat,
         a <= b * x, b * x < a + b, a <= b * y, b * y < a + b
  PROVE  x = y
<1>1. CASE x < y
  <2>1. b * (x + 1) <= b * y
    BY <1>1, SMT
  <2>2. b * (x + 1) = b * x + b
    BY SMT
  <2> QED BY <2>1, <2>2, SMT
<1>2. CASE y < x
  <2>1. b * (y + 1) <= b * x
    BY <1>2, SMT
  <2>2. b * (y + 1) = b * y + b
    BY SMT
  <2> QED BY <2>1, <2>2, SMT
<1> QED BY <1>1, <1>2, SMT

-----------------------------------------------------------------------------
(* The fill time                                                           *)

\* In fill_ms an empty bucket gains its capacity, in a millisecond less it does not.
LEMMA FillTime ==
  /\ capacity \in Nat
  /\ fill_ms \in Nat
  /\ capacity <= fill_ms * RatePerSecond
  /\ \A e \in Nat : e < fill_ms => e * RatePerSecond <= capacity
<1>1. capacity \in Nat /\ capacity = Burst * MSPerSecond
  BY LimiterConstants, SMT DEF capacity, token_scale
<1>2. /\ fill_ms \in Nat
      /\ capacity <= RatePerSecond * fill_ms
      /\ RatePerSecond * fill_ms < capacity + RatePerSecond
  BY <1>1, LimiterConstants, CeilDivBound DEF fill_ms
<1>3. RatePerSecond * fill_ms = fill_ms * RatePerSecond
  BY <1>2, LimiterConstants, Products
<1>4. ASSUME NEW e \in Nat, e < fill_ms
      PROVE  e * RatePerSecond <= capacity
  <2>1. (e + 1) * RatePerSecond <= fill_ms * RatePerSecond
    BY <1>2, <1>4, Monotone, LimiterConstants, SMT
  <2>2. (e + 1) * RatePerSecond = e * RatePerSecond + RatePerSecond /\ e * RatePerSecond \in Int
    BY LimiterConstants, SMT
  <2>3. fill_ms * RatePerSecond \in Int
    BY <1>2, LimiterConstants, SMT
  <2> QED BY <1>1, <1>2, <1>3, <2>1, <2>2, <2>3, LimiterConstants, SMT
<1> QED BY <1>1, <1>2, <1>3, <1>4

(***************************************************************************)
(* The constructor computes in whole seconds and a remainder, so that it   *)
(* does not overflow, what the script computes in one division.            *)
(***************************************************************************)
THEOREM FillsAgree == tokenBucketFillMilliseconds = fill_ms
<1> DEFINE w == Burst \div RatePerSecond
           m == Burst % RatePerSecond
           c == CeilDiv(m * MSPerSecond, RatePerSecond)
           R == RatePerSecond
           M == MSPerSecond
<1>1. w \in Nat /\ m \in Nat /\ Burst = R * w + m
  BY LimiterConstants, Euclid
<1>2. m * M \in Nat
  BY <1>1, LimiterConstants, SMT
<1>3. c \in Nat /\ m * M <= R * c /\ R * c < m * M + R
  BY <1>2, LimiterConstants, CeilDivBound
<1>4. tokenBucketFillMilliseconds = w * M + c
  BY DEF tokenBucketFillMilliseconds
<1> HIDE DEF w, m, c
<1>5. Burst * M = R * (w * M) + m * M
  BY <1>1, LimiterConstants, SMT
<1>6. w * M + c \in Nat /\ R * (w * M + c) = R * (w * M) + R * c
  BY <1>1, <1>3, LimiterConstants, SMT
<1>7. R * (w * M) \in Nat /\ R * c \in Nat /\ Burst * M \in Nat
  BY <1>1, <1>3, LimiterConstants, SMT
<1>8. Burst * M <= R * (w * M + c) /\ R * (w * M + c) < Burst * M + R
  BY <1>2, <1>3, <1>5, <1>6, <1>7, LimiterConstants, SMT
<1>9. fill_ms \in Nat /\ Burst * M <= R * fill_ms /\ R * fill_ms < Burst * M + R
  BY <1>7, LimiterConstants, CeilDivBound DEF fill_ms
<1> QED BY <1>4, <1>6, <1>7, <1>8, <1>9, CeilDivUnique, LimiterConstants

LEMMA IdleTTLFills == IdleTTL \in Nat /\ fill_ms <= IdleTTL
BY FillsAgree, FillTime, LimiterConstants, SMT DEF IdleTTL

-----------------------------------------------------------------------------
(* The types                                                               *)

LEMMA TokensTyped ==
  ASSUME TypeOK, NEW k \in Keys
  PROVE  Tokens(hash[k]) \in 0 .. capacity
<1>1. hash[k] \in Hash \cup {NoHash}
  BY DEF TypeOK
<1>2. CASE hash[k] = NoHash
  BY <1>2, FillTime, SMT DEF Tokens, FullByTime
<1>3. CASE hash[k] \in Hash
  <2> DEFINE e == elapsed_ms(hash[k])
             t == hash[k].tokens
  <2>1. e \in Nat /\ t \in 0 .. capacity
    BY <1>3, LimiterConstants, SMT DEF elapsed_ms, Hash, TypeOK
  <2>2. e * RatePerSecond \in Nat
    BY <2>1, LimiterConstants, SMT
  <2>3. Tokens(hash[k]) \in {capacity, t + e * RatePerSecond}
    BY DEF Tokens, FullByTime, refill
  <2>4. CASE e * RatePerSecond >= capacity - t
    BY <2>4, FillTime, SMT DEF Tokens, FullByTime, refill
  <2>5. CASE ~(e * RatePerSecond >= capacity - t)
    <3> HIDE DEF e, t
    <3> QED BY <2>1, <2>2, <2>3, <2>5, FillTime, SMT
  <2> QED BY <2>4, <2>5
<1> QED BY <1>1, <1>2, <1>3

\* What a script writes.
Left(k) == IF allowed(k) THEN Tokens(hash[k]) - token_scale ELSE Tokens(hash[k])

LEMMA WriteIs ==
  ASSUME NEW k \in Keys, RunScript(k)
  PROVE  hash' = [hash EXCEPT ![k] = [tokens |-> Left(k), last_ms |-> now_ms,
                                      expires |-> now_ms + IdleTTL]]
BY DEF RunScript, Write, Left, allowed

LEMMA LeftTyped ==
  ASSUME TypeOK, NEW k \in Keys
  PROVE  Left(k) \in 0 .. capacity
BY TokensTyped, FillTime, LimiterConstants, SMT DEF Left, allowed, token_scale

LEMMA ScriptTyped ==
  ASSUME TypeOK, NEW k \in Keys, RunScript(k)
  PROVE  /\ hash' \in [Keys -> Hash \cup {NoHash}]
         /\ taken' \in [Keys -> [0 .. MaxTime -> Nat]]
<1>1. [tokens |-> Left(k), last_ms |-> now_ms, expires |-> now_ms + IdleTTL] \in Hash
  BY LeftTyped, IdleTTLFills, LimiterConstants, SMT DEF Hash, TypeOK
<1>2. hash' \in [Keys -> Hash \cup {NoHash}]
  BY <1>1, WriteIs DEF TypeOK
<1>3. taken' \in [Keys -> [0 .. MaxTime -> Nat]]
  BY LimiterConstants, SMT DEF TypeOK, RunScript
<1> QED BY <1>2, <1>3

\* A call that goes on, or ends in an answer.
LEMMA CallTyped ==
  ASSUME TypeOK, NEW c \in Calls, Waiting(c), call[c].sends >= 1, SendAgain(c)
  PROVE  call' \in [Calls -> Call]
<1>1. call[c] \in Call
  BY DEF TypeOK
<1>2. call[c].sends - 1 \in 0 .. MaxRetries + 1
  BY <1>1, LimiterConstants, SMT DEF Call
<1> DEFINE a == IF call[c].sends = 1 THEN "error" ELSE "none"
<1>3. a \in Answers
  BY DEF Answers
<1> HIDE DEF a
<1>4. [call[c] EXCEPT !.sends = call[c].sends - 1, !.answer = a] \in Call
  BY <1>1, <1>2, <1>3, Zenon DEF Call
<1> QED BY <1>4 DEF SendAgain, TypeOK, a

-----------------------------------------------------------------------------
(* The invariant                                                           *)

\* What a script does to the hashes.
LEMMA ScriptKeepsHashes ==
  ASSUME IInv, NEW k \in Keys, RunScript(k), UNCHANGED now_ms
  PROVE  \A j \in Keys : HashOK(j)'
<1> SUFFICES ASSUME NEW j \in Keys PROVE HashOK(j)'
  OBVIOUS
<1> DEFINE w == [tokens |-> Left(k), last_ms |-> now_ms, expires |-> now_ms + IdleTTL]
<1>1. hash' = [hash EXCEPT ![k] = w]
  BY WriteIs
<1>2. w.last_ms = now_ms /\ w.expires = now_ms + IdleTTL
  OBVIOUS
<1> HIDE DEF w
<1>3. now_ms <= now_ms
  BY LimiterConstants, SMT DEF IInv, TypeOK
<1> QED BY <1>1, <1>2, <1>3 DEF IInv, TypeOK, HashOK

LEMMA SendAgainKeeps ==
  ASSUME IInv, NEW c \in Calls, Waiting(c), SendAgain(c)
  PROVE  /\ call' \in [Calls -> Call]
         /\ \A d \in Calls : Waiting(d)' => call'[d].sends > 0
<1>1. call[c].sends \in Nat /\ call[c].sends > 0
  BY LimiterConstants, SMT DEF IInv, TypeOK, Call
<1>2. call' \in [Calls -> Call]
  BY <1>1, CallTyped, SMT DEF IInv
<1>3. \A d \in Calls : Waiting(d)' => call'[d].sends > 0
  BY <1>1, SMT DEF IInv, TypeOK, Call, Waiting, SendAgain
<1> QED BY <1>2, <1>3

LEMMA AnswerKeeps ==
  ASSUME IInv, NEW c \in Calls, NEW a \in Answers \ {"none"},
         call' = [call EXCEPT ![c].answer = a]
  PROVE  /\ call' \in [Calls -> Call]
         /\ \A d \in Calls : Waiting(d)' => call'[d].sends > 0
<1>1. call[c] \in Call
  BY DEF IInv, TypeOK
<1>2. [call[c] EXCEPT !.answer = a] \in Call
  BY <1>1, Zenon DEF Call
<1>3. call' \in [Calls -> Call]
  BY <1>2 DEF IInv, TypeOK
<1>4. \A d \in Calls : Waiting(d)' => call'[d].sends > 0
  BY SMT DEF IInv, TypeOK, Call, Waiting
<1> QED BY <1>3, <1>4

LEMMA CallStep ==
  ASSUME IInv, NEW c \in Calls,
         \/ \E k \in Keys : Start(c, k)
         \/ Answered(c) \/ Lost(c) \/ Unsent(c) \/ Cancelled(c) \/ Return(c)
  PROVE  IInv'
<1>1. CASE \E k \in Keys : Start(c, k)
  <2> PICK k \in Keys : Start(c, k)
    BY <1>1
  <2>1. [key |-> k, sends |-> MaxRetries + 1, answer |-> "none"] \in Call
    BY LimiterConstants, SMT DEF Call, Answers
  <2>2. call' \in [Calls -> Call]
    BY <2>1 DEF Start, IInv, TypeOK
  <2>3. \A d \in Calls : Waiting(d)' => call'[d].sends > 0
    BY LimiterConstants, SMT DEF Start, IInv, TypeOK, Waiting
  <2> QED BY <2>2, <2>3 DEF Start, IInv, TypeOK, HashOK
<1>2. CASE Answered(c)
  <2>1. PICK a \in {"allowed", "denied"} : call' = [call EXCEPT ![c].answer = a]
    BY <1>2 DEF Answered
  <2>2. a \in Answers \ {"none"}
    BY DEF Answers
  <2> QED BY <1>2, <2>1, <2>2, AnswerKeeps, ScriptTyped, ScriptKeepsHashes
          DEF Answered, Waiting, IInv, TypeOK
<1>3. CASE Lost(c)
  BY <1>3, SendAgainKeeps, ScriptTyped, ScriptKeepsHashes DEF Lost, Waiting, IInv, TypeOK
<1>4. CASE Unsent(c)
  BY <1>4, SendAgainKeeps DEF Unsent, IInv, TypeOK, HashOK
<1>5. CASE Cancelled(c)
  <2>1. "error" \in Answers \ {"none"}
    BY DEF Answers
  <2> QED BY <1>5, <2>1, AnswerKeeps DEF Cancelled, IInv, TypeOK, HashOK
<1>6. CASE Return(c)
  <2>1. NoCall \in Call
    BY LimiterConstants, SMT DEF NoCall, Call, Answers
  <2>2. call' \in [Calls -> Call]
    BY <1>6, <2>1 DEF Return, IInv, TypeOK
  <2>3. \A d \in Calls : Waiting(d)' => call'[d].sends > 0
    BY <1>6, LimiterConstants, SMT DEF Return, NoCall, IInv, TypeOK, Waiting
  <2> QED BY <1>6, <2>2, <2>3 DEF Return, IInv, TypeOK, HashOK
<1> QED BY <1>1, <1>2, <1>3, <1>4, <1>5, <1>6

(***************************************************************************)
(* The type of the limiter, the age of its hashes and the sends of its     *)
(* calls are an invariant.                                                 *)
(***************************************************************************)
THEOREM Inductive == Spec => []IInv
<1>1. Init => IInv
  <2> SUFFICES ASSUME Init PROVE IInv
    OBVIOUS
  <2>1. NoCall \in Call
    BY LimiterConstants, SMT DEF NoCall, Call, Answers
  <2>2. TypeOK
    BY <2>1, LimiterConstants, SMT DEF Init, TypeOK
  <2>3. \A c \in Calls : ~Waiting(c)
    BY LimiterConstants, SMT DEF Init, Waiting, NoCall
  <2> QED BY <2>2, <2>3 DEF Init, IInv, HashOK
<1>2. IInv /\ [Next]_vars => IInv'
  <2> SUFFICES ASSUME IInv, [Next]_vars PROVE IInv'
    OBVIOUS
  <2>1. ASSUME NEW c \in Calls,
               \/ \E k \in Keys : Start(c, k)
               \/ Answered(c) \/ Lost(c) \/ Unsent(c) \/ Cancelled(c) \/ Return(c)
        PROVE  IInv'
    BY <2>1, CallStep
  <2>2. ASSUME NEW k \in Keys, Expire(k) PROVE IInv'
    BY <2>2, SMT DEF Expire, IInv, TypeOK, HashOK, Waiting
  <2>3. CASE Tick
    BY <2>3, LimiterConstants, SMT DEF Tick, IInv, TypeOK, HashOK, Hash, Waiting
  <2>4. CASE UNCHANGED vars
    BY <2>4 DEF vars, IInv, TypeOK, HashOK, Waiting
  <2> QED BY <2>1, <2>2, <2>3, <2>4 DEF Next
<1> QED BY <1>1, <1>2, PTL DEF Spec

(***************************************************************************)
(* Every variable has its type.                                            *)
(***************************************************************************)
THEOREM TypeCorrect == Spec => []TypeOK
<1>1. IInv => TypeOK BY DEF IInv
<1> QED BY <1>1, Inductive, PTL

(***************************************************************************)
(* No script computes a number beyond those Lua represents exactly.        *)
(***************************************************************************)
THEOREM Exact == Spec => []NumbersStayExact
<1>1. IInv => NumbersStayExact
  <2> SUFFICES ASSUME IInv, NEW k \in Keys, NEW n \in Numbers(hash[k])
               PROVE  n <= MaxExact
    BY DEF NumbersStayExact
  <2>1. capacity \in Nat /\ capacity <= MaxExact /\ MaxExact \in Nat
    BY FillTime, SafeInLua DEF capacity, token_scale
  <2>2. Tokens(hash[k]) \in 0 .. capacity
    BY TokensTyped DEF IInv
  <2>3. ASSUME hash[k] # NoHash, ~FullByTime(hash[k])
        PROVE  /\ refill(hash[k]) \in Nat /\ refill(hash[k]) <= capacity
               /\ capacity - hash[k].tokens \in 0 .. capacity
    <3>1. elapsed_ms(hash[k]) \in Nat /\ hash[k].tokens \in 0 .. capacity
      BY <2>3, LimiterConstants, SMT DEF IInv, TypeOK, Hash, elapsed_ms
    <3>2. fill_ms \in Nat /\ elapsed_ms(hash[k]) < fill_ms
      BY <2>3, <3>1, FillTime DEF FullByTime
    <3>3. refill(hash[k]) <= capacity
      BY <3>1, <3>2, FillTime DEF refill
    <3>4. refill(hash[k]) \in Nat
      BY <3>1, LimiterConstants, SMT DEF refill
    <3> QED BY <2>1, <3>1, <3>3, <3>4, SMT
  <2>4. n \in {capacity, Tokens(hash[k])} \/
        (hash[k] # NoHash /\ ~FullByTime(hash[k]) /\ n \in {refill(hash[k]), capacity - hash[k].tokens})
    BY DEF Numbers
  <2> QED BY <2>1, <2>2, <2>3, <2>4, SMT
<1> QED BY <1>1, Inductive, PTL

-----------------------------------------------------------------------------
(* The refinement                                                          *)

\* A bucket gains RatePerSecond in a tick, up to its capacity.
LEMMA TickAdvances ==
  ASSUME IInv, Tick, NEW k \in Keys
  PROVE  Tokens(hash[k])' = IF Tokens(hash[k]) + RatePerSecond <= capacity
                            THEN Tokens(hash[k]) + RatePerSecond ELSE capacity
<1> DEFINE h == hash[k]
           R == RatePerSecond
<1>1. CASE h = NoHash
  BY <1>1, FillTime, LimiterConstants, SMT DEF Tokens, FullByTime, Tick
<1>2. CASE h # NoHash
  <2> DEFINE e == elapsed_ms(h)
             t == h.tokens
             p == e * R
  <2>1. /\ h \in Hash /\ h.last_ms \in Nat /\ now_ms \in Nat /\ h.last_ms <= now_ms
        /\ now_ms' = now_ms + 1 /\ hash' = hash /\ t \in 0 .. capacity
    BY <1>2, LimiterConstants, FillTime, SMT DEF IInv, TypeOK, HashOK, Hash, Tick
  <2>2. e \in Nat /\ elapsed_ms(h)' = e + 1
    BY <2>1, SMT DEF elapsed_ms
  <2>3. p \in Nat /\ (e + 1) * R = p + R
    BY <2>2, LimiterConstants, SMT
  <2>4. e >= fill_ms => p >= capacity
    <3> SUFFICES ASSUME e >= fill_ms PROVE p >= capacity
      OBVIOUS
    <3>1. fill_ms * R <= e * R
      BY <2>2, FillTime, Monotone, LimiterConstants, SMT
    <3>2. fill_ms * R \in Nat
      BY FillTime, LimiterConstants, SMT
    <3> QED BY <2>3, <3>1, <3>2, FillTime, SMT
  <2>5. e + 1 >= fill_ms => p + R >= capacity
    <3> SUFFICES ASSUME e + 1 >= fill_ms PROVE p + R >= capacity
      OBVIOUS
    <3>1. fill_ms * R <= (e + 1) * R
      BY <2>2, FillTime, Monotone, LimiterConstants, SMT
    <3>2. fill_ms * R \in Nat
      BY FillTime, LimiterConstants, SMT
    <3> QED BY <2>3, <3>1, <3>2, FillTime, LimiterConstants, SMT
  <2>6. Tokens(h) = IF e >= fill_ms \/ p >= capacity - t THEN capacity ELSE t + p
    BY <1>2 DEF Tokens, FullByTime, refill
  <2>7. Tokens(h)' = IF e + 1 >= fill_ms \/ p + R >= capacity - t THEN capacity ELSE t + (p + R)
    BY <1>2, <2>1, <2>2, <2>3 DEF Tokens, FullByTime, refill
  <2> HIDE DEF e, t, p, h
  <2>8. Tokens(h)' = IF Tokens(h) + R <= capacity THEN Tokens(h) + R ELSE capacity
    BY <2>1, <2>2, <2>3, <2>4, <2>5, <2>6, <2>7, FillTime, LimiterConstants, SMT
  <2> QED BY <2>8 DEF h
<1> QED BY <1>1, <1>2

\* A bucket that redis drops was full again.
LEMMA ExpireKeepsTokens ==
  ASSUME IInv, NEW k \in Keys, Expire(k), NEW j \in Keys
  PROVE  Tokens(hash[j])' = Tokens(hash[j])
<1>1. CASE j # k
  BY <1>1, SMT DEF IInv, TypeOK, Expire, Tokens, FullByTime, refill, elapsed_ms
<1>2. CASE j = k
  <2>1. hash[k] \in Hash /\ now_ms \in Nat /\ hash[k].last_ms \in Nat /\ hash'[k] = NoHash
        /\ hash[k].expires = hash[k].last_ms + IdleTTL /\ now_ms >= hash[k].expires
    BY LimiterConstants, SMT DEF IInv, TypeOK, HashOK, Hash, Expire
  <2>2. elapsed_ms(hash[k]) >= fill_ms
    BY <2>1, IdleTTLFills, FillTime, SMT DEF elapsed_ms
  <2> QED BY <1>2, <2>1, <2>2 DEF Tokens, FullByTime
<1> QED BY <1>1, <1>2

\* A script leaves what it wrote.
LEMMA ScriptLeaves ==
  ASSUME IInv, NEW k \in Keys, RunScript(k), UNCHANGED now_ms, NEW j \in Keys
  PROVE  Tokens(hash[j])' = IF j = k THEN Left(k) ELSE Tokens(hash[j])
<1> DEFINE w == [tokens |-> Left(k), last_ms |-> now_ms, expires |-> now_ms + IdleTTL]
<1>1. hash' = [hash EXCEPT ![k] = w] /\ hash \in [Keys -> Hash \cup {NoHash}]
  BY WriteIs DEF IInv, TypeOK
<1>2. CASE j # k
  BY <1>1, <1>2, SMT DEF Tokens, FullByTime, refill, elapsed_ms
<1>3. CASE j = k
  <2>1. w \in Hash /\ Left(k) \in 0 .. capacity
    BY LeftTyped, IdleTTLFills, LimiterConstants, SMT DEF Hash, IInv, TypeOK
  <2>2. hash'[j] = w /\ w # NoHash /\ w.tokens = Left(k) /\ w.last_ms = now_ms
    BY <1>1, <1>3, <2>1, NoHashIsNoHash
  <2> HIDE DEF w
  <2>3. elapsed_ms(hash[j])' = 0
    BY <2>2, LimiterConstants, SMT DEF elapsed_ms, IInv, TypeOK
  <2>4. 0 * RatePerSecond = 0
    BY LimiterConstants, SMT
  <2>5. refill(hash[j])' = 0
    BY <2>3, <2>4 DEF refill
  <2>6. fill_ms > 0
    <3>1. 0 < capacity
      BY LimiterConstants, SMT DEF capacity, token_scale
    <3> QED BY <2>4, <3>1, FillTime, SMT
  <2>7. /\ hash'[j] # NoHash /\ hash'[j].tokens = Left(k)
        /\ ~(elapsed_ms(hash[j])' >= fill_ms)
    BY <2>2, <2>3, <2>6, FillTime, SMT
  <2>8. Tokens(hash[j])' = IF 0 >= capacity - Left(k) THEN capacity ELSE Left(k) + 0
    BY <2>5, <2>7 DEF Tokens, FullByTime
  <2>9. (IF 0 >= capacity - Left(k) THEN capacity ELSE Left(k) + 0) = Left(k)
    BY <2>1, FillTime, SMT
  <2> QED BY <1>3, <2>8, <2>9
<1> QED BY <1>2, <1>3

\* A run of the script takes a token of the ideal bucket, or changes nothing of it.
LEMMA ScriptTakes ==
  ASSUME IInv, NEW k \in Keys, RunScript(k), UNCHANGED now_ms
  PROVE  B!BucketNext \/ UNCHANGED B!bucketVars
<1> DEFINE L == [j \in Keys |-> Tokens(hash[j])]
<1>1. L' = [j \in Keys |-> IF j = k THEN Left(k) ELSE L[j]]
  BY ScriptLeaves, Zenon
<1>2. CASE allowed(k)
  <2>1. L' = [L EXCEPT ![k] = L[k] - token_scale] /\ L[k] >= token_scale
    BY <1>1, <1>2 DEF Left, allowed
  <2>2. taken' = [taken EXCEPT ![k] = [s \in 0 .. MaxTime |->
                    IF s <= now_ms THEN taken[k][s] + 1 ELSE taken[k][s]]]
    BY <1>2 DEF RunScript
  <2>3. B!Take(k)
    BY <2>1, <2>2 DEF B!Take, B!Counted
  <2> QED BY <2>3 DEF B!BucketNext
<1>3. CASE ~allowed(k)
  <2>1. L' = L
    BY <1>1, <1>3, Zenon DEF Left
  <2>2. taken' = taken
    BY <1>3 DEF RunScript
  <2> QED BY <2>1, <2>2 DEF B!bucketVars
<1> QED BY <1>2, <1>3

LEMMA StepRefines ==
  ASSUME IInv, [Next]_vars
  PROVE  [B!BucketNext]_(B!bucketVars)
<1> DEFINE L == [j \in Keys |-> Tokens(hash[j])]
<1>1. ASSUME NEW c \in Calls, Answered(c) \/ Lost(c)
      PROVE  B!BucketNext \/ UNCHANGED B!bucketVars
  <2>1. call[c].key \in Keys /\ RunScript(call[c].key) /\ UNCHANGED now_ms
    BY <1>1 DEF Answered, Lost, Waiting
  <2> QED BY <2>1, ScriptTakes
<1>2. ASSUME UNCHANGED <<now_ms, hash, taken>>
      PROVE  UNCHANGED B!bucketVars
  BY <1>2 DEF B!bucketVars, Tokens, FullByTime, refill, elapsed_ms
<1>3. ASSUME NEW c \in Calls, (\E k \in Keys : Start(c, k)) \/ Unsent(c) \/ Cancelled(c) \/ Return(c)
      PROVE  UNCHANGED B!bucketVars
  BY <1>2, <1>3 DEF Start, Unsent, Cancelled, Return
<1>4. ASSUME NEW k \in Keys, Expire(k)
      PROVE  UNCHANGED B!bucketVars
  <2>1. L' = L
    BY <1>4, ExpireKeepsTokens
  <2> QED BY <1>4, <2>1 DEF Expire, B!bucketVars
<1>5. ASSUME Tick
      PROVE  B!BucketNext
  <2>1. \A j \in Keys : L[j] = Tokens(hash[j])
    OBVIOUS
  <2>2. L' = [j \in Keys |-> IF L[j] + RatePerSecond <= capacity
                             THEN L[j] + RatePerSecond ELSE capacity]
    BY <1>5, TickAdvances, Zenon
  <2>3. B!Capacity = capacity
    BY DEF B!Capacity, capacity
  <2> QED BY <1>5, <2>2, <2>3 DEF B!BucketNext, B!Advance, Tick
<1>6. CASE UNCHANGED vars
  BY <1>2, <1>6 DEF vars
<1> QED BY <1>1, <1>3, <1>4, <1>5, <1>6 DEF Next

(***************************************************************************)
(* The limiter implements the ideal bucket: the hash, its refill on        *)
(* demand, its idle TTL and the repeated runs of the script cannot be told *)
(* from a bucket that is refilled at every instant.                        *)
(***************************************************************************)
THEOREM Refinement == Spec => ImplementsTokenBucket
<1>1. Init => B!BucketInit
  BY DEF Init, B!BucketInit, Tokens, FullByTime, B!Capacity, capacity
<1>2. IInv /\ [Next]_vars => [B!BucketNext]_(B!bucketVars)
  BY StepRefines
<1> QED BY <1>1, <1>2, Inductive, PTL DEF Spec, ImplementsTokenBucket, B!BucketSpec

-----------------------------------------------------------------------------
(* What the ideal bucket promises, the limiter promises.                   *)

P == INSTANCE TokenBucketProofs WITH
       now <- now_ms, level <- [k \in Keys |-> Tokens(hash[k])],
       Rate <- RatePerSecond, Unit <- token_scale

LEMMA BucketIsThere == P!BucketConstants
BY LimiterConstants DEF P!BucketConstants, token_scale

LEMMA Implements == Spec => P!BucketSpec
<1>1. Init => P!BucketInit
  BY DEF Init, P!BucketInit, Tokens, FullByTime, P!Capacity, capacity
<1>2. IInv /\ [Next]_vars => [P!BucketNext]_(P!bucketVars)
  BY StepRefines DEF P!BucketNext, P!bucketVars, P!Advance, P!Take, P!Counted, P!Capacity,
     B!BucketNext, B!bucketVars, B!Advance, B!Take, B!Counted, B!Capacity
<1> QED BY <1>1, <1>2, Inductive, PTL DEF Spec, P!BucketSpec

(***************************************************************************)
(* The distributed limit holds in every window of time.                    *)
(***************************************************************************)
THEOREM WithinRateHolds == Spec => []WithinRate
<1>1. P!BucketSpec => []P!WithinRate
  BY BucketIsThere, P!BucketWithinRate
<1>2. P!WithinRate => WithinRate
  BY DEF P!WithinRate, WithinRate, P!Capacity, capacity
<1> QED BY <1>1, <1>2, Implements, PTL

LEMMA OnlyAnAnswerDenies ==
  ASSUME IInv, [Next]_vars, NEW c \in Calls, Denied(c)
  PROVE  Answered(c)
<1>0. call \in [Calls -> Call] /\ call' # call
  BY DEF IInv, TypeOK, Denied
<1> USE <1>0
<1>1. ASSUME NEW d \in Calls, \E k \in Keys : Start(d, k) PROVE FALSE
  BY <1>1, SMT DEF Denied, Start
<1>2. ASSUME NEW d \in Calls, Lost(d) \/ Unsent(d) PROVE FALSE
  <2>1. SendAgain(d)
    BY <1>2 DEF Lost, Unsent
  <2> QED BY <2>1, SMT DEF Denied, SendAgain, Call
<1>3. ASSUME NEW d \in Calls, Cancelled(d) PROVE FALSE
  BY <1>3, SMT DEF Denied, Cancelled, Call
<1>4. ASSUME NEW d \in Calls, Return(d) PROVE FALSE
  BY <1>4, SMT DEF Denied, Return, NoCall
<1>5. ASSUME NEW d \in Calls, Answered(d) PROVE d = c
  BY <1>5, SMT DEF Denied, Answered, Call
<1>6. ASSUME NEW k \in Keys, Expire(k) PROVE FALSE
  BY <1>6 DEF Expire
<1>7. ~Tick /\ ~UNCHANGED vars
  BY DEF Tick, vars
<1> QED BY <1>1, <1>2, <1>3, <1>4, <1>5, <1>6, <1>7 DEF Next

(***************************************************************************)
(* A denial is never premature.                                            *)
(***************************************************************************)
THEOREM DeniesOnlyWhenExhausted == Spec => DeniedOnlyWhenExhausted
<1>1. P!BucketSpec => []P!EmptyOnlyWhenExhausted
  BY BucketIsThere, P!BucketGivesAll
<1>2. IInv /\ P!EmptyOnlyWhenExhausted /\ [Next]_vars =>
        \A c \in Calls : Denied(c) => Exhausted(call[c].key)
  <2> SUFFICES ASSUME IInv, P!EmptyOnlyWhenExhausted, [Next]_vars, NEW c \in Calls, Denied(c)
               PROVE  Exhausted(call[c].key)
    OBVIOUS
  <2>1. Answered(c)
    BY OnlyAnAnswerDenies
  <2>2. call[c].key \in Keys /\ ~(Tokens(hash[call[c].key]) >= token_scale)
    BY <2>1, SMT DEF Answered, Waiting, Denied, allowed, IInv, TypeOK
  <2>3. Tokens(hash[call[c].key]) < token_scale
    BY <2>2, TokensTyped, FillTime, LimiterConstants, SMT DEF IInv, token_scale
  <2> QED BY <2>2, <2>3 DEF P!EmptyOnlyWhenExhausted, Exhausted, P!Capacity, capacity
<1> QED BY <1>1, <1>2, Implements, Inductive, PTL DEF Spec, DeniedOnlyWhenExhausted
=============================================================================
