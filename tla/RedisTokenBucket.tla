-------------------------- MODULE RedisTokenBucket --------------------------
(***************************************************************************)
(* RedisTokenBucketRateLimiter: a token bucket kept in a redis hash, which *)
(* a Lua script refills by the time since it was last written and which    *)
(* redis drops when it has been idle for long enough.  Several pods call   *)
(* Allow; a call whose answer is lost is sent again, so that a script may  *)
(* run more than once for one call, or run for a call that fails.          *)
(*                                                                         *)
(* Every number of the script is a multiple of 1000 micro-tokens, what one *)
(* token per second yields in a millisecond: it is the unit here, and      *)
(* token_scale is the number of milliseconds in a second.                  *)
(***************************************************************************)
EXTENDS Naturals

CONSTANTS
  Keys,              \* what the key functions of the policies select
  Calls,             \* the calls of Allow that may be under way at a time
  RatePerSecond, Burst,
  MSPerSecond,       \* 1000
  MinimumIdleTTL,    \* minimumIdleTTLMS
  MaxExact,          \* maxLuaSafeInteger, 2^53 - 1: Lua's numbers are exact up to it
  MaxRetries,        \* how often the client sends a command again
  MaxTime,           \* bound: the clock of the server stops here
  NoHash, NoKey

ASSUME LimiterConstants ==
  /\ RatePerSecond \in Nat \ {0}
  /\ Burst \in Nat \ {0}
  /\ MSPerSecond \in Nat \ {0}
  /\ MinimumIdleTTL \in Nat
  /\ MaxRetries \in Nat
  /\ MaxTime \in Nat
  /\ NoKey \notin Keys

\* What the constructor asks of the rate and the burst; it panics otherwise.
ASSUME SafeInLua ==
  /\ MaxExact \in Nat
  /\ RatePerSecond * MSPerSecond <= MaxExact
  /\ Burst * MSPerSecond <= MaxExact

VARIABLES
  now_ms,        \* the TIME of the redis server
  hash,          \* key -> what redis holds under it
  call,          \* the calls of Allow
  taken          \* key -> time -> the tokens taken at or after that time (history)

vars == <<now_ms, hash, call, taken>>

Answers == {"none", "allowed", "denied", "error"}

Call == [key    : Keys \cup {NoKey},
         sends  : 0 .. MaxRetries + 1,      \* how often it may still be sent
         answer : Answers]

NoCall == [key |-> NoKey, sends |-> 0, answer |-> "none"]

-----------------------------------------------------------------------------
(* The constructor                                                         *)

CeilDiv(a, b) == (a + b - 1) \div b

tokenBucketFillMilliseconds ==
  LET wholeSeconds == Burst \div RatePerSecond
      remainder    == Burst % RatePerSecond IN
  wholeSeconds * MSPerSecond + CeilDiv(remainder * MSPerSecond, RatePerSecond)

\* Mutant: half the time of a fill in place of twice.
HalvedIdleTTL == tokenBucketFillMilliseconds \div 2
IdleTTL ==
  IF tokenBucketFillMilliseconds * 2 < MinimumIdleTTL
  THEN MinimumIdleTTL ELSE tokenBucketFillMilliseconds * 2

-----------------------------------------------------------------------------
(* The script                                                              *)

token_scale == MSPerSecond
capacity == Burst * token_scale

Hash == [tokens : 0 .. capacity, last_ms : 0 .. MaxTime, expires : Nat]

ASSUME NoHashIsNoHash == NoHash \notin Hash

\* Mutant: truncated, so that a bucket is full too early.
TruncatedFill == (Burst * MSPerSecond) \div RatePerSecond
fill_ms == CeilDiv(Burst * MSPerSecond, RatePerSecond)

elapsed_ms(h) == IF now_ms > h.last_ms THEN now_ms - h.last_ms ELSE 0

\* Mutant: the refill is always computed.
NeverFullByTime(h) == FALSE
\* The bucket has been left alone for long enough to be full.
FullByTime(h) == elapsed_ms(h) >= fill_ms

refill(h) == elapsed_ms(h) * RatePerSecond

\* Mutant: the refill is added without a look at the capacity.
TokensUncapped(h) == IF h = NoHash THEN capacity ELSE h.tokens + refill(h)
\* The tokens in a bucket when a script looks at it.
Tokens(h) ==
  IF \/ h = NoHash
     \/ FullByTime(h)
     \/ refill(h) >= capacity - h.tokens
  THEN capacity
  ELSE h.tokens + refill(h)

\* The numbers a script computes on its way to them: the refill, and what it is
\* compared with, only when FullByTime has not decided.
Numbers(h) ==
  {capacity, Tokens(h)} \cup
    (IF h = NoHash \/ FullByTime(h) THEN {} ELSE {refill(h), capacity - h.tokens})

\* Mutant: a denied call advances the clock of the bucket, not its tokens.
WriteForgetsRefill(k) ==
  LET tokens == Tokens(hash[k]) IN
  IF tokens >= token_scale
  THEN hash' = [hash EXCEPT ![k] = [tokens |-> tokens - token_scale, last_ms |-> now_ms,
                                    expires |-> now_ms + IdleTTL]]
  ELSE hash' = [hash EXCEPT ![k].last_ms = now_ms, ![k].expires = now_ms + IdleTTL]
Write(k) ==
  LET tokens == Tokens(hash[k]) IN
  hash' = [hash EXCEPT ![k] =
             [tokens  |-> IF tokens >= token_scale THEN tokens - token_scale ELSE tokens,
              last_ms |-> now_ms,
              expires |-> now_ms + IdleTTL]]

allowed(k) == Tokens(hash[k]) >= token_scale

RunScript(k) ==
  /\ Write(k)
  /\ taken' = IF allowed(k)
              THEN [taken EXCEPT ![k] = [s \in 0 .. MaxTime |->
                      IF s <= now_ms THEN taken[k][s] + 1 ELSE taken[k][s]]]
              ELSE taken

-----------------------------------------------------------------------------
(* Allow                                                                   *)

Waiting(c) == call[c].key \in Keys /\ call[c].answer = "none"

Start(c, k) ==
  /\ call[c] = NoCall
  /\ call' = [call EXCEPT ![c] = [key |-> k, sends |-> MaxRetries + 1, answer |-> "none"]]
  /\ UNCHANGED <<now_ms, hash, taken>>

\* The script runs and its result reaches the caller.
Answered(c) ==
  /\ Waiting(c)
  /\ RunScript(call[c].key)
  /\ call' = [call EXCEPT ![c].answer = IF allowed(call[c].key) THEN "allowed" ELSE "denied"]
  /\ UNCHANGED now_ms

\* The client sends the command again, or gives up.
SendAgain(c) ==
  call' = [call EXCEPT ![c].sends = call[c].sends - 1,
                       ![c].answer = IF call[c].sends = 1 THEN "error" ELSE "none"]

\* The script runs, its result is lost.
Lost(c) ==
  /\ Waiting(c)
  /\ RunScript(call[c].key)
  /\ SendAgain(c)
  /\ UNCHANGED now_ms

\* The command does not reach the server.
Unsent(c) ==
  /\ Waiting(c)
  /\ SendAgain(c)
  /\ UNCHANGED <<now_ms, hash, taken>>

\* The context of the request is done: Eval returns its error.
Cancelled(c) ==
  /\ Waiting(c)
  /\ call' = [call EXCEPT ![c].answer = "error"]
  /\ UNCHANGED <<now_ms, hash, taken>>

Return(c) ==
  /\ call[c].answer # "none"
  /\ call' = [call EXCEPT ![c] = NoCall]
  /\ UNCHANGED <<now_ms, hash, taken>>

\* Redis drops a key whose PEXPIRE has passed.
Expire(k) ==
  /\ hash[k] # NoHash
  /\ now_ms >= hash[k].expires
  /\ hash' = [hash EXCEPT ![k] = NoHash]
  /\ UNCHANGED <<now_ms, call, taken>>

Tick ==
  /\ now_ms < MaxTime
  /\ now_ms' = now_ms + 1
  /\ UNCHANGED <<hash, call, taken>>

Init ==
  /\ now_ms = 0
  /\ hash = [k \in Keys |-> NoHash]
  /\ call = [c \in Calls |-> NoCall]
  /\ taken = [k \in Keys |-> [s \in 0 .. MaxTime |-> 0]]

Next ==
  \/ \E c \in Calls :
       \/ \E k \in Keys : Start(c, k)
       \/ Answered(c) \/ Lost(c) \/ Unsent(c) \/ Cancelled(c) \/ Return(c)
  \/ \E k \in Keys : Expire(k)
  \/ Tick

Spec == Init /\ [][Next]_vars

-----------------------------------------------------------------------------
(* Properties                                                              *)

(***************************************************************************)
(* Every variable has its type: no bucket ever holds more than its         *)
(* capacity, or a last_ms the server has not reached.                      *)
(***************************************************************************)
TypeOK ==
  /\ now_ms \in 0 .. MaxTime
  /\ hash \in [Keys -> Hash \cup {NoHash}]
  /\ call \in [Calls -> Call]
  /\ taken \in [Keys -> [0 .. MaxTime -> Nat]]

(***************************************************************************)
(* The distributed limit: whatever pods call, however often the script is  *)
(* run again and whenever redis forgets a bucket, no window of time sees   *)
(* more than the burst and what the rate yields in that window.            *)
(***************************************************************************)
WithinRate ==
  \A k \in Keys : \A s \in 0 .. now_ms :
    taken[k][s] * token_scale <= capacity + RatePerSecond * (now_ms - s)

(***************************************************************************)
(* A call is denied only when one token more would break the limit in some *)
(* window: callers that keep trying do not lose what the bucket gains.     *)
(***************************************************************************)
Denied(c) == call[c].answer # "denied" /\ call'[c].answer = "denied"
Exhausted(k) ==
  \E s \in 0 .. now_ms :
    (taken[k][s] + 1) * token_scale > capacity + RatePerSecond * (now_ms - s)
DeniedOnlyWhenExhausted ==
  [][\A c \in Calls : Denied(c) => Exhausted(call[c].key)]_vars

(***************************************************************************)
(* No script computes a number that Lua cannot represent: a bucket may be  *)
(* left alone for any time (its key lives for twice the fill time, and     *)
(* redis may drop it later still), but the product of that time and the    *)
(* rate is computed only while it is known to stay below the capacity,     *)
(* which the constructor has checked.                                      *)
(***************************************************************************)
NumbersStayExact == \A k \in Keys : \A n \in Numbers(hash[k]) : n <= MaxExact

(***************************************************************************)
(* The hash, its refill on demand and its expiry are an ideal bucket that  *)
(* is refilled at every instant.                                           *)
(***************************************************************************)
B == INSTANCE TokenBucket WITH
       now <- now_ms, level <- [k \in Keys |-> Tokens(hash[k])],
       Rate <- RatePerSecond, Unit <- token_scale
ImplementsTokenBucket == B!BucketSpec

-----------------------------------------------------------------------------
(* The inductive invariant                                                 *)

\* A hash lives for the idle TTL after the last script that wrote it.
HashOK(k) ==
  hash[k] # NoHash => /\ hash[k].last_ms <= now_ms
                      /\ hash[k].expires = hash[k].last_ms + IdleTTL

IInv ==
  /\ TypeOK
  /\ \A k \in Keys : HashOK(k)
  /\ \A c \in Calls : Waiting(c) => call[c].sends > 0
=============================================================================
