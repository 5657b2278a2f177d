---------------------------- MODULE ApiPipeline ----------------------------
(***************************************************************************)
(* The way of a request of /api/v1 to its handler: under the deadline of   *)
(* the Timeout middleware it passes the limiters of server/http.go in      *)
(* their order, then, for GET /me, the Auth middleware and the limiter of  *)
(* the user.  A limiter charges the bucket of its key; the buckets are the *)
(* ideal ones of TokenBucket.  Requests are concurrent; a call of a redis  *)
(* limiter may fail before or after it has charged the bucket, or charge   *)
(* it several times, because the client of redis sends a command whose     *)
(* answer is lost again; a handler may be slow for as long as it likes.    *)
(***************************************************************************)
EXTENDS Naturals, FiniteSetsExt

CONSTANTS
  Requests, Clients, Users, NoClient, NoUser,
  Backend,       \* "redis" or "local": what selectRateLimitPolicies selects
  Rate, Burst,   \* policy -> its constants
  Unit,          \* the parts of a token
  MaxTime,       \* bound: the clock stops here
  MaxRequests    \* bound: how many requests arrive

Policies == {"global", "ip", "auth_ip", "user"}
Routes   == {"auth", "me"}         \* the three of /auth, and GET /me

ASSUME PipelineConstants ==
  /\ IsFiniteSet(Requests)
  /\ Backend \in {"redis", "local"}
  /\ Rate \in [Policies -> Nat] /\ Burst \in [Policies -> Nat \ {0}]
  /\ Unit \in Nat \ {0} /\ MaxTime \in Nat /\ MaxRequests \in Nat
  /\ NoClient \notin Clients /\ NoUser \notin Users

VARIABLES
  now,
  failOpen,      \* cfg.Redis.RateLimitFailOpen
  level,         \* key -> the parts in its bucket
  req,           \* the requests
  arrived,       \* how many requests have arrived
  charged,       \* key -> how many tokens were taken (history)
  payers,        \* key -> how many requests they were taken of (history)
  total,         \* policy -> how many requests its buckets were charged for (history)
  served         \* key -> how many requests of the key reached a handler (history)

buckets == <<level, charged, payers, total>>
vars == <<now, failOpen, buckets, req, arrived, served>>

Keys == {<<"global", "operation-api">>} \cup ({"ip", "auth_ip"} \X Clients)
        \cup ({"user"} \X Users)

Request == [
  pc     : Policies \cup {"idle", "auth", "handler", "done"},
  route  : Routes,
  client : Clients \cup {NoClient},
  user   : Users \cup {NoUser},                         \* the principal
  paid   : BOOLEAN,                  \* its limiter has charged it, and not answered yet
  status : {"none", "ok", "401", "429", "503", "504"},  \* what was sent
  by     : Policies \cup {"none"}]                      \* the limiter that refused it

Idle == [pc |-> "idle", route |-> "auth", client |-> NoClient, user |-> NoUser,
         paid |-> FALSE, status |-> "none", by |-> "none"]

Capacity(k) == Burst[k[1]] * Unit

-----------------------------------------------------------------------------
(* The key functions                                                       *)

KeyOf(p, r) ==
  CASE p = "global"          -> <<"global", "operation-api">>
    [] p \in {"ip", "auth_ip"} -> <<p, req[r].client>>
    [] p = "user"            -> <<"user", req[r].user>>

\* Those of a request that has reached its handler.
KeysOf(r) ==
  {KeyOf(p, r) : p \in IF req[r].route = "me" THEN Policies ELSE Policies \ {"user"}}

-----------------------------------------------------------------------------
(* The chain                                                               *)

\* Mutant: the two limiters of an address swapped.
AuthIPFirst(p, route) ==
  CASE p = "global"  -> "auth_ip"
    [] p = "auth_ip" -> "ip"
    [] p = "ip"      -> IF route = "me" THEN "auth" ELSE "handler"
    [] p = "auth"    -> "user"
    [] p = "user"    -> "handler"
After(p, route) ==
  CASE p = "global"  -> "ip"
    [] p = "ip"      -> "auth_ip"
    [] p = "auth_ip" -> IF route = "me" THEN "auth" ELSE "handler"
    [] p = "auth"    -> "user"
    [] p = "user"    -> "handler"

\* c.Next().
Pass(r) == req' = [req EXCEPT ![r].pc = After(req[r].pc, req[r].route), ![r].paid = FALSE]

\* Nothing is sent after the 504 of the Timeout middleware.
Send(r, code) == IF req[r].status = "none" THEN code ELSE req[r].status

\* c.AbortWithStatusJSON of a middleware, c.JSON of a handler.
Finish(r, code) ==
  req' = [req EXCEPT ![r].pc = "done", ![r].paid = FALSE, ![r].status = Send(r, code),
                     ![r].by = IF req[r].pc \in Policies THEN req[r].pc ELSE "none"]

\* The requests a bucket has charged: a second token of one call is not a second request.
Account(r, k) ==
  LET n == IF req[r].paid THEN 0 ELSE 1 IN
  /\ payers' = [payers EXCEPT ![k] = payers[k] + n]
  /\ total' = [total EXCEPT ![k[1]] = total[k[1]] + n]

\* Mutant: the bucket may run into debt.
ChargeOnCredit(r, k) ==
  /\ level' = [level EXCEPT ![k] = level[k] - Unit]
  /\ charged' = [charged EXCEPT ![k] = charged[k] + 1]
  /\ Account(r, k)
Charge(r, k) ==
  /\ level[k] >= Unit
  /\ level' = [level EXCEPT ![k] = level[k] - Unit]
  /\ charged' = [charged EXCEPT ![k] = charged[k] + 1]
  /\ Account(r, k)

\* Mutant: the 503 is written, the chain goes on.
FailedGoesOn(r) == Pass(r)
\* Mutant: the limiters are not wrapped.
FailedUnwrapped(r) == Finish(r, "503")
\* What KeyedRateLimit does with the error of a limiter, which WithFailOpen
\* turns into an answer.
Failed(r) == IF failOpen THEN Pass(r) ELSE Finish(r, "503")

\* A call that is under way when the 504 is sent may still get its answer; one
\* that starts later finds the context of the request done, and fails.
KeyedRateLimit(r, p) ==
  LET k == KeyOf(p, r) IN
  /\ req[r].pc = p
  /\ \/ Charge(r, k) /\ Pass(r)
     \/ level[k] < Unit /\ Finish(r, "429") /\ UNCHANGED buckets
     \/ Backend = "redis" /\ Failed(r) /\ (Charge(r, k) \/ UNCHANGED buckets)
  /\ UNCHANGED <<now, failOpen, arrived, served>>

\* The script has taken a token, its answer is lost, and the client of redis
\* sends it again.  (That it gives up after MaxRetries is in RedisTokenBucket;
\* how often it charges is left open here.)
SendAgain(r, p) ==
  /\ Backend = "redis"
  /\ req[r].pc = p
  /\ Charge(r, KeyOf(p, r))
  /\ req' = [req EXCEPT ![r].paid = TRUE]
  /\ UNCHANGED <<now, failOpen, arrived, served>>

Arrive(r, route, c) ==
  /\ req[r].pc = "idle"
  /\ arrived < MaxRequests
  /\ arrived' = arrived + 1
  /\ req' = [req EXCEPT ![r].pc = "global", ![r].route = route, ![r].client = c]
  /\ UNCHANGED <<now, failOpen, buckets, served>>

\* The access token of the request is that of a user, or it is refused.
Auth(r) ==
  /\ req[r].pc = "auth"
  /\ \/ \E u \in Users : req' = [req EXCEPT ![r].pc = After("auth", "me"), ![r].user = u]
     \/ Finish(r, "401")
  /\ UNCHANGED <<now, failOpen, buckets, arrived, served>>

Handle(r) ==
  /\ req[r].pc = "handler"
  /\ served' = [k \in Keys |-> IF k \in KeysOf(r) THEN served[k] + 1 ELSE served[k]]
  /\ Finish(r, "ok")
  /\ UNCHANGED <<now, failOpen, buckets, arrived>>

\* The deadline passes: 504 is sent at once, the chain runs on unheard.
Timeout(r) ==
  /\ req[r].pc \notin {"idle", "done"}
  /\ req[r].status = "none"
  /\ req' = [req EXCEPT ![r].status = "504"]
  /\ UNCHANGED <<now, failOpen, buckets, arrived, served>>

Return(r) ==
  /\ req[r].pc = "done"
  /\ req' = [req EXCEPT ![r] = Idle]
  /\ UNCHANGED <<now, failOpen, buckets, arrived, served>>

Tick ==
  /\ now < MaxTime
  /\ now' = now + 1
  /\ level' = [k \in Keys |-> Min({Capacity(k), level[k] + Rate[k[1]]})]
  /\ UNCHANGED <<failOpen, req, arrived, charged, payers, total, served>>

Init ==
  /\ now = 0
  /\ failOpen \in BOOLEAN
  /\ level = [k \in Keys |-> Capacity(k)]
  /\ req = [r \in Requests |-> Idle]
  /\ arrived = 0
  /\ charged = [k \in Keys |-> 0]
  /\ payers = [k \in Keys |-> 0]
  /\ total = [p \in Policies |-> 0]
  /\ served = [k \in Keys |-> 0]

\* All requests of the bound are answered: the server waits.
Rest ==
  /\ arrived = MaxRequests
  /\ \A r \in Requests : req[r].pc = "idle"
  /\ UNCHANGED vars

Next ==
  \/ Tick \/ Rest
  \/ \E r \in Requests :
       \/ \E route \in Routes, c \in Clients : Arrive(r, route, c)
       \/ \E p \in Policies : KeyedRateLimit(r, p) \/ SendAgain(r, p)
       \/ Auth(r) \/ Handle(r) \/ Timeout(r) \/ Return(r)

Spec == Init /\ [][Next]_vars

-----------------------------------------------------------------------------
(* Properties                                                              *)

(***************************************************************************)
(* Every variable has its type.                                            *)
(***************************************************************************)
TypeOK ==
  /\ now \in 0 .. MaxTime /\ failOpen \in BOOLEAN
  /\ level \in [Keys -> Nat] /\ \A k \in Keys : level[k] <= Capacity(k)
  /\ req \in [Requests -> Request]
  /\ arrived \in 0 .. MaxRequests
  /\ charged \in [Keys -> Nat]
  /\ payers \in [Keys -> Nat]
  /\ total \in [Policies -> Nat]
  /\ served \in [Keys -> Nat]

(***************************************************************************)
(* Fail-closed: no more requests of an address or a user reach a handler   *)
(* than the buckets of all their policies have paid for, whichever calls   *)
(* of a limiter fail and however late the chain goes on (the comment of    *)
(* KeyedRateLimit: a limit is never silently bypassed).                    *)
(***************************************************************************)
NeverBypassed ==
  ~failOpen => \A k \in Keys :
    /\ served[k] <= charged[k]
    /\ served[k] * Unit <= Capacity(k) + Rate[k[1]] * now

(***************************************************************************)
(* Fail-closed: a request that an outer limiter refuses is not held        *)
(* against the client or the user by an inner one.  Of each address no     *)
(* more requests are charged to auth_ip than to ip, and in all no more to  *)
(* user than to auth_ip and to ip than to global, however often a limiter  *)
(* charges one request, and whether its last word is a token or a failure. *)
(***************************************************************************)
InnerChargesFollowOuter ==
  ~failOpen =>
    /\ \A c \in Clients : payers[<<"auth_ip", c>>] <= payers[<<"ip", c>>]
    /\ total["user"] <= total["auth_ip"] /\ total["ip"] <= total["global"]

(***************************************************************************)
(* Fail-open: no failure of redis turns a request away.                    *)
(***************************************************************************)
FailOpenStaysAvailable ==
  failOpen => \A r \in Requests : req[r].status # "503"

(***************************************************************************)
(* The comment of AuthEndpointIPKey: the limiter is for the authentication *)
(* endpoints (login, register, refresh).  It turns no other request away.  *)
(***************************************************************************)
AuthIPLimitsAuthEndpoints ==
  \A r \in Requests : req[r].by = "auth_ip" => req[r].route = "auth"
=============================================================================
