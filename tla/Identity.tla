------------------------------ MODULE Identity ------------------------------
(***************************************************************************)
(* The identity service of the operation API: the use cases Register,      *)
(* Login, Refresh and Me of biz/identity/usecase.go, over the user and     *)
(* refresh-token stores that bootstrap/app.go may select.  Requests run    *)
(* concurrently; every call of a store is one atomic step, as it is in the *)
(* code (a mutex, a Lua script, a transaction), and everything else may    *)
(* happen between two calls: other requests, the cancellation of the       *)
(* request's context, time, a crash.                                       *)
(***************************************************************************)
EXTENDS Naturals, FiniteSets

CONSTANTS
  Wiring,        \* "memory", "redis" or "postgres": which stores are selected
  Requests,      \* the requests a server works on at a time
  Users,         \* user ids, drawn at random by pkg/idgen
  Emails,        \* normalised e-mail addresses
  Tokens,        \* refresh tokens, told apart by their random jti
  NoUser, NoEmail, NoToken,
  RefreshTTL,    \* lifetime of a refresh token, in whole seconds
  AccessTTL,     \* lifetime of an access token, in whole seconds
  MaxTime,       \* bound: the clock stops here
  Stalls         \* may a server stall past the deadline of a rollback?

ASSUME ConstantsOK ==
  /\ Wiring \in {"memory", "redis", "postgres"}
  /\ NoUser \notin Users
  /\ NoEmail \notin Emails
  /\ NoToken \notin Tokens
  /\ RefreshTTL \in Nat \ {0}
  /\ AccessTTL \in Nat \ {0}
  /\ MaxTime \in Nat
  /\ Stalls \in BOOLEAN

VARIABLES
  now,           \* the clock; a tick is the second a JWT's exp is truncated to
  req,           \* the requests being served, see Request
  \* the stores
  byID,          \* the users: id -> e-mail
  byEmail,       \* the unique index: e-mail -> id
  stored,        \* the tokens in the refresh-token store
  \* what the signature of a pair fixes
  owner,         \* token -> user id, NoUser while the token is not signed
  iat,           \* token -> when its pair was signed
  family,        \* token -> the first token of its session (history)
  \* the world outside
  delivered,     \* pairs that clients have received
  spent          \* tokens that have left the store (history)

userVars  == <<byID, byEmail>>
tokenVars == <<stored, spent>>
jwtVars   == <<owner, iat, family>>
vars == <<now, req, userVars, tokenVars, jwtVars, delivered>>

Calls    == {"idle", "issue", "create", "unit", "save", "rollback",
             "find", "lookup", "rotate", "profile", "respond"}
Ops      == {"none", "register", "login", "refresh", "me"}
Outcomes == {"none", "ok", "invalid", "taken", "notfound", "error", "joined"}

Request == [
  pc        : Calls,                     \* the call it makes next
  op        : Ops,                       \* which of the four handlers runs
  ctx       : {"live", "done"},          \* its context: done when cancelled
  email     : Emails \cup {NoEmail},     \* the address given to Register or Login
  presented : Tokens \cup {NoToken},     \* the token given to Refresh, the pair given to Me
  uid       : Users \cup {NoUser},       \* the user the handler works for
  cand      : Tokens \cup {NoToken},     \* the pair generated for it
  res       : Outcomes ]                 \* what it is about to answer

Idle == [pc |-> "idle", op |-> "none", ctx |-> "live", email |-> NoEmail,
         presented |-> NoToken, uid |-> NoUser, cand |-> NoToken, res |-> "none"]

-----------------------------------------------------------------------------
(* Helpers                                                                 *)

\* NewNumericDate(now.Add(ttl)), read in whole seconds.
RefreshExp(t) == iat[t] + RefreshTTL
AccessExp(t)  == iat[t] + AccessTTL

\* An id of 128 random bits has not been seen before.
FreshUser(u) == /\ \A t \in Tokens : owner[t] # u
                /\ \A r \in Requests : req[r].uid # u

\* Mutant: no jti, so pairs signed within a second can be the same token.
FreshTokenWithoutJti(t) == owner[t] = NoUser \/ iat[t] = now
FreshToken(t) == owner[t] = NoUser

\* ctx.Err() is nil.
Live(r) == req[r].ctx = "live"

\* A request makes its next call, or has an outcome to answer.
Goto(r, call)      == req' = [req EXCEPT ![r].pc = call]
Answer(r, outcome) == req' = [req EXCEPT ![r].pc = "respond", ![r].res = outcome]

-----------------------------------------------------------------------------
(* The handlers, up to their first call of a store                         *)

Register(r, e) ==
  /\ req[r].pc = "idle"
  /\ \/ \E u \in Users :
          /\ FreshUser(u)
          /\ req' = [req EXCEPT ![r].pc = "issue", ![r].op = "register",
                              ![r].email = e, ![r].uid = u]
     \/ req' = [req EXCEPT ![r].pc = "respond", ![r].op = "register",
                           ![r].email = e, ![r].res = "error"]  \* Hash or generateID fails
  /\ UNCHANGED <<now, userVars, tokenVars, jwtVars, delivered>>

Login(r, e) ==
  /\ req[r].pc = "idle"
  /\ req' = [req EXCEPT ![r].pc = "find", ![r].op = "login", ![r].email = e]
  /\ UNCHANGED <<now, userVars, tokenVars, jwtVars, delivered>>

\* The request carries a JWT: its user is the one the claims name, its
\* handler goes on only if the JWT has not expired.
WithToken(r, t, handler, exp, call) ==
  /\ req[r].pc = "idle"
  /\ \/ /\ now < exp
        /\ req' = [req EXCEPT ![r].pc = call, ![r].op = handler,
                             ![r].presented = t, ![r].uid = owner[t]]
     \/ /\ now >= exp
        /\ req' = [req EXCEPT ![r].pc = "respond", ![r].op = handler, ![r].res = "invalid",
                             ![r].presented = t, ![r].uid = owner[t]]
  /\ UNCHANGED <<now, userVars, tokenVars, jwtVars, delivered>>

Refresh(r, t) == WithToken(r, t, "refresh", RefreshExp(t), "lookup")

\* The Auth middleware verifies the access token of the pair.
Me(r, t) == WithToken(r, t, "me", AccessExp(t), "profile")

-----------------------------------------------------------------------------
(* generateTokenPair, shared by the three handlers that issue tokens       *)

AfterIssue(r) ==
  CASE req[r].op = "refresh" -> "rotate"
    [] req[r].op = "login"   -> "save"
    [] OTHER                 -> IF Wiring = "postgres" THEN "unit" ELSE "create"

\* The session the new token continues, or starts.
FamilyOf(r, t) == IF req[r].op = "refresh" THEN family[req[r].presented] ELSE t

GenerateTokenPair(r) ==
  /\ req[r].pc = "issue"
  /\ \/ \E t \in Tokens :
          /\ FreshToken(t)
          /\ owner' = [owner EXCEPT ![t] = req[r].uid]
          /\ iat' = [iat EXCEPT ![t] = now]
          /\ family' = [family EXCEPT ![t] = FamilyOf(r, t)]
          /\ req' = [req EXCEPT ![r].pc = AfterIssue(r), ![r].cand = t]
     \/ Answer(r, "error") /\ UNCHANGED jwtVars   \* the id or a signature fails
  /\ UNCHANGED <<now, userVars, tokenVars, delivered>>

-----------------------------------------------------------------------------
(* The user stores.  A call on a done context fails.  A call of a remote   *)
(* store may also fail without an effect, or have its effect and report a  *)
(* failure because its answer is lost.                                     *)

Remote == Wiring = "postgres"            \* the users are in memory otherwise

\* FindByEmail, and the comparison of the password.
FindByEmail(r) ==
  LET u == byEmail[req[r].email] IN
  /\ req[r].pc = "find"
  /\ \/ (~Live(r) \/ Remote) /\ Answer(r, "error")
     \/ Live(r) /\ Answer(r, "invalid")     \* no user, or not his password
     \/ /\ Live(r)
        /\ u # NoUser
        /\ req' = [req EXCEPT ![r].pc = "issue", ![r].uid = u]
  /\ UNCHANGED <<now, userVars, tokenVars, jwtVars, delivered>>

\* FindByID, for Refresh.
FindByID(r) ==
  LET found == byID[req[r].uid] # NoEmail IN
  /\ req[r].pc = "lookup"
  /\ \/ (~Live(r) \/ Remote) /\ Answer(r, "error")
     \/ Live(r) /\ ~found /\ Answer(r, "invalid")
     \/ Live(r) /\ found /\ Goto(r, "issue")
  /\ UNCHANGED <<now, userVars, tokenVars, jwtVars, delivered>>

\* FindByID, for Me: the same call, another answer when the user is gone.
FindProfile(r) ==
  LET found == byID[req[r].uid] # NoEmail IN
  /\ req[r].pc = "profile"
  /\ \/ (~Live(r) \/ Remote) /\ Answer(r, "error")
     \/ Live(r) /\ Answer(r, IF found THEN "ok" ELSE "notfound")
  /\ UNCHANGED <<now, userVars, tokenVars, jwtVars, delivered>>

Taken(r) == byEmail[req[r].email] # NoUser

\* Mutant: the two strings of the index swapped.
InsertUserSwapped(r) == /\ byID' = [byID EXCEPT ![req[r].uid] = req[r].email]
                        /\ byEmail' = [byEmail EXCEPT ![req[r].email] = req[r].email]
InsertUser(r) == /\ byID' = [byID EXCEPT ![req[r].uid] = req[r].email]
                 /\ byEmail' = [byEmail EXCEPT ![req[r].email] = req[r].uid]

MemoryCreate(r) ==
  /\ req[r].pc = "create"
  /\ \/ ~Live(r) /\ Answer(r, "error") /\ UNCHANGED userVars
     \/ Live(r) /\ Taken(r) /\ Answer(r, "taken") /\ UNCHANGED userVars
     \/ Live(r) /\ ~Taken(r) /\ InsertUser(r) /\ Goto(r, "save")
  /\ UNCHANGED <<now, tokenVars, jwtVars, delivered>>

\* Mutant: the index keeps the address of the deleted user.
DeleteUserKeepsEmail(u) == /\ byID' = [byID EXCEPT ![u] = NoEmail]
                           /\ UNCHANGED byEmail
DeleteUser(u) ==
  /\ byID' = [byID EXCEPT ![u] = NoEmail]
  /\ byEmail' = [e \in Emails |-> IF e = byID[u] THEN NoUser ELSE byEmail[e]]

\* Register rolls back on a context that outlives the request's, for 5 seconds.
\* Mutant: it rolls back on the context of the request.
RollbackOnRequestContext(r) == Stalls \/ ~Live(r)
RollbackMayFail(r) == Stalls

MemoryDelete(r) ==
  /\ req[r].pc = "rollback"
  /\ \/ DeleteUser(req[r].uid) /\ Answer(r, "error")
     \/ RollbackMayFail(r) /\ Answer(r, "joined") /\ UNCHANGED userVars
  /\ UNCHANGED <<now, tokenVars, jwtVars, delivered>>

\* Mutant: without a transaction a failure can leave the user without a token.
RegisterWithoutTransaction(r) ==
  /\ req[r].pc = "unit"
  /\ Live(r) /\ ~Taken(r)
  /\ InsertUser(r)
  /\ \/ Answer(r, "ok") /\ stored' = stored \cup {req[r].cand}
     \/ Answer(r, "error") /\ UNCHANGED stored
  /\ UNCHANGED <<now, spent, jwtVars, delivered>>

\* One transaction; when only the answer of its COMMIT is lost it is an error
\* with the effect.
PostgresCreateUserWithRefreshToken(r) ==
  /\ req[r].pc = "unit"
  /\ \/ Answer(r, "error") /\ UNCHANGED <<userVars, stored>>
     \/ /\ Live(r)
        /\ Taken(r)
        /\ Answer(r, "taken")
        /\ UNCHANGED <<userVars, stored>>
     \/ /\ Live(r)
        /\ ~Taken(r)
        /\ InsertUser(r)
        /\ stored' = stored \cup {req[r].cand}
        /\ \E outcome \in {"ok", "error"} : Answer(r, outcome)
  /\ UNCHANGED <<now, spent, jwtVars, delivered>>

-----------------------------------------------------------------------------
(* The refresh-token stores: Save                                          *)

\* Mutant: Register does not undo the creation.
SaveFailedWithoutRollback(r) == Answer(r, "error")
\* Register undoes the creation of the user; Login only reports.
SaveFailed(r) ==
  IF req[r].op = "register" THEN Goto(r, "rollback") ELSE Answer(r, "error")

\* Mutant: the context is looked at when the token is in the map already.
MemorySaveBeforeContext(r) ==
  /\ Wiring = "memory"
  /\ req[r].pc = "save"
  /\ stored' = stored \cup {req[r].cand}
  /\ IF ~Live(r) THEN SaveFailed(r) ELSE Answer(r, "ok")
  /\ UNCHANGED <<now, userVars, spent, jwtVars, delivered>>

MemorySave(r) ==
  /\ Wiring = "memory"
  /\ req[r].pc = "save"
  /\ \/ ~Live(r) /\ SaveFailed(r) /\ UNCHANGED stored
     \/ /\ Live(r)
        /\ stored' = stored \cup {req[r].cand}
        /\ Answer(r, "ok")
  /\ UNCHANGED <<now, userVars, spent, jwtVars, delivered>>

RedisSave(r) ==
  /\ Wiring = "redis"
  /\ req[r].pc = "save"
  /\ \/ SaveFailed(r) /\ UNCHANGED stored
     \/ /\ Live(r)
        /\ now < RefreshExp(req[r].cand)          \* else ErrTokenAlreadyExpired
        /\ stored' = stored \cup {req[r].cand}
        /\ Answer(r, "ok") \/ SaveFailed(r)
  /\ UNCHANGED <<now, userVars, spent, jwtVars, delivered>>

PostgresSave(r) ==
  /\ Wiring = "postgres"
  /\ req[r].pc = "save"
  /\ \/ Answer(r, "error") /\ UNCHANGED stored
     \/ /\ Live(r)
        /\ byID[req[r].uid] # NoEmail             \* the foreign key
        /\ stored' = stored \cup {req[r].cand}
        /\ \E outcome \in {"ok", "error"} : Answer(r, outcome)
  /\ UNCHANGED <<now, userVars, spent, jwtVars, delivered>>

-----------------------------------------------------------------------------
(* The refresh-token stores: Rotate                                        *)

\* Mutants: the presented token stays; the candidate is not entered.
SwapKeepsOld(r) == /\ stored' = stored \cup {req[r].cand}
                   /\ UNCHANGED spent
SwapDropsNew(r) == /\ stored' = stored \ {req[r].presented}
                   /\ spent' = spent \cup {req[r].presented}
\* The presented token leaves the store, the candidate enters it.
Swap(r) == /\ stored' = (stored \ {req[r].presented}) \cup {req[r].cand}
           /\ spent' = spent \cup {req[r].presented}

\* The store has the presented token, under the user of its claims.
Held(r) == req[r].presented \in stored /\ owner[req[r].presented] = req[r].uid

\* Mutant: the store trusts the verification of the JWT.
ExpiryUnchecked(r) == TRUE
\* The store in memory looks at the clock when it rotates.
Unexpired(r) == now < RefreshExp(req[r].presented)

\* Mutant: the presented token is taken out before the context is looked at.
MemoryRotateBeforeContext(r) ==
  /\ Wiring = "memory"
  /\ req[r].pc = "rotate"
  /\ IF Held(r) THEN /\ stored' = stored \ {req[r].presented}
                     /\ spent' = spent \cup {req[r].presented}
                ELSE UNCHANGED tokenVars
  /\ Answer(r, "error")
  /\ UNCHANGED <<now, userVars, jwtVars, delivered>>

MemoryRotate(r) ==
  /\ Wiring = "memory"
  /\ req[r].pc = "rotate"
  /\ \/ ~Live(r) /\ Answer(r, "error") /\ UNCHANGED tokenVars
     \/ Live(r) /\ ~Held(r) /\ Answer(r, "invalid") /\ UNCHANGED tokenVars
     \/ /\ Live(r) /\ Held(r) /\ ~Unexpired(r)
        /\ stored' = stored \ {req[r].presented}
        /\ spent' = spent \cup {req[r].presented}
        /\ Answer(r, "invalid")
     \/ Live(r) /\ Held(r) /\ Unexpired(r) /\ Swap(r) /\ Answer(r, "ok")
  /\ UNCHANGED <<now, userVars, jwtVars, delivered>>

\* One script.  The client re-sends an EVAL whose answer it did not get: the
\* second run finds the token gone and answers 0, so the request is refused
\* although its exchange has happened.
RedisRotate(r) ==
  /\ Wiring = "redis"
  /\ req[r].pc = "rotate"
  /\ \/ Answer(r, "error") /\ UNCHANGED tokenVars
     \/ Live(r) /\ ~Held(r) /\ Answer(r, "invalid") /\ UNCHANGED tokenVars
     \/ /\ Live(r) /\ Held(r)
        /\ now < RefreshExp(req[r].cand)          \* else ErrTokenAlreadyExpired
        /\ Swap(r)
        /\ \E outcome \in {"ok", "error", "invalid"} : Answer(r, outcome)
  /\ UNCHANGED <<now, userVars, jwtVars, delivered>>

\* The rows the DELETE of a transaction finds: its expires_at > now() compares
\* with the time the transaction began.
Matches(r, began) == Held(r) /\ began < RefreshExp(req[r].presented)

\* One transaction: BEGIN, DELETE, INSERT, COMMIT.  The step is its COMMIT; it
\* began at some time since the pair was signed, and the token may have expired
\* meanwhile.  That its statements may be taken for one step, and what the wait
\* for a lock does to the comparison, is what PostgresStore is about.
PostgresRotate(r) ==
  /\ Wiring = "postgres"
  /\ req[r].pc = "rotate"
  /\ \/ Answer(r, "error") /\ UNCHANGED tokenVars
     \/ \E began \in iat[req[r].cand] .. now :
          /\ Live(r)
          /\ \/ /\ ~Matches(r, began)
                /\ Answer(r, "invalid")
                /\ UNCHANGED tokenVars
             \/ /\ Matches(r, began)
                /\ Swap(r)
                /\ \E outcome \in {"ok", "error"} : Answer(r, outcome)
  /\ UNCHANGED <<now, userVars, jwtVars, delivered>>

\* A key set with PX lives until its token's exp, and no longer than it takes
\* redis to notice.
RedisExpire(t) ==
  /\ Wiring = "redis"
  /\ t \in stored
  /\ now >= RefreshExp(t)
  /\ stored' = stored \ {t}
  /\ spent' = spent \cup {t}
  /\ UNCHANGED <<now, req, userVars, jwtVars, delivered>>

-----------------------------------------------------------------------------
(* The end of a request, and what happens around the handlers              *)

\* The handler writes its answer.  It reaches the client unless the client is
\* gone or has been sent the 504 already.
Respond(r) ==
  /\ req[r].pc = "respond"
  /\ delivered' = IF req[r].res = "ok" /\ req[r].op # "me" /\ Live(r)
                  THEN delivered \cup {req[r].cand} ELSE delivered
  /\ req' = [req EXCEPT ![r] = Idle]
  /\ UNCHANGED <<now, userVars, tokenVars, jwtVars>>

\* The client leaves, or the Timeout middleware sends it 504 and cancels the
\* context; the handler goes on until it looks at the context.
Cancel(r) ==
  /\ req[r].pc # "idle"
  /\ req' = [req EXCEPT ![r].ctx = "done"]
  /\ UNCHANGED <<now, userVars, tokenVars, jwtVars, delivered>>

Tick ==
  /\ now < MaxTime
  /\ now' = now + 1
  /\ UNCHANGED <<req, userVars, tokenVars, jwtVars, delivered>>

\* A process stops and restarts: its requests die between two calls, and with
\* it what it keeps in memory.  With postgres the requests of D are those of
\* one of several processes; the other wirings have one process.
Crash(D) ==
  /\ Remote \/ D = Requests
  /\ req' = [r \in Requests |-> IF r \in D THEN Idle ELSE req[r]]
  /\ \/ Remote /\ UNCHANGED userVars
     \/ /\ ~Remote
        /\ byID' = [u \in Users |-> NoEmail]
        /\ byEmail' = [e \in Emails |-> NoUser]
  /\ \/ Wiring = "memory" /\ stored' = {} /\ spent' = spent \cup stored
     \/ Wiring # "memory" /\ UNCHANGED tokenVars
  /\ UNCHANGED <<now, jwtVars, delivered>>

-----------------------------------------------------------------------------
Init ==
  /\ now = 0
  /\ req = [r \in Requests |-> Idle]
  /\ byID = [u \in Users |-> NoEmail]
  /\ byEmail = [e \in Emails |-> NoUser]
  /\ stored = {}
  /\ owner = [t \in Tokens |-> NoUser]
  /\ iat = [t \in Tokens |-> 0]
  /\ family = [t \in Tokens |-> t]
  /\ delivered = {}
  /\ spent = {}

\* A client presents what it was given; anything else fails its verification.
Arrive(r) ==
  \/ \E e \in Emails : Register(r, e) \/ Login(r, e)
  \/ \E t \in delivered : Refresh(r, t) \/ Me(r, t)

Handle(r) ==
  \/ GenerateTokenPair(r)
  \/ FindByEmail(r) \/ FindByID(r) \/ FindProfile(r)
  \/ MemoryCreate(r) \/ MemoryDelete(r) \/ PostgresCreateUserWithRefreshToken(r)
  \/ MemorySave(r) \/ RedisSave(r) \/ PostgresSave(r)
  \/ MemoryRotate(r) \/ RedisRotate(r) \/ PostgresRotate(r)
  \/ Respond(r)

Next ==
  \/ \E r \in Requests : Arrive(r) \/ Handle(r) \/ Cancel(r)
  \/ \E t \in Tokens : RedisExpire(t)
  \/ \E D \in SUBSET Requests : Crash(D)
  \/ Tick

Spec == Init /\ [][Next]_vars

-----------------------------------------------------------------------------
(* Properties                                                              *)

(***************************************************************************)
(* Every variable has its type.                                            *)
(***************************************************************************)
TypeOK ==
  /\ now \in 0 .. MaxTime
  /\ req \in [Requests -> Request]
  /\ byID \in [Users -> Emails \cup {NoEmail}]
  /\ byEmail \in [Emails -> Users \cup {NoUser}]
  /\ stored \subseteq Tokens
  /\ owner \in [Tokens -> Users \cup {NoUser}]
  /\ iat \in [Tokens -> Nat]
  /\ family \in [Tokens -> Tokens]
  /\ delivered \subseteq Tokens
  /\ spent \subseteq Tokens

(***************************************************************************)
(* The two maps of the user repository (the table and its unique index)    *)
(* describe the same users, whatever creations, rollbacks and crashes      *)
(* interleave: no two users share an address and no address is left        *)
(* reserved for a user that was rolled back.                               *)
(***************************************************************************)
IndexesAgree == \A u \in Users, e \in Emails : byID[u] = e <=> byEmail[e] = u

(***************************************************************************)
(* However many requests present the same refresh token, in whatever order *)
(* and with whatever answers lost, a session never has two tokens that can *)
(* continue it (Rotate of the three stores).                               *)
(***************************************************************************)
OneLiveTokenPerSession ==
  \A t, u \in stored : family[t] = family[u] => t = u

(***************************************************************************)
(* A success is answered only when the pair it carries went into the       *)
(* store: a client never holds a refresh token the service has not kept.   *)
(***************************************************************************)
SuccessIsStored ==
  /\ \A r \in Requests : req[r].res = "ok" /\ req[r].op # "me" => req[r].cand \in stored \cup spent
  /\ delivered \subseteq stored \cup spent

(***************************************************************************)
(* With the stores in memory a failure has issued nothing and has cost     *)
(* nothing that is still good.  A request that comes to a failure has not  *)
(* entered its pair; and a token leaves the store before it expires only   *)
(* when the request that presented it comes to a success, or when the      *)
(* process stops with all it works on.  So a client whose Refresh fails    *)
(* can try again with the token it has, unless another request exchanged   *)
(* it.                                                                     *)
(***************************************************************************)
ComesTo(r, outcomes) == req[r].pc # "respond" /\ req'[r].pc = "respond" /\ req'[r].res \in outcomes
Stops == \A r \in Requests : req'[r] = Idle
FailureCostsNothing ==
  [][/\ \A r \in Requests :
          ComesTo(r, Outcomes \ {"ok"}) => req'[r].cand \notin stored' \cup spent'
     /\ \A t \in stored \ stored' :
          now < RefreshExp(t) =>
            Stops \/ \E r \in Requests : req[r].presented = t /\ ComesTo(r, {"ok"})]_vars

(***************************************************************************)
(* A registration that is answered with a failure leaves no user behind,   *)
(* at whichever call it failed and whether or not its context was done,    *)
(* unless the answer itself reports that the rollback failed.              *)
(***************************************************************************)
FailedRegistrationLeavesNoUser ==
  \A r \in Requests :
    req[r].op = "register" /\ req[r].res \in {"error", "taken"} /\ req[r].uid \in Users =>
      byID[req[r].uid] = NoEmail

(***************************************************************************)
(* With postgres a user and his first refresh token are stored together or *)
(* not at all, and a token never outlives its user.                        *)
(***************************************************************************)
RegistrationIsAtomic ==
  {u \in Users : byID[u] # NoEmail} = {owner[t] : t \in stored \cup spent}

(***************************************************************************)
(* With the stores in memory no token that has expired is exchanged: the   *)
(* JWT is verified before two more calls, and the store must look at the   *)
(* clock again when it rotates.  (Redis compares no clock, and postgres    *)
(* that of its BEGIN: see NoStaleExchange of PostgresStore.)               *)
(***************************************************************************)
Exchanged(r) == /\ req[r].presented \in stored \ stored'
                /\ req[r].cand \in stored' \ stored
NoStaleExchange ==
  [][\A r \in Requests : Exchanged(r) => now < RefreshExp(req[r].presented)]_vars

(***************************************************************************)
(* While rollbacks meet their deadline, a user without a refresh token is  *)
(* one that a running registration will give a token or take back: no      *)
(* interleaving with cancellations, lost answers and crashes leaves the    *)
(* address taken by an account whose registration is over.                 *)
(***************************************************************************)
Unfinished(u) == byID[u] # NoEmail /\ \A t \in stored \cup spent : owner[t] # u
Attends(r, u) ==
  req[r].op = "register" /\ req[r].uid = u /\ req[r].pc \in {"save", "rollback"}
NoUnattendedUser ==
  ~Stalls => \A u \in Users : Unfinished(u) => \E r \in Requests : Attends(r, u)

(***************************************************************************)
(* The refresh-token service implements Sessions: a request, a store and a *)
(* crash are invisible, what remains is opening, exchanging and ending.    *)
(***************************************************************************)
S == INSTANCE Sessions WITH live <- {<<family[t], t>> : t \in stored}
ImplementsSessions == S!SessSpec

(***************************************************************************)
(* The comment of the /me handler lists its answers: 200, 401, 429, 500,   *)
(* 503 and 504.  Those of the use case are among them.                     *)
(***************************************************************************)
MeAnswersAsDocumented ==
  \A r \in Requests :
    req[r].pc = "respond" /\ req[r].op = "me" => req[r].res \in {"ok", "invalid", "error"}

-----------------------------------------------------------------------------
(* The inductive invariant                                                 *)

Entered == stored \cup spent      \* every token that was ever in the store

\* What the call a request is about to make says of its arguments.
RequestOK(r) ==
  LET q == req[r] IN
  /\ q.pc = "idle" => q = Idle
  /\ q.pc # "respond" => q.res = "none"
  /\ q.pc = "find" => q.email \in Emails /\ q.op = "login"
  /\ q.pc = "lookup" => q.op = "refresh"
  /\ q.pc \in {"lookup", "profile", "issue", "create", "unit", "save", "rollback", "rotate"}
       => q.uid \in Users
  /\ q.pc = "issue" => q.op \in {"register", "login", "refresh"}
  /\ q.pc \in {"create", "unit", "rollback"} => q.op = "register"
  /\ q.pc = "save" => q.op \in {"register", "login"}
  /\ q.pc = "rotate" => q.op = "refresh"
  /\ q.op = "register" => q.email \in Emails
  /\ q.op = "refresh" => q.presented \in delivered
  /\ q.pc = "profile" => q.op = "me"

\* A pair that was generated and not entered yet is known to its request only.
PendingOK(r) ==
  LET q == req[r] IN
  q.pc \in {"create", "unit", "save", "rotate"} =>
    /\ q.cand \in Tokens
    /\ q.cand \notin Entered
    /\ owner[q.cand] = q.uid
    /\ q.pc # "rotate" => family[q.cand] = q.cand
    /\ q.pc = "rotate" => family[q.cand] = family[q.presented]

CandidatesDiffer ==
  \A r, q \in Requests : req[r].cand = req[q].cand /\ req[r].cand # NoToken => r = q

\* Nobody has a token before it is signed, and no session is named after it.
UnsignedUnused ==
  \A t \in Tokens : owner[t] = NoUser =>
    /\ t \notin Entered
    /\ \A r \in Requests : req[r].cand # t
    /\ \A u \in Tokens : family[u] = t => u = t

\* A session is named after a token that was in the store.
FamiliesEntered == \A t \in Tokens : family[t] # t => family[t] \in Entered

IInv ==
  /\ TypeOK
  /\ \A r \in Requests : RequestOK(r) /\ PendingOK(r)
  /\ CandidatesDiffer
  /\ UnsignedUnused
  /\ FamiliesEntered
  /\ stored \cap spent = {}
  /\ SuccessIsStored
  /\ OneLiveTokenPerSession
=============================================================================
