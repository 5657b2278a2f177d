----------------------------- MODULE Lifecycle -----------------------------
(***************************************************************************)
(* One process from New to its exit: the main goroutine that builds the    *)
(* clients, waits for a signal or a failure of the server and takes        *)
(* everything down, the goroutine of ListenAndServe, and the requests that *)
(* are served meanwhile.                                                   *)
(***************************************************************************)
EXTENDS FiniteSets

CONSTANTS Requests     \* the connections the server may have at once

VARIABLES
  cfg,            \* what the file and the environment say
  up,             \* the services that can be reached
  pc,             \* where the main goroutine is
  clients,        \* the state of each client and pool
  given,          \* the arguments of shutdownStartup, when it is called
  redisAvailable, \* redis answered the ping of New
  wired,          \* the backends New has selected
  server,         \* the goroutine of ListenAndServe
  signalled,      \* the context of signal.NotifyContext is done
  req,            \* the requests
  timedOut,       \* the drain has run into ShutdownTimeout
  cut,            \* a client that waits got an error of a closed client (history)
  result          \* how run ends

main == <<pc, clients, given, redisAvailable, wired, result>>
others == <<server, signalled, req, timedOut, cut>>   \* than New has to do with
vars == <<cfg, up, main, server, signalled, req, timedOut, cut>>

Services == {"postgres", "redis"}
\* "missing": a redis that is required but has no address.  sane: what is not told
\* apart here passes Validate (durations, sizes, and in prod the secret, CORS and
\* that pprof and swagger are off).
Config == [prod : BOOLEAN, dsn : BOOLEAN, redis : {"none", "optional", "required", "missing"},
           tracing : BOOLEAN, sane : BOOLEAN]

\* "nil": not created, or forgotten.  "closed": the pointer is still there.
Clients == Services \cup {"tracer"}
Client == {"nil", "open", "closed"}
Open == {c \in Clients : clients[c] = "open"}
There == {c \in Clients : clients[c] # "nil"}
Created(c) == [clients EXCEPT ![c] = "open"]

Startup == {"load", "tracer", "database", "redis", "metrics", "wire", "notify"}
Serving == {"select", "shutdown", "drain"}
Cleanup == {"closeRedis", "closePool", "awaitPool", "closeTracer"}

Backend == Services \cup {"memory"}
Wiring == [users : Backend, tokens : Backend, limiters : Backend, checks : SUBSET Services]
NotWired == [users |-> "memory", tokens |-> "memory", limiters |-> "memory", checks |-> {}]

\* "conn": the handler holds a connection of the pool.  "waited": its client
\* has not been answered.
Request == [at : {"none", "handler", "conn"}, waited : BOOLEAN]
NoRequest == [at |-> "none", waited |-> FALSE]

\* The clients that requests use.
Uses == {wired.users, wired.tokens, wired.limiters} \cap Services

-----------------------------------------------------------------------------
(* New                                                                     *)

\* Mutant: no check of the DSN in prod.
ValidateWithoutDSN(c) == c.sane /\ c.redis # "missing"
Validate(c) == c.sane /\ c.redis # "missing" /\ (c.prod => c.dsn)

Load ==
  /\ pc = "load"
  /\ \/ Validate(cfg) /\ pc' = "tracer" /\ UNCHANGED result
     \/ ~Validate(cfg) /\ pc' = "exited" /\ result' = "error"
  /\ UNCHANGED <<cfg, up, clients, given, redisAvailable, wired, others>>

NewTracerProvider ==
  /\ pc = "tracer"
  /\ \/ clients' = (IF cfg.tracing THEN Created("tracer") ELSE clients) /\ pc' = "database"
        /\ UNCHANGED result
     \/ cfg.tracing /\ pc' = "exited" /\ result' = "error" /\ UNCHANGED clients
  /\ UNCHANGED <<cfg, up, given, redisAvailable, wired, others>>

\* Mutant: nil is passed for redis.
AbortsWithoutRedis(args) ==
  pc' = "closeRedis" /\ given' = args \ {"redis"} /\ result' = "error" /\ UNCHANGED clients
\* Mutant: nil is passed for the provider of the tracer.
AbortsWithoutTracer(args) ==
  pc' = "closeRedis" /\ given' = args \ {"tracer"} /\ result' = "error" /\ UNCHANGED clients
\* shutdownStartup with these arguments, and then the error is returned.
Abort(args) == pc' = "closeRedis" /\ given' = args /\ result' = "error" /\ UNCHANGED clients

\* The pool is lazy: it is created whether postgres can be reached or not.
NewDatabase ==
  /\ pc = "database"
  /\ \/ ~cfg.dsn /\ pc' = "redis" /\ UNCHANGED <<clients, given, result>>
     \/ cfg.dsn /\ clients' = Created("postgres") /\ pc' = "redis" /\ UNCHANGED <<given, result>>
     \/ cfg.dsn /\ Abort({"tracer", "postgres"})
  /\ UNCHANGED <<cfg, up, redisAvailable, wired, others>>

\* Mutant: the client is closed, required or not, and the pointer is kept.
KeepsClosed == "closed"
\* An optional client that was not reached is closed and forgotten.
Unreached == IF cfg.redis = "required" THEN "open" ELSE "nil"

\* The ping may fail though redis is up.
NewRedis ==
  /\ pc = "redis"
  /\ redisAvailable' \in {FALSE, cfg.redis # "none" /\ "redis" \in up}
  /\ clients' = IF cfg.redis = "none" THEN clients
                ELSE [clients EXCEPT !["redis"] = IF redisAvailable' THEN "open" ELSE Unreached]
  /\ pc' = "metrics"
  /\ UNCHANGED <<cfg, up, given, wired, result, others>>

NewMetrics ==
  /\ pc = "metrics"
  /\ \/ pc' = "wire" /\ UNCHANGED <<clients, given, result>>
     \/ Abort({"tracer", "postgres", "redis"})
  /\ UNCHANGED <<cfg, up, redisAvailable, wired, others>>

\* client != nil && (available || required)
UseRedis == "redis" \in There /\ (redisAvailable \/ cfg.redis = "required")

selectRefreshTokenStore ==
  IF "postgres" \in There THEN "postgres" ELSE IF UseRedis THEN "redis" ELSE "memory"
selectRateLimitPolicies == IF UseRedis THEN "redis" ELSE "memory"

\* Mutant: redis is never asked.
CheckPool == {"postgres"} \cap There
readinessChecks ==
  There \cap ({"postgres"} \cup IF cfg.redis = "required" THEN {"redis"} ELSE {})

Wire ==
  /\ pc = "wire"
  /\ wired' = [users |-> IF "postgres" \in There THEN "postgres" ELSE "memory",
               tokens |-> selectRefreshTokenStore,
               limiters |-> selectRateLimitPolicies,
               checks |-> readinessChecks]
  /\ pc' = "notify"
  /\ UNCHANGED <<cfg, up, clients, given, redisAvailable, result, others>>

\* What GET /readyz answers.
Ready == \A d \in wired.checks : d \in up

-----------------------------------------------------------------------------
(* run                                                                     *)

\* signal.NotifyContext and go ListenAndServe.
Notify ==
  /\ pc = "notify"
  /\ pc' = "select"
  /\ server' = "starting"
  /\ UNCHANGED <<cfg, up, clients, given, redisAvailable, wired, signalled, req, timedOut, cut, result>>

\* Before NotifyContext a signal ends the process as it is.
Signal ==
  /\ pc # "exited" /\ ~signalled
  /\ signalled' = TRUE
  /\ IF pc \in Startup
     THEN pc' = "exited" /\ result' = "killed" ELSE UNCHANGED <<pc, result>>
  /\ UNCHANGED <<cfg, up, clients, given, redisAvailable, wired, server, req, timedOut, cut>>

\* The port is bound, or not; an Accept fails later.  Both are sent on
\* serverErrors.  After Shutdown, ListenAndServe returns ErrServerClosed.
Listen ==
  /\ pc # "exited" /\ server = "starting"
  /\ server' \in {"listening", "failed"}
  /\ UNCHANGED <<cfg, up, main, signalled, req, timedOut, cut>>

AcceptFails ==
  /\ pc # "exited" /\ server = "listening"
  /\ server' = "failed"
  /\ UNCHANGED <<cfg, up, main, signalled, req, timedOut, cut>>

\* select: when both are there, either is taken.
Select ==
  /\ pc = "select"
  /\ \/ signalled /\ result' = "ok"
     \/ server = "failed" /\ result' = "error"
  /\ pc' = "shutdown"
  /\ UNCHANGED <<cfg, up, clients, given, redisAvailable, wired, server, signalled, req, timedOut, cut>>

\* server.Shutdown begins: the listener is closed.
Shutdown ==
  /\ pc = "shutdown"
  /\ server' = "closed"
  /\ pc' = "drain"
  /\ UNCHANGED <<cfg, up, clients, given, redisAvailable, wired, signalled, req, timedOut, cut, result>>

\* Mutant: nobody is waited for.
DrainAtOnce == TRUE
\* Every connection is idle.
Drained == \A r \in Requests : ~req[r].waited

\* server.Shutdown returns nil.
Drain ==
  /\ pc = "drain" /\ Drained
  /\ pc' = "closeRedis"
  /\ given' = Clients
  /\ UNCHANGED <<cfg, up, clients, redisAvailable, wired, server, signalled, req, timedOut, cut, result>>

\* Mutant: no deadline, the drain waits for the last request.
DrainPatiently == FALSE /\ UNCHANGED vars
\* Mutant: the error is dropped.
DrainTimeoutIgnored ==
  /\ pc = "drain"
  /\ timedOut' = TRUE
  /\ pc' = "closeRedis"
  /\ given' = Clients
  /\ UNCHANGED <<cfg, up, clients, redisAvailable, wired, server, signalled, req, cut, result>>
\* server.Shutdown returns the error of its context, and run returns it.  Also a
\* connection that has sent nothing yet, or the handler of a request that was
\* answered with 504, may have kept it waiting.
DrainTimeout ==
  /\ pc = "drain"
  /\ timedOut' = TRUE
  /\ result' = "error"
  /\ pc' = "closeRedis"
  /\ given' = Clients
  /\ UNCHANGED <<cfg, up, clients, redisAvailable, wired, server, signalled, req, cut>>

-----------------------------------------------------------------------------
(* shutdownStartup: it closes what it is given and is not nil              *)

Close(client, from, to) ==
  /\ pc = from
  /\ clients' = IF client \in given \cap There
                THEN [clients EXCEPT ![client] = "closed"] ELSE clients
  /\ pc' = to
  /\ UNCHANGED <<cfg, up, given, redisAvailable, wired, server, signalled, req, timedOut, cut, result>>

\* pool.Close refuses new connections at once and waits for those in use.
AwaitPool ==
  /\ pc = "awaitPool"
  /\ \A r \in Requests : req[r].at # "conn"
  /\ pc' = "closeTracer"
  /\ UNCHANGED <<cfg, up, clients, given, redisAvailable, wired, server, signalled, req, timedOut, cut, result>>

shutdownStartup ==
  \/ Close("redis", "closeRedis", "closePool")
  \/ Close("postgres", "closePool", "awaitPool")
  \/ AwaitPool
  \/ Close("tracer", "closeTracer", "exited")

-----------------------------------------------------------------------------
(* Requests and services                                                   *)

Accept(r) ==
  /\ pc \in Serving /\ server = "listening" /\ req[r] = NoRequest
  /\ req' = [req EXCEPT ![r] = [at |-> "handler", waited |-> TRUE]]
  /\ UNCHANGED <<cfg, up, main, server, signalled, timedOut, cut>>

InHandler(r) == pc # "exited" /\ req[r].at = "handler"

\* A handler calls postgres: a connection is acquired, and released when the
\* call returns.
Acquire(r) ==
  /\ InHandler(r) /\ "postgres" \in Uses \cap Open
  /\ req' = [req EXCEPT ![r].at = "conn"]
  /\ UNCHANGED <<cfg, up, main, server, signalled, timedOut, cut>>

Release(r) ==
  /\ pc # "exited" /\ req[r].at = "conn"
  /\ req' = [req EXCEPT ![r].at = "handler"]
  /\ UNCHANGED <<cfg, up, main, server, signalled, timedOut, cut>>

\* A call of a client that is closed fails.
FindsClosed(r) ==
  /\ InHandler(r) /\ ~(Uses \subseteq Open)
  /\ cut' = (cut \/ req[r].waited)
  /\ req' = [req EXCEPT ![r] = NoRequest]
  /\ UNCHANGED <<cfg, up, main, server, signalled, timedOut>>

Answer(r) ==
  /\ InHandler(r)
  /\ req' = [req EXCEPT ![r] = NoRequest]
  /\ UNCHANGED <<cfg, up, main, server, signalled, timedOut, cut>>

\* The Timeout middleware answers; the handler runs on.
Timeout(r) ==
  /\ pc # "exited" /\ req[r].waited
  /\ req' = [req EXCEPT ![r].waited = FALSE]
  /\ UNCHANGED <<cfg, up, main, server, signalled, timedOut, cut>>

UpOrDown ==
  /\ pc # "exited"
  /\ \E d \in Services : up' = IF d \in up THEN up \ {d} ELSE up \cup {d}
  /\ UNCHANGED <<cfg, main, server, signalled, req, timedOut, cut>>

-----------------------------------------------------------------------------
Init ==
  /\ cfg \in Config
  /\ up \in SUBSET Services
  /\ pc = "load"
  /\ clients = [c \in Clients |-> "nil"]
  /\ given = {}
  /\ redisAvailable = FALSE
  /\ wired = NotWired
  /\ server = "none"
  /\ signalled = FALSE
  /\ req = [r \in Requests |-> NoRequest]
  /\ timedOut = FALSE
  /\ cut = FALSE
  /\ result = "none"

New == Load \/ NewTracerProvider \/ NewDatabase \/ NewRedis \/ NewMetrics \/ Wire
run == Notify \/ Select \/ Shutdown \/ Drain \/ DrainTimeout \/ shutdownStartup

Exited == pc = "exited" /\ UNCHANGED vars

Next ==
  \/ New \/ run \/ Listen \/ AcceptFails \/ Signal \/ UpOrDown \/ Exited
  \/ \E r \in Requests :
       Accept(r) \/ Acquire(r) \/ Release(r) \/ FindsClosed(r) \/ Answer(r) \/ Timeout(r)

Spec == Init /\ [][Next]_vars

\* The main goroutine runs, its timer fires, and a call of postgres returns:
\* net/http ends the context of a request that was answered, and the Timeout
\* middleware answers each.  Handlers need not return.
FairSpec ==
  /\ Spec
  /\ WF_vars(New \/ run)
  /\ \A r \in Requests : WF_vars(Release(r))

-----------------------------------------------------------------------------
(* Properties                                                              *)

(***************************************************************************)
(* Every variable has its type, and the result is known from the time on   *)
(* when things are taken down.                                             *)
(***************************************************************************)
TypeOK ==
  /\ cfg \in Config
  /\ up \subseteq Services
  /\ pc \in Startup \cup Serving \cup Cleanup \cup {"exited"}
  /\ redisAvailable \in BOOLEAN
  /\ clients \in [Clients -> Client]
  /\ given \subseteq Clients
  /\ wired \in Wiring
  /\ server \in {"none", "starting", "listening", "failed", "closed"}
  /\ req \in [Requests -> Request]
  /\ signalled \in BOOLEAN /\ timedOut \in BOOLEAN /\ cut \in BOOLEAN
  /\ result \in {"none", "ok", "error", "killed"}
  /\ result = "none" <=> pc \in Startup \cup {"select"}

(***************************************************************************)
(* The comment of shutdownStartup: whatever fails, and wherever, a process *)
(* that returns from run has closed every client New created.              *)
(***************************************************************************)
CleanupComplete == pc = "exited" /\ result # "killed" => Open = {}

(***************************************************************************)
(* The clients stay open under the requests that are drained: no client    *)
(* that still waits gets the error of a closed one, unless the drain ran   *)
(* into its timeout.                                                       *)
(***************************************************************************)
NotCutOff == cut => timedOut

(***************************************************************************)
(* Exit code 0 is the word that everybody was answered.                    *)
(***************************************************************************)
CleanExitAnswersAll ==
  result = "ok" /\ pc = "exited" => \A r \in Requests : ~req[r].waited

(***************************************************************************)
(* No request is handed a client that is nil, or was closed at startup.    *)
(***************************************************************************)
ServesWithOpenClients == pc \in Serving => Uses \subseteq Open

(***************************************************************************)
(* In prod nobody is served from users or refresh tokens that are kept in  *)
(* memory and lost with the process, whatever of the configuration is left *)
(* out and whichever service is down at startup.                           *)
(***************************************************************************)
ProdIsDurable ==
  pc \in Serving /\ cfg.prod => wired.users = "postgres" /\ wired.tokens = "postgres"

(***************************************************************************)
(* While GET /readyz answers 200, requests depend on no service that is    *)
(* down, except for a redis that was called optional and answered at       *)
(* startup.                                                                *)
(***************************************************************************)
ReadyMeansReachable ==
  pc \in Serving /\ Ready =>
    \A d \in Uses \ up : d = "redis" /\ cfg.redis = "optional"

(***************************************************************************)
(* After a signal, or a failure of the server, the process exits, even if  *)
(* a handler never returns.                                                *)
(***************************************************************************)
Exits == signalled \/ server = "failed" ~> pc = "exited"
=============================================================================
