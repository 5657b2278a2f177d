-------------------------- MODULE LifecycleProofs --------------------------
(***************************************************************************)
(* Safety of Lifecycle for every set of requests.                          *)
(***************************************************************************)
EXTENDS Lifecycle, TLAPS

\* Clients are created in turn.  None is closed and still there before the
\* clean-up, which is given all that are open, and closes them in turn.
OpenOK ==
  /\ pc \in {"load", "tracer"} => There = {}
  /\ pc = "database" => "redis" \notin There
  /\ cfg.redis = "none" => "redis" \notin There
  /\ pc \in Startup \cup Serving => There \subseteq Open
  /\ pc \in Cleanup => Open \subseteq given
  /\ pc \in {"closePool", "awaitPool", "closeTracer"} => "redis" \notin Open
  /\ pc \in {"awaitPool", "closeTracer"} => "postgres" \notin Open

\* What Validate has established, and what becomes of a DSN in prod.
ProdOK ==
  /\ pc \notin {"load", "exited"} => Validate(cfg)
  /\ pc \in {"redis", "metrics", "wire"} /\ cfg.dsn => "postgres" \in There
  /\ pc \in {"notify"} \cup Serving /\ cfg.prod =>
       wired.users = "postgres" /\ wired.tokens = "postgres"

\* What Wire has established.
WiredOK ==
  pc \in {"notify"} \cup Serving =>
    /\ Uses \subseteq Open
    /\ \A d \in Uses : d \in wired.checks \/ (d = "redis" /\ cfg.redis = "optional")

\* Nobody waits before the server listens, nor once the drain has ended.
WaitedOK ==
  /\ pc \in Startup => \A r \in Requests : req[r] = NoRequest
  /\ pc \in Cleanup \cup {"exited"} => timedOut \/ \A r \in Requests : ~req[r].waited

ResultOK == timedOut => result = "error"

IInv == /\ TypeOK /\ OpenOK /\ ProdOK /\ WiredOK /\ WaitedOK /\ ResultOK
        /\ CleanupComplete /\ NotCutOff

USE DEF Services, Startup, Serving, Cleanup, others, main, Clients, Client, Open, There

-----------------------------------------------------------------------------
LEMMA InitIInv == Init => IInv
<1> SUFFICES ASSUME Init PROVE IInv
  OBVIOUS
<1> USE DEF Init
<1>1. TypeOK
  BY DEF TypeOK, Wiring, Backend, NotWired, Request, NoRequest
<1>2. OpenOK /\ ProdOK /\ ResultOK /\ CleanupComplete /\ NotCutOff
  BY DEF OpenOK, ProdOK, ResultOK, CleanupComplete, NotCutOff
<1>3. WiredOK
  BY DEF WiredOK
<1>4. WaitedOK
  BY DEF WaitedOK
<1> QED
  BY <1>1, <1>2, <1>3, <1>4 DEF IInv

\* New creates clients, before there is a request.
LEMMA NewIInv == IInv /\ New => IInv'
<1> SUFFICES ASSUME IInv, New PROVE IInv'
  OBVIOUS
<1> USE DEF IInv, TypeOK, OpenOK, ProdOK, WiredOK, WaitedOK, ResultOK, CleanupComplete, NotCutOff, Uses
<1>0. CASE Load
  <2>1. TypeOK'
    BY <1>0 DEF Load
  <2>2. OpenOK' /\ ProdOK' /\ ResultOK' /\ CleanupComplete' /\ NotCutOff'
    BY <1>0 DEF Load
  <2>3. WiredOK'
    BY <1>0 DEF Load
  <2>4. WaitedOK'
    BY <1>0 DEF Load, NoRequest
  <2> QED
    BY <2>1, <2>2, <2>3, <2>4
<1>1. CASE NewTracerProvider
  <2>1. TypeOK'
    BY <1>1 DEF NewTracerProvider, Created
  <2>2. OpenOK' /\ ProdOK' /\ ResultOK' /\ CleanupComplete' /\ NotCutOff'
    BY <1>1 DEF NewTracerProvider, Created, Config
  <2>3. WiredOK'
    BY <1>1 DEF NewTracerProvider, Created, Config
  <2>4. WaitedOK'
    BY <1>1 DEF NewTracerProvider, Created, Config, NoRequest
  <2> QED
    BY <2>1, <2>2, <2>3, <2>4
<1>2. CASE NewDatabase
  <2>1. TypeOK'
    <3>1. clients' \in [Clients -> Client]
      BY <1>2 DEF NewDatabase, Created, Abort
    <3>2. given' \subseteq Clients
      BY <1>2 DEF NewDatabase, Abort
    <3> QED
      BY <1>2, <3>1, <3>2 DEF NewDatabase, Abort
  <2>2. OpenOK' /\ ProdOK' /\ ResultOK' /\ CleanupComplete' /\ NotCutOff'
    BY <1>2 DEF NewDatabase, Created, Abort, Config
  <2>3. WiredOK'
    BY <1>2 DEF NewDatabase, Created, Abort, Config
  <2>4. WaitedOK'
    BY <1>2 DEF NewDatabase, Created, Abort, Config, NoRequest
  <2> QED
    BY <2>1, <2>2, <2>3, <2>4
<1>3. CASE NewRedis
  <2>1. TypeOK'
    BY <1>3 DEF NewRedis, Unreached
  <2>2. OpenOK' /\ ProdOK' /\ ResultOK' /\ CleanupComplete' /\ NotCutOff'
    BY <1>3 DEF NewRedis, Unreached
  <2>3. WiredOK' /\ WaitedOK'
    BY <1>3 DEF NewRedis, Unreached
  <2> QED
    BY <2>1, <2>2, <2>3
<1>4. CASE NewMetrics
  <2>1. TypeOK'
    BY <1>4 DEF NewMetrics, Abort
  <2>2. OpenOK' /\ ProdOK' /\ ResultOK' /\ CleanupComplete' /\ NotCutOff'
    BY <1>4 DEF NewMetrics, Abort, Config
  <2>3. WiredOK'
    BY <1>4 DEF NewMetrics, Abort, Config
  <2>4. WaitedOK'
    BY <1>4 DEF NewMetrics, Abort, Config, NoRequest
  <2> QED
    BY <2>1, <2>2, <2>3, <2>4
<1>5. CASE Wire
  <2>1. wired' \in Wiring
    BY <1>5 DEF Wire, Wiring, Backend, selectRefreshTokenStore, selectRateLimitPolicies, readinessChecks
  <2>2. WiredOK'
    BY <1>5 DEF Wire, Config, UseRedis, selectRefreshTokenStore, selectRateLimitPolicies, readinessChecks
  <2>3. TypeOK'
    BY <1>5, <2>1 DEF Wire
  <2>4. OpenOK' /\ ResultOK' /\ CleanupComplete' /\ NotCutOff'
    BY <1>5 DEF Wire
  <2>5. ProdOK'
    BY <1>5 DEF Wire, Validate, selectRefreshTokenStore
  <2>6. WaitedOK'
    BY <1>5 DEF Wire, NoRequest
  <2> QED
    BY <2>2, <2>3, <2>4, <2>5, <2>6
<1> QED
  BY <1>0, <1>1, <1>2, <1>3, <1>4, <1>5 DEF New

\* The main goroutine after New: Drain and DrainTimeout are the ways to the
\* clean-up that establish WaitedOK.
LEMMA RunIInv == IInv /\ run => IInv'
<1> SUFFICES ASSUME IInv, run PROVE IInv'
  OBVIOUS
<1> USE DEF IInv, TypeOK, OpenOK, ProdOK, WiredOK, WaitedOK, ResultOK, CleanupComplete, NotCutOff, Uses
<1>1. CASE Notify
  BY <1>1 DEF Notify
<1>2. CASE Select
  BY <1>2 DEF Select
<1>3. CASE Shutdown
  BY <1>3 DEF Shutdown
<1>4. CASE Drain
  BY <1>4 DEF Drain, Drained
<1>5. CASE DrainTimeout
  BY <1>5 DEF DrainTimeout
<1>6. CASE shutdownStartup
  <2>1. TypeOK'
    <3>1. clients' \in [Clients -> Client]
      BY <1>6 DEF shutdownStartup, Close, AwaitPool
    <3>2. /\ pc \in Cleanup /\ pc' \in Cleanup \cup {"exited"} /\ result' = result
          /\ UNCHANGED <<cfg, up, given, redisAvailable, wired, others>>
      BY <1>6 DEF shutdownStartup, Close, AwaitPool
    <3> QED
      BY <3>1, <3>2
  <2>2. OpenOK' /\ ProdOK'
    BY <1>6 DEF shutdownStartup, Close, AwaitPool
  <2>3. ResultOK' /\ NotCutOff'
    BY <1>6 DEF shutdownStartup, Close, AwaitPool
  <2>4. CleanupComplete'
    BY <1>6 DEF shutdownStartup, Close, AwaitPool
  <2>5. WiredOK'
    BY <1>6 DEF shutdownStartup, Close, AwaitPool
  <2>6. WaitedOK'
    BY <1>6 DEF shutdownStartup, Close, AwaitPool
  <2> QED
    BY <2>1, <2>2, <2>3, <2>4, <2>5, <2>6
<1> QED
  BY <1>1, <1>2, <1>3, <1>4, <1>5, <1>6 DEF run

\* A request that finds a client closed is one of the clean-up.
LEMMA RequestIInv ==
  ASSUME IInv, NEW r \in Requests,
         Accept(r) \/ Acquire(r) \/ Release(r) \/ FindsClosed(r) \/ Answer(r) \/ Timeout(r)
  PROVE  IInv'
<1> USE DEF IInv, TypeOK, OpenOK, ProdOK, WiredOK, WaitedOK, ResultOK, CleanupComplete, NotCutOff, Uses,
            Request, NoRequest
<1>1. CASE Accept(r)
  BY <1>1 DEF Accept
<1>2. CASE Acquire(r)
  BY <1>2 DEF Acquire, InHandler
<1>3. CASE Release(r)
  BY <1>3 DEF Release
<1>4. CASE FindsClosed(r)
  BY <1>4 DEF FindsClosed, InHandler
<1>5. CASE Answer(r)
  BY <1>5 DEF Answer, InHandler
<1>6. CASE Timeout(r)
  <2>1. TypeOK'
    <3>1. req \in [Requests -> Request] /\ req' = [req EXCEPT ![r].waited = FALSE]
      BY <1>6 DEF Timeout
    <3>2. req' \in [Requests -> Request]
      BY ONLY <3>1, r \in Requests, Zenon DEF Request
    <3> QED
      BY <1>6, <3>2 DEF Timeout
  <2>2. OpenOK' /\ ProdOK' /\ ResultOK' /\ CleanupComplete' /\ NotCutOff'
    BY <1>6 DEF Timeout
  <2>3. WiredOK'
    BY <1>6 DEF Timeout
  <2>4. WaitedOK'
    BY <1>6 DEF Timeout
  <2> QED
    BY <2>1, <2>2, <2>3, <2>4
<1> QED
  BY <1>1, <1>2, <1>3, <1>4, <1>5, <1>6

(***************************************************************************)
(* The invariant is inductive.                                             *)
(***************************************************************************)
THEOREM Inductive == Spec => []IInv
<1>1. IInv /\ [Next]_vars => IInv'
  <2> SUFFICES ASSUME IInv, [Next]_vars PROVE IInv'
    OBVIOUS
  <2> USE DEF IInv, TypeOK, OpenOK, ProdOK, WiredOK, WaitedOK, ResultOK, CleanupComplete, NotCutOff, Uses
  <2>1. CASE New
    BY <2>1, NewIInv
  <2>2. CASE run
    BY <2>2, RunIInv
  <2>3. CASE Listen \/ AcceptFails
    <3>1. TypeOK'
      BY <2>3 DEF Listen, AcceptFails
    <3>2. OpenOK' /\ ProdOK'
      BY <2>3 DEF Listen, AcceptFails
    <3>3. ResultOK' /\ NotCutOff'
      BY <2>3 DEF Listen, AcceptFails
    <3>4. CleanupComplete'
      BY <2>3 DEF Listen, AcceptFails
    <3>5. WiredOK'
      BY <2>3 DEF Listen, AcceptFails
    <3>6. WaitedOK'
      BY <2>3 DEF Listen, AcceptFails
    <3> QED
      BY <3>1, <3>2, <3>3, <3>4, <3>5, <3>6
  <2>4. CASE Signal
    <3>1. TypeOK'
      BY <2>4 DEF Signal
    <3>2. OpenOK' /\ ProdOK' /\ ResultOK' /\ CleanupComplete' /\ NotCutOff'
      BY <2>4 DEF Signal
    <3>3. WiredOK'
      BY <2>4 DEF Signal
    <3>4. WaitedOK'
      BY <2>4 DEF Signal, NoRequest
    <3> QED
      BY <3>1, <3>2, <3>3, <3>4
  <2>5. CASE UpOrDown
    BY <2>5 DEF UpOrDown
  <2>6. CASE Exited \/ UNCHANGED vars
    <3>0. /\ cfg' = cfg /\ up' = up /\ pc' = pc /\ clients' = clients /\ given' = given /\ wired' = wired
          /\ redisAvailable' = redisAvailable /\ server' = server /\ signalled' = signalled
          /\ req' = req /\ timedOut' = timedOut /\ cut' = cut /\ result' = result
      BY <2>6 DEF Exited, vars
    <3>1. TypeOK'
      BY <3>0
    <3>2. OpenOK' /\ ProdOK'
      BY <2>6 DEF Exited, vars
    <3>3. ResultOK' /\ NotCutOff'
      BY <2>6 DEF Exited, vars
    <3>4. CleanupComplete'
      BY <2>6 DEF Exited, vars
    <3>5. WiredOK'
      BY <2>6 DEF Exited, vars
    <3>6. WaitedOK'
      BY <2>6 DEF Exited, vars
    <3> QED
      BY <3>1, <3>2, <3>3, <3>4, <3>5, <3>6
  <2>7. CASE \E r \in Requests :
       Accept(r) \/ Acquire(r) \/ Release(r) \/ FindsClosed(r) \/ Answer(r) \/ Timeout(r)
    BY <2>7, RequestIInv
  <2> QED
    BY <2>1, <2>2, <2>3, <2>4, <2>5, <2>6, <2>7 DEF Next
<1> QED
  BY InitIInv, <1>1, PTL DEF Spec

(***************************************************************************)
(* Every variable has its type.                                            *)
(***************************************************************************)
THEOREM TypeCorrect == Spec => []TypeOK
BY Inductive, PTL DEF IInv

(***************************************************************************)
(* A process that returns from run has closed what New created, also when  *)
(* New returns early: each call of shutdownStartup is given all that is    *)
(* open by then.                                                           *)
(***************************************************************************)
THEOREM EverythingClosed == Spec => []CleanupComplete
BY Inductive, PTL DEF IInv

(***************************************************************************)
(* No client that waits is cut off before the drain ran into its timeout.  *)
(***************************************************************************)
THEOREM NobodyCutOff == Spec => []NotCutOff
BY Inductive, PTL DEF IInv

(***************************************************************************)
(* Exit code 0 means that everybody was answered.                          *)
(***************************************************************************)
THEOREM CleanExit == Spec => []CleanExitAnswersAll
<1>1. IInv => CleanExitAnswersAll
  BY DEF IInv, WaitedOK, ResultOK, CleanExitAnswersAll
<1> QED
  BY Inductive, <1>1, PTL

(***************************************************************************)
(* No request is handed a client that is nil, or was closed at startup.    *)
(***************************************************************************)
THEOREM ServesOpen == Spec => []ServesWithOpenClients
<1>1. IInv => ServesWithOpenClients
  BY DEF IInv, WiredOK, ServesWithOpenClients
<1> QED
  BY Inductive, <1>1, PTL

(***************************************************************************)
(* In prod users and refresh tokens are in postgres.                       *)
(***************************************************************************)
THEOREM ProdDurable == Spec => []ProdIsDurable
<1>1. IInv => ProdIsDurable
  BY DEF IInv, ProdOK, ProdIsDurable
<1> QED
  BY Inductive, <1>1, PTL

(***************************************************************************)
(* Readiness asks for all that requests need, but an optional redis.       *)
(***************************************************************************)
THEOREM ReadyIsReachable == Spec => []ReadyMeansReachable
<1>1. IInv => ReadyMeansReachable
  BY DEF IInv, WiredOK, ReadyMeansReachable, Ready
<1> QED
  BY Inductive, <1>1, PTL
=============================================================================
