----------------------- MODULE FrontendSessionProofs -----------------------
(***************************************************************************)
(* Proofs about a tab and the middleware around the API, for every set of  *)
(* requests and any number of logins.                                      *)
(***************************************************************************)
EXTENDS FrontendSession, TLAPS

-----------------------------------------------------------------------------
(* The inductive invariant                                                 *)

\* The connection has the headers of the origin from the time CORS has run, and
\* the buffer of Timeout never has them.
OriginWritten(q) == q.allow = IF q.origin = "allowed" THEN {"connection"} ELSE {}

\* A request that waits was not answered yet, and what its chain has answered
\* was counted; one that was answered has its line in the log.
RequestOK(q) ==
  /\ q \in Request
  /\ q.pc = "idle" => q = NoRequest
  /\ q.pc # "idle" => OriginWritten(q)
  /\ q.pc = "waiting" => /\ q.lines = 0 /\ q.chain \in {"running", "answered", "panicked"}
                         /\ q.chain = "answered" => q.reply \in FromHandler /\ q.counted = 1
  /\ q.pc = "answered" => /\ q.lines = 1 /\ q.status # "none"
                          /\ q.status \in FromHandler => q.counted = 1

HttpOK == http \in [Requests -> Request] /\ \A r \in Requests : RequestOK(http[r])

Awaits(r, ask) == awaits[r].stage # "none" /\ awaits[r].ask = ask

\* The form is submitted once, and by a tab that nobody is signed in to.
LoginOK ==
  /\ \A r \in Requests : Awaits(r, Login) => tab.access = NoToken /\ tab.submitting
  /\ \A r, q \in Requests : Awaits(r, Login) /\ Awaits(q, Login) => r = q

\* The profiles in the cache are those of the user who is signed in.
OwnProfileOnly == \A t \in Tokens : tab.query[t] # NoQuery => t = tab.access

\* A token that was refused was issued, and is not the one the tab holds.
RefusedOK ==
  /\ tab.access \in 0 .. issued /\ stored \in 0 .. issued
  /\ refused \subseteq 1 .. issued
  /\ tab.access \notin refused

IInv == TypeOK /\ HttpOK /\ LoginOK /\ OwnProfileOnly /\ RefusedOK

-----------------------------------------------------------------------------
(* A request, from its arrival to its answer                               *)

LEMMA NoRequestOK == RequestOK(NoRequest)
BY ShellConstants DEF RequestOK, NoRequest, Request, Codes, FromHandler, Origins, Bodies, Writers

\* Whatever is sent, it is sent once and logged, with the headers of its origin.
LEMMA SentOK ==
  ASSUME NEW q \in Request, q.lines = 0, OriginWritten(q),
         NEW code \in Codes \ {"none"}, code \in FromHandler => q.counted = 1
  PROVE  RequestOK(Sent(q, code))
<1> DEFINE s == [q EXCEPT !.pc = "answered", !.status = code, !.lines = 1,
                          !.reply = "none", !.body = "fits", !.ask = NoAsk]
<1>1. s = Sent(q, code)
  BY SMT DEF Sent, Lines
<1>2. /\ s.pc = "answered" /\ s.status = code /\ s.lines = 1 /\ s.counted = q.counted
      /\ s.origin = q.origin /\ s.allow = q.allow
  BY Zenon DEF Request
<1>3. s \in Request
  <2>1. code \in Codes /\ "none" \in Codes /\ "fits" \in Bodies
    BY DEF Codes, Bodies
  <2>2. 1 \in 0 .. 2
    BY SMT
  <2> QED
    BY <2>1, <2>2, ShellConstants, Zenon DEF Request
<1> HIDE DEF s
<1>4. RequestOK(s)
  BY <1>2, <1>3, Zenon DEF RequestOK, OriginWritten
<1> QED
  BY <1>1, <1>4

\* What CORS finds is the connection, and it leaves the headers of the origin there.
LEMMA CORSWrites ==
  ASSUME NEW q \in Request, q.lines = 0, q.pc = "idle", q.chain = "none", q.allow = {}
  PROVE  /\ AllowOrigin(q) \in Request /\ OriginWritten(AllowOrigin(q))
         /\ AllowOrigin(q).lines = 0 /\ AllowOrigin(q).pc = "idle"
<1>1. CASE q.origin = "allowed"
  <2> DEFINE a == [q EXCEPT !.allow = q.allow \cup {"connection"}]
  <2>1. AllowOrigin(q) = a
    BY <1>1, SMT DEF AllowOrigin, Writer
  <2>2. {"connection"} \in SUBSET Writers
    BY DEF Writers
  <2>3. /\ a \in Request /\ a.allow = {"connection"}
        /\ a.lines = 0 /\ a.pc = "idle" /\ a.origin = q.origin
    BY <2>2, SMT DEF Request
  <2> QED
    BY <1>1, <2>1, <2>3 DEF OriginWritten
<1>2. CASE q.origin # "allowed"
  BY <1>2 DEF AllowOrigin, OriginWritten
<1> QED
  BY <1>1, <1>2

\* CORS and BodyLimit answer by themselves or let the request wait.
LEMMA ServeOK ==
  ASSUME NEW q \in Request, q.lines = 0, q.pc = "idle", q.chain = "none", q.allow = {},
         NEW isPreflight \in BOOLEAN
  PROVE  RequestOK(ServeHTTP(q, isPreflight))
<1> DEFINE a == AllowOrigin(q)
<1>1. a \in Request /\ OriginWritten(a) /\ a.lines = 0 /\ a.pc = "idle"
  BY CORSWrites
<1> HIDE DEF a
<1>2. CASE isPreflight
  <2> DEFINE code == IF a.origin = "allowed" THEN "preflight" ELSE "forbidden"
  <2>1. code \in Codes \ {"none"} /\ code \notin FromHandler
    BY SMT DEF Codes, FromHandler
  <2> HIDE DEF code
  <2>2. RequestOK(Sent(a, code)) /\ Sent(a, code).pc = "answered"
    <3>1. RequestOK(Sent(a, code))
      BY <1>1, <2>1, SentOK
    <3> QED
      BY <1>1, <3>1, Zenon DEF Sent, Request
  <2>3. CORS(q, isPreflight) = Sent(a, code)
    BY <1>2 DEF CORS, Preflight, code, a
  <2> QED
    BY <2>2, <2>3 DEF ServeHTTP, BodyLimit, RunInside
<1>3. CASE ~isPreflight
  <2>1. CORS(q, isPreflight) = a
    BY <1>3 DEF CORS, a
  <2>2. CASE a.body = "declared"
    <3>1. "too large" \in Codes \ {"none"} /\ "too large" \notin FromHandler
      BY DEF Codes, FromHandler
    <3>2. RequestOK(Sent(a, "too large"))
      BY <1>1, <3>1, SentOK
    <3>3. Sent(a, "too large").pc = "answered"
      BY <1>1, Zenon DEF Sent, Request
    <3> QED
      BY <1>1, <2>1, <2>2, <3>2, <3>3 DEF ServeHTTP, BodyLimit, RunInside
  <2>3. CASE a.body # "declared"
    <3> DEFINE w == [a EXCEPT !.pc = "waiting", !.chain = "running"]
    <3>1. /\ w \in Request /\ w.pc = "waiting" /\ w.chain = "running" /\ w.lines = 0
          /\ w.allow = a.allow /\ w.origin = a.origin
      BY <1>1, Zenon DEF Request
    <3>2. ServeHTTP(q, isPreflight) = w
      BY <1>1, <2>1, <2>3 DEF ServeHTTP, BodyLimit, RunInside
    <3> HIDE DEF w
    <3> QED
      BY <1>1, <3>1, <3>2, SMT DEF RequestOK, OriginWritten
  <2> QED
    BY <2>2, <2>3
<1> QED
  BY <1>2, <1>3

LEMMA NewRequest ==
  /\ NoRequest \in Request /\ NoRequest.lines = 0 /\ NoRequest.pc = "idle"
  /\ NoRequest.chain = "none" /\ NoRequest.allow = {}
BY NoRequestOK DEF RequestOK, NoRequest

\* A step that moves one request keeps the others as they are.
LEMMA OneRequestMoves ==
  ASSUME HttpOK, NEW r \in Requests, NEW q, RequestOK(q), http' = [http EXCEPT ![r] = q]
  PROVE  HttpOK'
BY DEF HttpOK, RequestOK

LEMMA ArriveOK ==
  ASSUME HttpOK, NEW r \in Requests, NEW ask \in Asks, NEW origin \in Origins,
         NEW body \in Bodies, NEW isPreflight \in BOOLEAN,
         Arrive(r, ask, origin, body, isPreflight)
  PROVE  HttpOK'
<1> DEFINE q == [NoRequest EXCEPT !.ask = ask, !.origin = origin, !.body = body]
<1>1. q \in Request /\ q.lines = 0 /\ q.pc = "idle" /\ q.chain = "none" /\ q.allow = {}
  BY NewRequest, Zenon DEF Request
<1>2. http' = [http EXCEPT ![r] = ServeHTTP(q, isPreflight)]
  BY DEF Arrive
<1> HIDE DEF q
<1> QED
  BY <1>1, <1>2, ServeOK, OneRequestMoves

\* The chain may answer or panic before the deadline or after it.
LEMMA ReplyOK ==
  ASSUME HttpOK, NEW r \in Requests, NEW code \in FromHandler, Reply(r, code)
  PROVE  HttpOK'
<1> DEFINE q == http[r]
           heard == IF q.pc = "waiting" THEN code ELSE "none"
           s == [q EXCEPT !.chain = "answered", !.counted = 1, !.reply = heard]
<1>1. RequestOK(q) /\ q \in Request /\ q.chain = "running"
  BY DEF HttpOK, RequestOK, Reply
<1>2. q.pc # "idle"
  BY <1>1 DEF RequestOK, NoRequest
<1>3. http' = [http EXCEPT ![r] = s]
  BY Zenon DEF Reply
<1>4. heard \in Codes /\ (q.pc = "waiting" => heard \in FromHandler)
  <2>1. FromHandler \subseteq Codes /\ "none" \in Codes
    BY DEF Codes, FromHandler
  <2> QED
    BY <2>1
<1> HIDE DEF heard, q
<1>5. /\ s \in Request /\ s.pc = q.pc /\ s.chain = "answered" /\ s.counted = 1
      /\ s.reply = heard /\ s.lines = q.lines /\ s.status = q.status
      /\ s.allow = q.allow /\ s.origin = q.origin
  <2>1. 1 \in 0 .. 1
    BY SMT
  <2> QED
    BY <1>1, <1>4, <2>1, Zenon DEF Request
<1> HIDE DEF s
<1>6. RequestOK(s)
  BY <1>1, <1>2, <1>4, <1>5, Zenon DEF RequestOK, OriginWritten
<1> QED
  BY <1>3, <1>6, OneRequestMoves

LEMMA PanicOK ==
  ASSUME HttpOK, NEW r \in Requests, Panic(r)
  PROVE  HttpOK'
<1> DEFINE q == http[r]
           s == [q EXCEPT !.chain = "panicked"]
<1>1. RequestOK(q) /\ q.chain = "running" /\ q.pc # "idle"
  BY SMT DEF HttpOK, RequestOK, Panic, NoRequest
<1>2. http' = [http EXCEPT ![r] = s]
  BY SMT DEF HttpOK, Panic
<1> HIDE DEF q
<1>3. RequestOK(s)
  BY <1>1, SMT DEF RequestOK, Request, OriginWritten
<1> QED
  BY <1>2, <1>3, OneRequestMoves

\* The first of an answer, a panic and the deadline is what is sent.
LEMMA OuterOK ==
  ASSUME HttpOK, NEW r \in Requests, Finish(r) \/ Recovery(r) \/ Timeout(r)
  PROVE  HttpOK'
<1> DEFINE q == http[r]
           over == [q EXCEPT !.chain = "over"]
<1>1. RequestOK(q) /\ q.pc = "waiting" /\ q \in Request /\ q.lines = 0 /\ OriginWritten(q)
  BY DEF HttpOK, RequestOK, Finish, Recovery, Timeout
<1>2. /\ over \in Request /\ over.lines = 0 /\ over.counted = q.counted
      /\ over.allow = q.allow /\ over.origin = q.origin
  BY <1>1, Zenon DEF Request
<1>3. OriginWritten(over)
  BY <1>1, <1>2 DEF OriginWritten
<1>4. CASE Finish(r)
  <2>1. q.reply \in FromHandler /\ q.counted = 1
    BY <1>1, <1>4 DEF Finish, RequestOK
  <2>2. http' = [http EXCEPT ![r] = Sent(over, q.reply)]
    <3>1. Merged(over) = over
      <4>1. (IF "buffer" \in over.allow THEN Writers ELSE over.allow) = over.allow
        BY <1>3 DEF OriginWritten
      <4> HIDE DEF over
      <4>2. Merged(over) = [over EXCEPT !.allow = over.allow]
        BY <4>1, Zenon DEF Merged
      <4> QED
        BY <1>2, <4>2, Zenon DEF Request
    <3>2. http' = [http EXCEPT ![r] = Sent(Merged(over), q.reply)]
      BY <1>4 DEF Finish
    <3> QED
      BY <3>1, <3>2
  <2> HIDE DEF q, over
  <2>3. RequestOK(Sent(over, q.reply))
    BY <1>2, <1>3, <2>1, SentOK DEF Codes, FromHandler
  <2> QED
    BY <2>2, <2>3, OneRequestMoves
<1>5. CASE Recovery(r)
  <2>1. http' = [http EXCEPT ![r] = Sent(over, "panic")]
    BY <1>5 DEF Recovery
  <2> HIDE DEF q, over
  <2>2. RequestOK(Sent(over, "panic"))
    BY <1>2, <1>3, SentOK DEF Codes, FromHandler
  <2> QED
    BY <2>1, <2>2, OneRequestMoves
<1>6. CASE Timeout(r)
  <2>1. http' = [http EXCEPT ![r] = Sent(q, "timeout")]
    BY <1>6 DEF Timeout
  <2> HIDE DEF q, over
  <2>2. RequestOK(Sent(q, "timeout"))
    BY <1>1, SentOK DEF Codes, FromHandler
  <2> QED
    BY <2>1, <2>2, OneRequestMoves
<1> QED
  BY <1>4, <1>5, <1>6

LEMMA DoneOK ==
  ASSUME HttpOK, NEW r \in Requests, Done(r)
  PROVE  HttpOK'
BY NoRequestOK, OneRequestMoves DEF Done

-----------------------------------------------------------------------------
(* What the tab waits for                                                  *)

LEMMA AsksTyped ==
  /\ Asks = TabAsks /\ Login \in TabAsks /\ Other \in TabAsks /\ Other # Login
  /\ \A t \in Tokens : Me(t) \in TabAsks /\ Me(t) # Login
BY TabConstants, Zenon DEF TabAsks, Login, Other, Me

\* A fetch occupies its request, and asks what it is for.
LEMMA FetchKeeps ==
  ASSUME IInv, NEW r \in Requests, NEW ask \in TabAsks, Fetch(r, ask)
  PROVE  /\ HttpOK' /\ awaits' \in [Requests -> Await]
         /\ \A q \in Requests, a \in TabAsks :
              Awaits(q, a)' => (IF q = r THEN a = ask ELSE Awaits(q, a))
<1>1. PICK stage \in {"preflight", "request"} :
        /\ Arrive(r, ask, "allowed", "fits", stage = "preflight")
        /\ awaits' = [awaits EXCEPT ![r] = [stage |-> stage, ask |-> ask]]
  BY DEF Fetch
<1>2. awaits \in [Requests -> Await]
  BY DEF IInv, TypeOK
<1>3. HttpOK'
  <2>1. "allowed" \in Origins /\ "fits" \in Bodies /\ (stage = "preflight") \in BOOLEAN
    BY DEF Origins, Bodies
  <2> QED
    BY <1>1, <2>1, AsksTyped, ArriveOK DEF IInv
<1>4. awaits' \in [Requests -> Await]
  BY <1>1, <1>2, SMT DEF Await
<1>5. ASSUME NEW q \in Requests, NEW a \in TabAsks, Awaits(q, a)'
      PROVE  IF q = r THEN a = ask ELSE Awaits(q, a)
  BY <1>1, <1>2, <1>5, SMT DEF Awaits
<1> QED
  BY <1>3, <1>4, <1>5

\* What has settled is not waited for any more.
LEMMA SettledKeeps ==
  ASSUME IInv, NEW r \in Requests, NEW ask \in TabAsks, NEW answer, Settled(r, ask, answer)
  PROVE  /\ Awaits(r, ask) /\ awaits' \in [Requests -> Await]
         /\ \A q \in Requests, a \in TabAsks : Awaits(q, a)' => Awaits(q, a) /\ q # r
<1>1. awaits \in [Requests -> Await] /\ awaits' = [awaits EXCEPT ![r] = Nothing]
  BY DEF IInv, TypeOK, Settled
<1>2. awaits' \in [Requests -> Await]
  BY <1>1, AsksTyped, SMT DEF Await, Nothing
<1>3. \A q \in Requests, a \in TabAsks : Awaits(q, a)' => Awaits(q, a) /\ q # r
  BY <1>1, SMT DEF Awaits, Nothing
<1> QED
  BY <1>2, <1>3 DEF Settled, Awaits

-----------------------------------------------------------------------------
(* The types of the tab                                                    *)

LEMMA Numbers ==
  /\ MaxLogins \in Nat /\ NoToken = 0 /\ NoToken \notin Tokens
  /\ \A n \in Nat : n <= MaxLogins => 0 .. n \subseteq Held /\ 1 .. n \subseteq Tokens
BY TabConstants, SMT DEF Tokens, Held, NoToken

LEMMA NoQueryTyped == NoQuery \in Query
<1>1. 0 \in 0 .. 1
  BY SMT
<1> QED
  BY <1>1, Zenon DEF NoQuery, Query

LEMMA NewTabTyped ==
  ASSUME NEW t \in Held
  PROVE  /\ NewTab(t) \in Tab /\ NewTab(t).access = t /\ NewTab(t).submitting = FALSE
         /\ \A u \in Tokens : NewTab(t).query[u] = NoQuery
BY NoQueryTyped, Zenon DEF NewTab, Tab

LEMMA TabFields ==
  ASSUME IInv
  PROVE  /\ tab.access \in Held /\ tab.submitting \in BOOLEAN /\ tab.query \in [Tokens -> Query]
         /\ tab \in Tab
BY Zenon DEF IInv, TypeOK, Tab

LEMMA SignedOutTyped ==
  ASSUME IInv
  PROVE  /\ SignedOut \in Tab /\ SignedOut.access = NoToken
         /\ SignedOut.submitting = tab.submitting
         /\ \A t \in Tokens : SignedOut.query[t] = NoQuery
<1>1. NoToken \in Held
  BY DEF Held
<1> QED
  BY <1>1, TabFields, NoQueryTyped, Zenon DEF SignedOut, Tab

LEMMA QueryMoves ==
  ASSUME IInv, NEW t \in Tokens, NEW q \in Query, tab' = [tab EXCEPT !.query[t] = q]
  PROVE  /\ tab' \in Tab /\ tab'.access = tab.access /\ tab'.submitting = tab.submitting
         /\ \A u \in Tokens : tab'.query[u] = IF u = t THEN q ELSE tab.query[u]
<1>1. tab'.query = [tab.query EXCEPT ![t] = q] /\ tab'.access = tab.access
      /\ tab'.submitting = tab.submitting
  BY TabFields, Zenon DEF Tab
<1>2. tab' \in Tab
  BY TabFields, Zenon DEF Tab
<1> QED
  BY <1>1, <1>2, TabFields, SMT

-----------------------------------------------------------------------------
(* The steps of the server, and of the browser                             *)

LEMMA ServerKeeps ==
  ASSUME IInv, HttpOK', UNCHANGED <<tab, stored, awaits, issued, refused>>,
         expired' \subseteq Tokens
  PROVE  IInv'
BY DEF IInv, TypeOK, HttpOK, LoginOK, Awaits, OwnProfileOnly, RefusedOK

LEMMA ServeKeeps ==
  ASSUME IInv, NEW r \in Requests, Serve(r)
  PROVE  IInv'
<1>1. HttpOK'
  <2>1. \A ask : Answerable(ask) \subseteq FromHandler
    BY DEF Answerable
  <2> QED
    BY <2>1, ReplyOK, PanicOK DEF Serve, IInv
<1> QED
  BY <1>1, ServerKeeps DEF Serve, IInv, TypeOK

LEMMA OuterKeeps ==
  ASSUME IInv, NEW r \in Requests, Outer(r)
  PROVE  IInv'
BY OuterOK, ServerKeeps DEF Outer, IInv, TypeOK

LEMMA FreeKeeps ==
  ASSUME IInv, NEW r \in Requests, Free(r)
  PROVE  IInv'
BY DoneOK, ServerKeeps DEF Free, IInv, TypeOK

LEMMA StrangerKeeps ==
  ASSUME IInv, NEW r \in Requests, Stranger(r)
  PROVE  IInv'
<1>1. HttpOK'
  BY AsksTyped, ArriveOK DEF Stranger, IInv
<1> QED
  BY <1>1, ServerKeeps DEF Stranger, IInv, TypeOK

LEMMA ExpireKeeps ==
  ASSUME IInv, NEW t \in Tokens, Expire(t)
  PROVE  IInv'
<1>1. HttpOK'
  BY DEF Expire, IInv, HttpOK
<1> QED
  BY <1>1, ServerKeeps DEF Expire, IInv, TypeOK

\* The request that follows its preflight asks the same.
LEMMA FollowKeeps ==
  ASSUME IInv, NEW r \in Requests, Follow(r)
  PROVE  IInv'
<1>1. awaits \in [Requests -> Await] /\ awaits' = [awaits EXCEPT ![r].stage = "request"]
      /\ awaits[r].stage = "preflight"
  BY DEF IInv, TypeOK, Follow
<1>2. awaits' \in [Requests -> Await]
  BY <1>1, SMT DEF Await
<1>3. \A q \in Requests, a \in TabAsks : Awaits(q, a)' => Awaits(q, a)
  BY <1>1, SMT DEF Awaits, Await
<1>4. HttpOK'
  <2> DEFINE q == [NoRequest EXCEPT !.ask = awaits[r].ask, !.origin = "allowed"]
  <2>1. awaits[r].ask \in Asks /\ "allowed" \in Origins
    BY <1>1, AsksTyped DEF Await, Origins
  <2>2. q \in Request /\ q.lines = 0 /\ q.pc = "idle" /\ q.chain = "none" /\ q.allow = {}
    BY <2>1, NewRequest, Zenon DEF Request
  <2>3. http' = [http EXCEPT ![r] = ServeHTTP(q, FALSE)]
    BY DEF Follow
  <2> HIDE DEF q
  <2> QED
    BY <2>2, <2>3, ServeOK, OneRequestMoves DEF IInv
<1> QED
  BY <1>2, <1>3, <1>4, AsksTyped
     DEF Follow, IInv, TypeOK, HttpOK, LoginOK, OwnProfileOnly, RefusedOK

-----------------------------------------------------------------------------
(* LoginPage                                                               *)

LEMMA SubmitKeeps ==
  ASSUME IInv, NEW r \in Requests, Submit(r)
  PROVE  IInv'
<1>1. /\ HttpOK' /\ awaits' \in [Requests -> Await]
      /\ \A q \in Requests, a \in TabAsks :
           Awaits(q, a)' => (IF q = r THEN a = Login ELSE Awaits(q, a))
  BY AsksTyped, FetchKeeps DEF Submit
<1>2. /\ tab' \in Tab /\ tab'.access = tab.access /\ tab'.submitting = TRUE
      /\ tab'.query = tab.query
  BY TabFields, Zenon DEF Submit, Tab
<1>3. LoginOK'
  BY <1>1, <1>2, AsksTyped DEF Submit, IInv, LoginOK
<1> QED
  BY <1>1, <1>2, <1>3 DEF Submit, IInv, TypeOK, HttpOK, OwnProfileOnly, RefusedOK

LEMMA completeLoginKeeps ==
  ASSUME IInv, NEW r \in Requests, completeLogin(r)
  PROVE  IInv'
<1>1. /\ Awaits(r, Login) /\ awaits' \in [Requests -> Await]
      /\ \A q \in Requests, a \in TabAsks : Awaits(q, a)' => Awaits(q, a) /\ q # r
  BY AsksTyped, SettledKeeps DEF completeLogin
<1>2. tab.access = NoToken /\ \A q \in Requests : Awaits(q, Login) => q = r
  BY <1>1 DEF IInv, LoginOK
<1>3. issued \in 0 .. MaxLogins /\ issued < MaxLogins /\ issued' = issued + 1
  BY DEF completeLogin, IInv, TypeOK
<1>4. issued' \in Tokens /\ issued' \in 0 .. MaxLogins /\ issued' \in Held
      /\ 0 .. issued \subseteq 0 .. issued' /\ issued' \in 0 .. issued'
      /\ 1 .. issued \subseteq 1 .. issued' /\ issued' \notin 1 .. issued
  BY <1>3, Numbers, SMT DEF Tokens, Held
<1>5. /\ tab' \in Tab /\ tab'.access = issued' /\ tab'.query = tab.query
  BY <1>4, TabFields, Zenon DEF completeLogin, Tab
<1>6. LoginOK'
  BY <1>1, <1>2, AsksTyped DEF LoginOK
<1>7. OwnProfileOnly'
  BY <1>2, <1>5, Numbers DEF IInv, OwnProfileOnly
<1>8. RefusedOK'
  BY <1>4, <1>5 DEF completeLogin, IInv, RefusedOK
<1> QED
  BY <1>1, <1>4, <1>5, <1>6, <1>7, <1>8 DEF completeLogin, IInv, TypeOK, HttpOK

LEMMA LoginFailsKeeps ==
  ASSUME IInv, NEW r \in Requests, LoginFails(r)
  PROVE  IInv'
<1>1. /\ Awaits(r, Login) /\ awaits' \in [Requests -> Await]
      /\ \A q \in Requests, a \in TabAsks : Awaits(q, a)' => Awaits(q, a) /\ q # r
  BY AsksTyped, SettledKeeps DEF LoginFails
<1>2. \A q \in Requests : Awaits(q, Login) => q = r
  BY <1>1 DEF IInv, LoginOK
<1>3. /\ tab' \in Tab /\ tab'.access = tab.access /\ tab'.query = tab.query
  BY TabFields, Zenon DEF LoginFails, Tab
<1>4. LoginOK'
  BY <1>1, <1>2, AsksTyped DEF LoginOK
<1> QED
  BY <1>1, <1>3, <1>4 DEF LoginFails, IInv, TypeOK, HttpOK, OwnProfileOnly, RefusedOK

-----------------------------------------------------------------------------
(* MePage and App                                                          *)

\* However the user comes to be signed out, nothing of the session is left.
LEMMA signOutKeeps ==
  ASSUME IInv, signOut, awaits' \in [Requests -> Await],
         \A q \in Requests : Awaits(q, Login)' => Awaits(q, Login),
         refused' \subseteq 1 .. issued,
         UNCHANGED <<http, issued, expired>>
  PROVE  IInv'
<1>1. /\ tab' \in Tab /\ tab'.access = NoToken /\ tab'.submitting = tab.submitting
      /\ \A t \in Tokens : tab'.query[t] = NoQuery
  BY SignedOutTyped DEF signOut
<1>2. issued \in 0 .. MaxLogins /\ stored \in 0 .. issued
  BY DEF IInv, TypeOK, RefusedOK
<1>3. NoToken \in 0 .. issued /\ NoToken \notin 1 .. issued /\ NoToken \in Held
      /\ 1 .. issued \subseteq Tokens
  BY <1>2, Numbers, SMT DEF Held, Tokens
<1>4. LoginOK'
  BY <1>1 DEF IInv, LoginOK
<1>5. OwnProfileOnly'
  BY <1>1 DEF OwnProfileOnly
<1>6. RefusedOK'
  BY <1>1, <1>2, <1>3 DEF RefusedOK, signOut
<1>7. TypeOK'
  BY <1>1, <1>3 DEF IInv, TypeOK, signOut
<1> QED
  BY <1>4, <1>5, <1>6, <1>7 DEF IInv, HttpOK

LEMMA SignOutKeeps ==
  ASSUME IInv, SignOut
  PROVE  IInv'
BY signOutKeeps DEF SignOut, Awaits, IInv, TypeOK, RefusedOK

LEMMA LoadProfileKeeps ==
  ASSUME IInv, NEW r \in Requests, LoadProfile(r)
  PROVE  IInv'
<1> DEFINE t == tab.access
           n == IF Current.state = "retrying" THEN 1 ELSE 0
<1>1. t \in Tokens
  BY TabFields, Numbers DEF LoadProfile, Held
<1>2. /\ HttpOK' /\ awaits' \in [Requests -> Await]
      /\ \A s \in Requests, a \in TabAsks :
           Awaits(s, a)' => (IF s = r THEN a = Me(t) ELSE Awaits(s, a))
  BY <1>1, AsksTyped, FetchKeeps DEF LoadProfile
<1>3. n \in 0 .. 1
  BY SMT
<1> HIDE DEF n
<1>4. /\ tab'.query = [[tab.query EXCEPT ![t].state = "fetching"] EXCEPT ![t].failures = n]
      /\ tab'.access = t /\ tab'.submitting = tab.submitting
      /\ tab' = [tab EXCEPT !.query = tab'.query]
  BY TabFields, Zenon DEF LoadProfile, Tab, n
<1>5. /\ tab' \in Tab
      /\ \A u \in Tokens : u # t => tab'.query[u] = tab.query[u]
  <2> HIDE DEF t
  <2>1. [tab.query EXCEPT ![t].state = "fetching"] \in [Tokens -> Query]
    BY TabFields, Zenon DEF Query
  <2>2. tab'.query \in [Tokens -> Query]
    <3> DEFINE f == [tab.query EXCEPT ![t].state = "fetching"]
    <3>1. [f EXCEPT ![t].failures = n] \in [Tokens -> Query]
      <4> HIDE DEF f
      <4> QED
        BY <1>3, <2>1, Zenon DEF Query, f
    <3> QED
      BY <1>4, <3>1
  <2>3. tab' \in Tab
    BY <1>4, <2>2, TabFields, Zenon DEF Tab
  <2> QED
    BY <1>4, <2>3, TabFields, SMT
<1>6. LoginOK'
  BY <1>1, <1>2, <1>4, AsksTyped DEF IInv, LoginOK
<1>7. OwnProfileOnly'
  BY <1>4, <1>5 DEF IInv, OwnProfileOnly
<1> QED
  BY <1>2, <1>4, <1>5, <1>6, <1>7 DEF LoadProfile, IInv, TypeOK, HttpOK, RefusedOK

\* A query that hears its answer is the one of the user who is signed in.
LEMMA HeardIsCurrent ==
  ASSUME IInv, NEW t \in Tokens, Hears(t)
  PROVE  t = tab.access
BY DEF IInv, OwnProfileOnly, Hears, NoQuery

\* An answer that moves one query, or none.
LEMMA AnswerKeeps ==
  ASSUME IInv, NEW r \in Requests, NEW t \in Tokens, NEW answer, Settled(r, Me(t), answer),
         UNCHANGED <<http, stored, issued, expired, refused>>,
         \/ UNCHANGED tab
         \/ Hears(t) /\ \E q \in Query : tab' = [tab EXCEPT !.query[t] = q]
  PROVE  IInv'
<1>1. /\ awaits' \in [Requests -> Await]
      /\ \A q \in Requests : Awaits(q, Login)' => Awaits(q, Login)
  BY AsksTyped, SettledKeeps
<1>2. /\ tab' \in Tab /\ tab'.access = tab.access /\ tab'.submitting = tab.submitting
      /\ \A u \in Tokens : tab'.query[u] = tab.query[u] \/ u = tab.access
  BY TabFields, QueryMoves, HeardIsCurrent
<1>3. LoginOK'
  BY <1>1, <1>2 DEF IInv, LoginOK
<1>4. OwnProfileOnly'
  BY <1>2 DEF IInv, OwnProfileOnly
<1> QED
  BY <1>1, <1>2, <1>3, <1>4 DEF IInv, TypeOK, HttpOK, RefusedOK

LEMMA ProfileLoadedKeeps ==
  ASSUME IInv, NEW r \in Requests, NEW t \in Tokens, ProfileLoaded(r, t)
  PROVE  IInv'
<1>1. [state |-> "loaded", failures |-> 0] \in Query
  BY SMT DEF Query
<1> QED
  BY <1>1, AnswerKeeps DEF ProfileLoaded

LEMMA ProfileFailsKeeps ==
  ASSUME IInv, NEW r \in Requests, NEW t \in Tokens, NEW answer \in Answers \ {"ok"},
         ProfileFails(r, t, answer)
  PROVE  IInv'
<1>1. [state |-> "failed", failures |-> 0] \in Query
  BY SMT DEF Query
<1>2. tab.query[t] \in Query
  BY TabFields
<1>3. CASE ~Hears(t)
  BY <1>3, AnswerKeeps DEF ProfileFails
<1>4. CASE Hears(t) /\ answer # "unauthorized"
  <2>1. refused' = refused /\ UNCHANGED <<http, stored, issued, expired>>
    BY <1>4 DEF ProfileFails
  <2>2. \E q \in Query : tab' = [tab EXCEPT !.query[t] = q]
    <3>1. CASE tab' = [tab EXCEPT !.query[t] = [state |-> "failed", failures |-> 0]]
      BY <1>1, <3>1
    <3>2. CASE tab' = [tab EXCEPT !.query[t].state = "retrying"]
      <4> DEFINE q == [tab.query[t] EXCEPT !.state = "retrying"]
      <4>1. q \in Query
        BY <1>2, SMT DEF Query
      <4>2. tab' = [tab EXCEPT !.query[t] = q]
        BY <3>2, TabFields, SMT DEF Tab
      <4> QED
        BY <4>1, <4>2
    <3> QED
      BY <1>4, <3>1, <3>2 DEF ProfileFails
  <2> QED
    BY <1>4, <2>1, <2>2, AnswerKeeps DEF ProfileFails
<1>5. CASE Hears(t) /\ answer = "unauthorized"
  <2>1. signOut /\ refused' = refused \cup {t} /\ UNCHANGED <<http, issued, expired>>
    BY <1>5 DEF ProfileFails, Retries
  <2>2. t \in 1 .. issued
    <3>1. t = tab.access /\ t # NoToken /\ t \in 0 .. issued
      BY <1>5, HeardIsCurrent, Numbers DEF IInv, RefusedOK
    <3>2. issued \in 0 .. MaxLogins
      BY DEF IInv, TypeOK
    <3> QED
      BY <3>1, <3>2, Numbers, SMT
  <2>3. refused' \subseteq 1 .. issued
    BY <2>1, <2>2 DEF IInv, RefusedOK
  <2>4. /\ awaits' \in [Requests -> Await]
        /\ \A q \in Requests : Awaits(q, Login)' => Awaits(q, Login)
    BY AsksTyped, SettledKeeps DEF ProfileFails
  <2> QED
    BY <2>1, <2>3, <2>4, signOutKeeps
<1> QED
  BY <1>3, <1>4, <1>5

\* The page that is loaded again knows what sessionStorage knows, or nothing.
LEMMA ReloadKeeps ==
  ASSUME IInv, Reload
  PROVE  IInv'
<1>1. issued \in 0 .. MaxLogins /\ stored \in 0 .. issued /\ stored \in Held
  BY DEF IInv, TypeOK, RefusedOK
<1>2. NoToken \in 0 .. issued /\ NoToken \in Held
  BY <1>1, Numbers, SMT DEF Held
<1>3. /\ tab' \in Tab /\ tab'.access \in 0 .. issued
      /\ \A t \in Tokens : tab'.query[t] = NoQuery
  <2>1. PICK t \in {stored, NoToken} : tab' = NewTab(t)
    BY DEF Reload
  <2>2. t \in Held /\ t \in 0 .. issued
    BY <1>1, <1>2
  <2> QED
    BY <2>1, <2>2, NewTabTyped
<1>4. awaits' \in [Requests -> Await] /\ \A r \in Requests : ~Awaits(r, Login)'
  BY AsksTyped, SMT DEF Reload, Await, Nothing, Awaits
<1> QED
  BY <1>1, <1>3, <1>4 DEF Reload, IInv, TypeOK, HttpOK, LoginOK, OwnProfileOnly, RefusedOK

-----------------------------------------------------------------------------
(* The theorems                                                            *)

LEMMA InitHolds == Init => IInv
<1> SUFFICES ASSUME Init PROVE IInv
  OBVIOUS
<1>1. HttpOK
  BY NoRequestOK DEF Init, HttpOK, RequestOK
<1>2. NoToken \in Held /\ NoToken \in 0 .. issued /\ issued \in 0 .. MaxLogins
  BY Numbers, SMT DEF Init, Held
<1>3. /\ tab \in Tab /\ tab.access = NoToken
      /\ \A t \in Tokens : tab.query[t] = NoQuery
  BY <1>2, NewTabTyped DEF Init
<1>4. awaits \in [Requests -> Await] /\ \A r \in Requests : ~Awaits(r, Login)
  BY AsksTyped, SMT DEF Init, Await, Nothing, Awaits
<1>5. TypeOK
  BY <1>1, <1>2, <1>3, <1>4 DEF Init, TypeOK, HttpOK
<1>6. LoginOK /\ OwnProfileOnly
  BY <1>3, <1>4 DEF LoginOK, OwnProfileOnly
<1>7. RefusedOK
  BY <1>2, <1>3 DEF Init, RefusedOK
<1> QED
  BY <1>1, <1>5, <1>6, <1>7 DEF IInv

(***************************************************************************)
(* What the tab and the middleware rely on from one step to the next holds *)
(* in every state: requests are sent one answer, one sign-in is under way  *)
(* at the most, and cache and refusals are about the user they were asked  *)
(* for.                                                                    *)
(***************************************************************************)
THEOREM Inductive == Spec => []IInv
<1>1. IInv /\ [Next]_vars => IInv'
  <2> SUFFICES ASSUME IInv, [Next]_vars PROVE IInv'
    OBVIOUS
  <2>1. CASE SignOut \/ Reload
    BY <2>1, SignOutKeeps, ReloadKeeps
  <2>2. ASSUME NEW t \in Tokens, Expire(t) PROVE IInv'
    BY <2>2, ExpireKeeps
  <2>3. ASSUME NEW r \in Requests,
               Submit(r) \/ Follow(r) \/ completeLogin(r) \/ LoginFails(r) \/ LoadProfile(r)
        PROVE  IInv'
    BY <2>3, SubmitKeeps, FollowKeeps, completeLoginKeeps, LoginFailsKeeps, LoadProfileKeeps
  <2>4. ASSUME NEW r \in Requests, NEW t \in Tokens,
               \/ ProfileLoaded(r, t)
               \/ \E answer \in Answers \ {"ok"} : ProfileFails(r, t, answer)
        PROVE  IInv'
    BY <2>4, ProfileLoadedKeeps, ProfileFailsKeeps
  <2>5. ASSUME NEW r \in Requests, Serve(r) \/ Outer(r) \/ Free(r) \/ Stranger(r) PROVE IInv'
    BY <2>5, ServeKeeps, OuterKeeps, FreeKeeps, StrangerKeeps
  <2>6. CASE UNCHANGED vars
    BY <2>6 DEF vars, IInv, TypeOK, HttpOK, LoginOK, Awaits, OwnProfileOnly, RefusedOK
  <2> QED
    BY <2>1, <2>2, <2>3, <2>4, <2>5, <2>6 DEF Next
<1> QED
  BY <1>1, InitHolds, PTL DEF Spec

(***************************************************************************)
(* Every variable of the tab and of the server has its type.               *)
(***************************************************************************)
THEOREM TypeCorrect == Spec => []TypeOK
<1>1. IInv => TypeOK
  BY DEF IInv
<1> QED
  BY <1>1, Inductive, PTL

(***************************************************************************)
(* Every answer is logged once, a panic's and a deadline's too, and what a *)
(* handler answered was counted, whichever of the two goroutines of a      *)
(* request comes first.                                                    *)
(***************************************************************************)
THEOREM AnswersAccounted == Spec => []Accounted
<1>1. IInv => Accounted
  BY DEF IInv, HttpOK, RequestOK, Accounted
<1> QED
  BY <1>1, Inductive, PTL

(***************************************************************************)
(* The web app can read every answer, whichever layer gives it: CORS has   *)
(* written to the connection before BodyLimit, Recovery and Timeout can    *)
(* answer on it, and nothing is lost with the buffer of Timeout.  A page   *)
(* of another origin reads no answer.                                      *)
(***************************************************************************)
THEOREM EveryAnswerReadable == Spec => []AnswersReadable
<1>1. IInv => AnswersReadable
  <2> SUFFICES ASSUME IInv, NEW r \in Requests, http[r].pc = "answered"
               PROVE  Read(http[r]) # "unreadable" <=> http[r].origin = "allowed"
    BY DEF AnswersReadable
  <2>1. "connection" \in http[r].allow <=> http[r].origin = "allowed"
    BY DEF IInv, HttpOK, RequestOK, OriginWritten
  <2>2. Read(http[r]) # "unreadable" <=> "connection" \in http[r].allow
    <3>1. CASE "connection" \notin http[r].allow
      BY <3>1 DEF Read
    <3>2. CASE "connection" \in http[r].allow /\ http[r].status \in FromHandler
      BY <3>2 DEF Read, FromHandler
    <3>3. CASE "connection" \in http[r].allow /\ http[r].status \notin FromHandler
      BY <3>3 DEF Read
    <3> QED
      BY <3>1, <3>2, <3>3
  <2> QED
    BY <2>1, <2>2
<1> QED
  BY <1>1, Inductive, PTL

\* What the client of a request has been sent, and the log has of it.
Answer(q) == <<q.status, q.allow, q.lines>>

AnswerStands(r) ==
  http[r].pc = "answered" /\ http'[r].pc = "answered" => Answer(http'[r]) = Answer(http[r])

(***************************************************************************)
(* A request is answered once: after its 504, or any other answer, what    *)
(* the chain that was left behind still replies or raises changes nothing  *)
(* of what was sent or logged, until the connection has its next request.  *)
(***************************************************************************)
THEOREM AnsweredOnce == Spec => [][\A r \in Requests : AnswerStands(r)]_vars
<1>1. IInv /\ [Next]_vars => \A r \in Requests : AnswerStands(r)
  <2> SUFFICES ASSUME IInv, [Next]_vars, NEW r \in Requests PROVE AnswerStands(r)
    OBVIOUS
  <2> USE DEF AnswerStands
  <2>0. http \in [Requests -> Request] /\ http[r] \in Request
    BY DEF IInv, TypeOK
  <2>1. ASSUME NEW q \in Requests, NEW ask, NEW origin, NEW body, NEW isPreflight,
               Arrive(q, ask, origin, body, isPreflight)
        PROVE  AnswerStands(r)
    BY <2>0, <2>1, SMT DEF Arrive
  <2>2. ASSUME NEW q \in Requests, Finish(q) \/ Recovery(q) \/ Timeout(q)
        PROVE  AnswerStands(r)
    BY <2>0, <2>2, SMT DEF Finish, Recovery, Timeout
  <2>3. ASSUME NEW q \in Requests, Done(q)
        PROVE  AnswerStands(r)
    BY <2>0, <2>3, SMT DEF Done, NoRequest
  <2>4. ASSUME NEW q \in Requests, NEW code, Reply(q, code)
        PROVE  AnswerStands(r)
    <3>1. CASE q # r
      BY <2>0, <2>4, <3>1, Zenon DEF Reply
    <3>2. CASE q = r
      <4>1. /\ http'[r].status = http[r].status /\ http'[r].allow = http[r].allow
            /\ http'[r].lines = http[r].lines
        BY <2>0, <2>4, <3>2, Zenon DEF Reply, Request
      <4> QED
        BY <4>1 DEF Answer
    <3> QED
      BY <3>1, <3>2
  <2>5. ASSUME NEW q \in Requests, Panic(q)
        PROVE  AnswerStands(r)
    <3>1. CASE q # r
      BY <2>0, <2>5, <3>1, Zenon DEF Panic
    <3>2. CASE q = r
      <4>1. /\ http'[r].status = http[r].status /\ http'[r].allow = http[r].allow
            /\ http'[r].lines = http[r].lines
        BY <2>0, <2>5, <3>2, Zenon DEF Panic, Request
      <4> QED
        BY <4>1 DEF Answer
    <3> QED
      BY <3>1, <3>2
  <2>6. ASSUME NEW q \in Requests, Follow(q)
        PROVE  AnswerStands(r)
    <3> DEFINE s == [NoRequest EXCEPT !.ask = awaits[q].ask, !.origin = "allowed"]
    <3>1. ServeHTTP(s, FALSE).pc = "waiting"
      <4>1. /\ s.body = "fits" /\ s.pc = "idle" /\ s.chain = "none" /\ s.allow = {}
            /\ s.origin = "allowed" /\ s.lines = 0
        BY NewRequest, Zenon DEF NoRequest
      <4>2. s \in Request
        <5>1. awaits[q].ask \in Asks /\ "allowed" \in Origins
          BY AsksTyped DEF IInv, TypeOK, Await, Origins
        <5> QED
          BY <5>1, NewRequest, Zenon DEF Request
      <4> HIDE DEF s
      <4> DEFINE a == AllowOrigin(s)
      <4>3. a \in Request /\ a.pc = "idle"
        BY <4>1, <4>2, CORSWrites
      <4>4. a.body = "fits"
        BY <4>1, <4>2, SMT DEF AllowOrigin, Request
      <4> HIDE DEF a
      <4>5. ServeHTTP(s, FALSE) = [a EXCEPT !.pc = "waiting", !.chain = "running"]
        BY <4>3, <4>4 DEF ServeHTTP, CORS, BodyLimit, RunInside, a
      <4> QED
        BY <4>3, <4>5, Zenon DEF Request
    <3>2. http' = [http EXCEPT ![q] = ServeHTTP(s, FALSE)]
      BY <2>6 DEF Follow
    <3> HIDE DEF s
    <3>3. CASE q = r
      BY <2>0, <3>1, <3>2, <3>3
    <3>4. CASE q # r
      BY <2>0, <3>2, <3>4, Zenon
    <3> QED
      BY <3>3, <3>4
  <2>7. CASE UNCHANGED http
    BY <2>7
  <2>8. CASE SignOut \/ Reload \/ \E t \in Tokens : Expire(t)
    BY <2>7, <2>8 DEF SignOut, Reload, Expire
  <2>9. ASSUME NEW q \in Requests, Submit(q) \/ LoadProfile(q) \/ Stranger(q)
        PROVE  AnswerStands(r)
    BY <2>1, <2>9 DEF Submit, LoadProfile, Fetch, Stranger
  <2>10. ASSUME NEW q \in Requests,
                \/ completeLogin(q) \/ LoginFails(q)
                \/ \E t \in Tokens :
                     \/ ProfileLoaded(q, t)
                     \/ \E answer \in Answers \ {"ok"} : ProfileFails(q, t, answer)
         PROVE  AnswerStands(r)
    BY <2>7, <2>10 DEF completeLogin, LoginFails, ProfileLoaded, ProfileFails
  <2>11. ASSUME NEW q \in Requests, Serve(q) \/ Outer(q) \/ Free(q)
         PROVE  AnswerStands(r)
    BY <2>2, <2>3, <2>4, <2>5, <2>11 DEF Serve, Outer, Free
  <2> QED
    BY <2>6, <2>7, <2>8, <2>9, <2>10, <2>11 DEF Next, vars
<1> QED
  BY <1>1, Inductive, PTL DEF Spec

(***************************************************************************)
(* The query cache of App holds no profile but that of the user who is     *)
(* signed in: no late answer, retry or reload brings another one into it.  *)
(***************************************************************************)
THEOREM NobodyElsesProfile == Spec => []OwnProfileOnly
<1>1. IInv => OwnProfileOnly
  BY DEF IInv
<1> QED
  BY <1>1, Inductive, PTL

(***************************************************************************)
(* signOut, by the user or by a refusal, leaves nothing of the session in  *)
(* the page, and nothing brings it back.                                   *)
(***************************************************************************)
THEOREM SignedOutHasForgotten == Spec => []SignedOutForgets
<1>1. IInv => SignedOutForgets
  BY Numbers DEF IInv, OwnProfileOnly, SignedOutForgets
<1> QED
  BY <1>1, Inductive, PTL

(***************************************************************************)
(* A token the page was refused with is in no request of the session that  *)
(* follows: neither the retry of a query nor the next login uses it.       *)
(***************************************************************************)
THEOREM RefusedNotReused == Spec => []RefusedTokenIsNotReused
<1>1. IInv => RefusedTokenIsNotReused
  BY DEF IInv, RefusedOK, RefusedTokenIsNotReused
<1> QED
  BY <1>1, Inductive, PTL
=============================================================================
