-------------------------- MODULE FrontendSession --------------------------
(***************************************************************************)
(* A tab of the operation web app and the API it talks to.  The tab keeps  *)
(* an access token in memory and in sessionStorage, which the browser may  *)
(* deny, and the profile it loads with it in the query cache.  Its fetches *)
(* are cross-origin: the browser asks with a preflight and hands out an    *)
(* answer only if it names the tab's origin.  Answers come late, or never; *)
(* strangers use the same server.                                          *)
(***************************************************************************)
EXTENDS HttpShell

CONSTANTS
  MaxLogins    \* bound: the access tokens the server issues

VARIABLES
  tab,         \* the state of the page, see Tab
  stored,      \* sessionStorage's access token
  awaits,      \* request -> what the tab waits for with it, see Await
  issued,      \* how many access tokens were issued
  expired,     \* those that have expired
  refused      \* those the page has been refused with UNAUTHORIZED (history)

vars == <<http, tab, stored, awaits, issued, expired, refused>>

\* Tokens are numbered as they are issued, each by a login of its own.
Tokens == 1 .. MaxLogins
NoToken == 0
Held == Tokens \cup {NoToken}

Login == <<"login", NoToken>>
Me(t) == <<"me", t>>
Other == <<"other", NoToken>>                    \* what strangers ask
TabAsks == {Login, Other} \cup {Me(t) : t \in Tokens}

ASSUME TabConstants == MaxLogins \in Nat /\ Asks = TabAsks /\ NoAsk = Other

\* The query of the key ["current-user", token].
Query == [state : {"absent", "fetching", "retrying", "loaded", "failed"}, failures : 0 .. 1]
NoQuery == [state |-> "absent", failures |-> 0]

Tab == [access : Held, submitting : BOOLEAN, query : [Tokens -> Query]]
NewTab(t) == [access |-> t, submitting |-> FALSE, query |-> [u \in Tokens |-> NoQuery]]

\* "preflight" until the browser knows that it may send the request.
Await == [stage : {"none", "preflight", "request"}, ask : TabAsks]
Nothing == [stage |-> "none", ask |-> Other]

-----------------------------------------------------------------------------
(* The browser                                                             *)

\* A preflight first, unless an earlier one is remembered.  The tab's origin is
\* one of AllowedOrigins.
Fetch(r, ask) ==
  \E stage \in {"preflight", "request"} :
    /\ Arrive(r, ask, "allowed", "fits", stage = "preflight")
    /\ awaits' = [awaits EXCEPT ![r] = [stage |-> stage, ask |-> ask]]

\* fetch() and response.json(): an envelope, or an error.
Answers == FromHandler \cup {"unreadable"}
Read(q) ==
  CASE "connection" \notin q.allow -> "unreadable"
    [] "connection" \in q.allow /\ q.status \in FromHandler -> q.status
    [] OTHER -> "failed"             \* 500, 504 and 413 are envelopes, too

\* The allowed preflight: the request itself follows.
Follow(r) ==
  /\ awaits[r].stage = "preflight" /\ http[r].status = "preflight"
  /\ "connection" \in http[r].allow
  /\ http' = [http EXCEPT ![r] =
       ServeHTTP([NoRequest EXCEPT !.ask = awaits[r].ask, !.origin = "allowed"], FALSE)]
  /\ awaits' = [awaits EXCEPT ![r].stage = "request"]
  /\ UNCHANGED <<tab, stored, issued, expired, refused>>

\* The answer of what the tab has asked, or the failure of the fetch.
Settled(r, ask, answer) ==
  /\ awaits[r].stage # "none" /\ awaits[r].ask = ask
  /\ \/ awaits[r].stage = "request" /\ http[r].pc = "answered" /\ answer = Read(http[r])
     \/ answer = "unreadable"                                   \* the network fails
  /\ awaits' = [awaits EXCEPT ![r] = Nothing]

-----------------------------------------------------------------------------
(* LoginPage and App                                                       *)

Submit(r) ==
  /\ tab.access = NoToken /\ ~tab.submitting
  /\ Fetch(r, Login)
  /\ tab' = [tab EXCEPT !.submitting = TRUE]
  /\ UNCHANGED <<stored, issued, expired, refused>>

\* completeLogin, with the token the answer carries; MePage mounts.  Storing it
\* fails silently.
completeLogin(r) ==
  /\ Settled(r, Login, "ok")
  /\ issued < MaxLogins
  /\ issued' = issued + 1
  /\ tab' = [tab EXCEPT !.access = issued', !.submitting = FALSE]
  /\ stored' \in {stored, issued'}
  /\ UNCHANGED <<http, expired, refused>>

LoginFails(r) ==
  /\ \E answer \in Answers \ {"ok"} : Settled(r, Login, answer)
  /\ tab' = [tab EXCEPT !.submitting = FALSE]
  /\ UNCHANGED <<http, stored, issued, expired, refused>>

\* removeQueries takes every profile out of the cache.
SignedOut == [tab EXCEPT !.access = NoToken, !.query = [t \in Tokens |-> NoQuery]]

\* Removing the stored token fails silently, too.
signOut ==
  /\ tab' = SignedOut
  /\ stored' \in {stored, NoToken}

SignOut ==
  /\ tab.access # NoToken
  /\ signOut
  /\ UNCHANGED <<http, awaits, issued, expired, refused>>

-----------------------------------------------------------------------------
(* MePage: the query of the current user                                   *)

Current == tab.query[tab.access]

\* On mount, on a retry, or when the user or a reconnection asks again; a fetch
\* that is under way is not doubled.
LoadProfile(r) ==
  /\ tab.access # NoToken
  /\ Current.state # "fetching"
  /\ Fetch(r, Me(tab.access))
  /\ tab' = [tab EXCEPT !.query[tab.access].state = "fetching",
       !.query[tab.access].failures = IF Current.state = "retrying" THEN 1 ELSE 0]
  /\ UNCHANGED <<stored, issued, expired, refused>>

\* Mutant: the default of the app, retry: 1, whatever the error is.
RetriesAnything(q, answer) == q.failures < 1
Retries(q, answer) == answer # "unauthorized" /\ q.failures < 1

\* Mutant: a late answer makes a cache entry of its own.
HearsLate(t) == TRUE
\* The answer goes to the query that asked; one that was removed is silent.
Hears(t) == tab.query[t].state = "fetching"

ProfileLoaded(r, t) ==
  /\ Settled(r, Me(t), "ok")
  /\ tab' = IF Hears(t)
            THEN [tab EXCEPT !.query[t] = [state |-> "loaded", failures |-> 0]] ELSE tab
  /\ UNCHANGED <<http, stored, issued, expired, refused>>

ProfileFails(r, t, answer) ==
  /\ Settled(r, Me(t), answer)
  /\ refused' = IF answer = "unauthorized" /\ Hears(t) THEN refused \cup {t} ELSE refused
  /\ \/ /\ ~Hears(t)
        /\ UNCHANGED <<tab, stored>>
     \/ /\ Hears(t) /\ Retries(tab.query[t], answer)
        /\ tab' = [tab EXCEPT !.query[t].state = "retrying"]
        /\ UNCHANGED stored
     \/ /\ Hears(t) /\ ~Retries(tab.query[t], answer) /\ answer # "unauthorized"
        /\ tab' = [tab EXCEPT !.query[t] = [state |-> "failed", failures |-> 0]]
        /\ UNCHANGED stored
     \/ /\ Hears(t) /\ ~Retries(tab.query[t], answer) /\ answer = "unauthorized"
        /\ signOut                                             \* onUnauthorized
  /\ UNCHANGED <<http, issued, expired>>

\* The page is loaded again: everything but sessionStorage is gone, and the
\* answers on their way find nobody.  Reading the token may be denied.
Reload ==
  /\ tab' \in {NewTab(stored), NewTab(NoToken)}
  /\ awaits' = [r \in Requests |-> Nothing]
  /\ refused' = {}
  /\ UNCHANGED <<http, stored, issued, expired>>

-----------------------------------------------------------------------------
(* The server                                                              *)

\* The Auth middleware refuses an access token that has expired.
Answerable(ask) ==
  IF ask \in {Me(t) : t \in expired} THEN FromHandler \ {"ok"} ELSE FromHandler \ {"unauthorized"}

Serve(r) ==
  /\ \/ \E code \in Answerable(http[r].ask) : Reply(r, code)
     \/ Panic(r)
  /\ UNCHANGED <<tab, stored, awaits, issued, expired, refused>>

Outer(r) ==
  /\ Finish(r) \/ Recovery(r) \/ Timeout(r)
  /\ UNCHANGED <<tab, stored, awaits, issued, expired, refused>>

Free(r) ==
  /\ awaits[r].stage = "none"
  /\ Done(r)
  /\ UNCHANGED <<tab, stored, awaits, issued, expired, refused>>

Expire(t) ==
  /\ t \in 1 .. issued \ expired
  /\ expired' = expired \cup {t}
  /\ UNCHANGED <<http, tab, stored, awaits, issued, refused>>

\* Another client, from anywhere, with any body.
Stranger(r) ==
  /\ \E origin \in Origins, body \in Bodies, isPreflight \in BOOLEAN :
       Arrive(r, Other, origin, body, isPreflight)
  /\ UNCHANGED <<tab, stored, awaits, issued, expired, refused>>

-----------------------------------------------------------------------------
Init ==
  /\ http = [r \in Requests |-> NoRequest]
  /\ tab = NewTab(NoToken)
  /\ stored = NoToken
  /\ awaits = [r \in Requests |-> Nothing]
  /\ issued = 0
  /\ expired = {}
  /\ refused = {}

Next ==
  \/ SignOut \/ Reload
  \/ \E t \in Tokens : Expire(t)
  \/ \E r \in Requests :
       \/ Submit(r) \/ Follow(r) \/ completeLogin(r) \/ LoginFails(r) \/ LoadProfile(r)
       \/ \E t \in Tokens :
            \/ ProfileLoaded(r, t)
            \/ \E answer \in Answers \ {"ok"} : ProfileFails(r, t, answer)
       \/ Serve(r) \/ Outer(r) \/ Free(r) \/ Stranger(r)

Spec == Init /\ [][Next]_vars

\* The goroutine of net/http runs, and the timer of a request fires.
FairSpec == Spec /\ \A r \in Requests : WF_vars(Outer(r))

-----------------------------------------------------------------------------
(* Properties                                                              *)

(***************************************************************************)
(* Every variable has its type.                                            *)
(***************************************************************************)
TypeOK ==
  /\ http \in [Requests -> Request]
  /\ tab \in Tab
  /\ stored \in Held
  /\ awaits \in [Requests -> Await]
  /\ issued \in 0 .. MaxLogins
  /\ expired \subseteq Tokens /\ refused \subseteq Tokens

(***************************************************************************)
(* Every request is answered, though its handler may panic or never        *)
(* return: the deadline covers all that runs inside it.                    *)
(***************************************************************************)
EveryRequestAnswered == \A r \in Requests : http[r].pc = "waiting" ~> http[r].pc # "waiting"

(***************************************************************************)
(* Every answer, a panic's and a deadline's too, leaves exactly one line   *)
(* in the log, and one that a handler gave has been counted.               *)
(***************************************************************************)
Accounted ==
  \A r \in Requests : http[r].pc = "answered" =>
    /\ http[r].lines = 1
    /\ http[r].status \in FromHandler => http[r].counted = 1

(***************************************************************************)
(* An allowed page can read whatever it is answered, by whichever layer:   *)
(* the 413 of BodyLimit, the 500 of a panic and the 504 of a deadline,     *)
(* which drops what was written inside it.  Another page reads nothing.    *)
(***************************************************************************)
AnswersReadable ==
  \A r \in Requests : http[r].pc = "answered" =>
    (Read(http[r]) # "unreadable" <=> http[r].origin = "allowed")

(***************************************************************************)
(* After a sign-out, by the user or by a refusal, nothing of the session   *)
(* is left in the page, and no answer that comes late brings it back.      *)
(***************************************************************************)
SignedOutForgets ==
  tab.access = NoToken => \A t \in Tokens : tab.query[t] = NoQuery

(***************************************************************************)
(* A token the page was refused with ends its session at once: it is not   *)
(* used again, neither by the retry of a query nor by the user, until the  *)
(* page is loaded again.                                                   *)
(***************************************************************************)
RefusedTokenIsNotReused ==
  \A r \in Requests : awaits[r].stage # "none" => \A t \in refused :
    awaits[r].ask # Me(t) \/ tab.access # t
=============================================================================
