------------------------------ MODULE Sessions ------------------------------
(***************************************************************************)
(* What the refresh-token service promises, without requests, stores or    *)
(* time.  A session is opened by a registration or a login and is named    *)
(* after its first refresh token.  Exchanging the live token of a session  *)
(* replaces it by a token nobody has seen; the token exchanged is spent.   *)
(* A session ends when its live token expires or is lost with its store.   *)
(***************************************************************************)
CONSTANT Tokens          \* refresh tokens, told apart by their jti

VARIABLES live,          \* <<session, token>>: the token that continues it
          spent          \* tokens that have left the store, for ever

sessVars == <<live, spent>>

LiveTokens == {p[2] : p \in live}

Unused(t) == t \notin LiveTokens \cup spent

SessInit == live = {} /\ spent = {}

\* Register and Login open a session named after its first token.
Open(t) ==
  /\ Unused(t)
  /\ live' = live \cup {<<t, t>>}
  /\ UNCHANGED spent

\* Refresh exchanges the live token of a session for an unused one.
Exchange(p, n) ==
  /\ p \in live
  /\ Unused(n)
  /\ live' = (live \ {p}) \cup {<<p[1], n>>}
  /\ spent' = spent \cup {p[2]}

\* Expiry takes one live token, the loss of a store takes them all.
End(D) ==
  /\ D \subseteq live
  /\ live' = live \ D
  /\ spent' = spent \cup {p[2] : p \in D}

SessNext ==
  \/ \E t \in Tokens : Open(t)
  \/ \E p \in live, n \in Tokens : Exchange(p, n)
  \/ \E D \in SUBSET live : End(D)

SessSpec == SessInit /\ [][SessNext]_sessVars

-----------------------------------------------------------------------------
SessTypeOK ==
  /\ live \subseteq Tokens \X Tokens
  /\ spent \subseteq Tokens

(***************************************************************************)
(* A session never has two tokens that can continue it, and a token that   *)
(* was exchanged is never accepted again: what the single-winner tests of  *)
(* the use case and of the postgres store are about.                       *)
(***************************************************************************)
OneTokenPerSession == \A p, q \in live : p[1] = q[1] => p = q

OneSessionPerToken == \A p, q \in live : p[2] = q[2] => p = q

NothingLiveIsSpent == LiveTokens \cap spent = {}

\* A session goes by the name of a token the service has issued.
SessionsAreNamedByIssuedTokens == \A p \in live : p[1] \in LiveTokens \cup spent

SessInv == /\ OneTokenPerSession
           /\ OneSessionPerToken
           /\ NothingLiveIsSpent
           /\ SessionsAreNamedByIssuedTokens
=============================================================================
